------------------------- MODULE ScrapeQueue_proofs -------------------------
(***************************************************************************)
(* What holds of the distributed scrape queue for every number of pods,    *)
(* jobs, profiles and operators, and for every bound.                      *)
(*                                                                         *)
(* Whatever fails: its types, that a job is claimed once, and that no pod  *)
(* runs more scrapes than its limit.  As long as no lease lapses under a   *)
(* live owner (~LeaseMayLapse): the per-profile mutual exclusion, the      *)
(* soundness of the orphan reaper and the implementation of ProfileQueue.  *)
(* As long as, besides, a Redis reply is not slower than a scrape          *)
(* (~SlowReplies): that reaping loses no job, and that the counters KEDA   *)
(* scales on add up.                                                       *)
(*                                                                         *)
(* The invariant is built in layers, each inductive relative to those      *)
(* before: TypeInv, QueueInv (what a pod has taken up has left the waiting *)
(* list), OwnerInv (a claimed job has one owner), LockInv (the owner of a  *)
(* job holds the lock of its profile) and OrphanVerdictSound; beside them  *)
(* SlotsCounted (a claim tick spends its budget).  On these stand RunInv   *)
(* (a taken job is in sn:running), BoundInv (no drain before the first     *)
(* fault, no sweep before the first cancellation), OrderlyInv (without a   *)
(* fault every running job is taken and nothing is reaped), SafeInv (every *)
(* job is over, or held by something that will be looked at) and AcctInv   *)
(* (a counter is the number of the jobs it stands for).                    *)
(***************************************************************************)
EXTENDS ScrapeQueue, SeqLemmas, FiniteSetTheorems, TLAPS

-----------------------------------------------------------------------------
(* The invariant.                                                          *)

ReplyHasSlot == \A p \in Pods : reply[p] # NoJob => slots[p] > 0
LocalFinite == \A p \in Pods : IsFiniteSet(local[p])
ReapNamesJob == \A p \in Pods : reap[p].pc # "idle" => reap[p].job \in Jobs
SweepNamesJob == \A p \in Pods : sweep[p].pc \in {"deactivate", "mark"} => sweep[p].job \in Jobs
TypeInv == TypeOK /\ ReplyHasSlot /\ LocalFinite /\ ReapNamesJob /\ SweepNamesJob

\* A submitted job that is no longer in sn:waiting.
LeftQueue(j) == jobState[j] # "absent" /\ j \notin ToSet(waiting)

WaitingOnce == Distinct(waiting)
WaitingQueued == \A j \in ToSet(waiting) : jobState[j] = "queued"
StartedLeft == \A j \in Jobs : stage[j] # "none" \/ j \in running \/ update[j] # NoUpdate
                                 => LeftQueue(j)
OwnedLeft == \A p \in Pods : /\ \A j \in local[p] : LeftQueue(j)
                             /\ reply[p] # NoJob => LeftQueue(reply[p])
ReapedLeft == \A p \in Pods : reap[p].pc # "idle" => LeftQueue(reap[p].job)
SweptLeft == \A p \in Pods : /\ sweep[p].pc \in {"deactivate", "mark"} => LeftQueue(sweep[p].job)
                             /\ \A j \in sweep[p].todo : jobState[j] # "absent"
QueueInv == WaitingOnce /\ WaitingQueued /\ StartedLeft /\ OwnedLeft /\ ReapedLeft /\ SweptLeft

ScraperOwned == \A j \in Jobs : stage[j] = "scraping" => \E p \in Pods : j \in local[p]
ReplyIdle == \A p \in Pods : reply[p] # NoJob =>
                 stage[reply[p]] = "none" /\ \A r \in Pods : reply[p] \notin local[r]
ReplyUnique == \A p, r \in Pods : reply[p] = reply[r] /\ reply[p] # NoJob => p = r
LocalUnique == \A p, r \in Pods : local[p] \intersect local[r] # {} => p = r
OwnerInv == ScraperOwned /\ ReplyIdle /\ ReplyUnique /\ LocalUnique

Inv == TypeInv /\ QueueInv /\ OwnerInv

HoldsLock(j) == lock[ProfileOf[j]] = j
LockInv == /\ \A j \in Jobs : stage[j] = "scraping" => HoldsLock(j)
           /\ \A p \in Pods : reply[p] # NoJob => HoldsLock(reply[p])

-----------------------------------------------------------------------------
(* Types.                                                                  *)

ReapPCs == {"idle", "hdel", "lrem", "deactivate", "read", "write"}
SweepPCs == {"idle", "next", "deactivate", "mark"}

\* _acctDeactivate keeps the counters natural numbers.
LEMMA AcctDeactivateType ==
  ASSUME NEW q \in Profiles, AcctDeactivate(q),
         acct \in [Profiles -> Nat], scale \in [Profiles -> Nat]
  PROVE  acct' \in [Profiles -> Nat] /\ scale' \in [Profiles -> Nat]
  BY DEF AcctDeactivate

\* Moving a reap on changes its pc and keeps its job.
LEMMA ReapMoves ==
  ASSUME TypeOK, NEW p \in Pods, NEW c \in ReapPCs, ReapAt(p, c)
  PROVE  /\ reap' \in [Pods -> [pc: ReapPCs, job: Jobs \union {NoJob}]]
         /\ \A r \in Pods : reap'[r].job = reap[r].job
         /\ \A r \in Pods : reap'[r].pc = IF r = p THEN c ELSE reap[r].pc
  BY DEF TypeOK, ReapAt, ReapPCs

\* Moving a sweep on changes its pc and keeps the rest.
LEMMA SweepMoves ==
  ASSUME TypeOK, NEW p \in Pods, NEW c \in SweepPCs, SweepAt(p, c)
  PROVE  /\ sweep' \in [Pods -> [pc: SweepPCs, todo: SUBSET Jobs,
                                 job: Jobs \union {NoJob}, won: BOOLEAN]]
         /\ \A r \in Pods : sweep'[r].job = sweep[r].job /\ sweep'[r].todo = sweep[r].todo
         /\ \A r \in Pods : sweep'[r].pc = IF r = p THEN c ELSE sweep[r].pc
  BY DEF TypeOK, SweepAt, SweepPCs

\* The initial state is well typed.
LEMMA TypeInit == Init => TypeInv
  BY FS_EmptySet, PodsAssumption, JobsAssumption, BoundsAssumption, StatusesAssumption
  DEF TypeInv, TypeOK, ReplyHasSlot, LocalFinite, ReapNamesJob, SweepNamesJob,
      IdleSweep, IdleReap, Init, Stages, JobStates, NoUpdate, ScraperStates

\* Every step keeps the types, and a pod has a slot for the claim in flight.
LEMMA TypeNext == TypeInv /\ [Next]_vars => TypeInv'
<1> USE PodsAssumption, JobsAssumption, BoundsAssumption, StatusesAssumption
    DEF TypeInv, TypeOK, ReplyHasSlot, LocalFinite, ReapNamesJob, SweepNamesJob,
        redisVars, podVars, vars, IdleSweep, IdleReap
<1> SUFFICES ASSUME TypeInv, [Next]_vars PROVE TypeInv'
  OBVIOUS
<1>1. ASSUME NEW j \in Jobs, NEW p \in Pods, Submit(p, j) PROVE TypeInv'
  BY <1>1 DEF Submit, JobStates
<1>2. ASSUME NEW j \in Jobs, Activate(j) PROVE TypeInv'
  BY <1>2 DEF Activate, AcctActivate
<1>3. ASSUME NEW p \in Pods, ClaimTick(p) PROVE TypeInv'
  BY <1>3, FS_CardinalityType DEF ClaimTick
<1>4. ASSUME NEW p \in Pods, ClaimNextJob(p) PROVE TypeInv'
  <2>1. PICK i \in DOMAIN waiting :
             /\ waiting' = SubSeq(waiting, i + 1, Len(waiting)) \o SubSeq(waiting, 1, i - 1)
             /\ lock' = [lock EXCEPT ![ProfileOf[waiting[i]]] = waiting[i]]
             /\ jobState' = [jobState EXCEPT ![waiting[i]] = "running"]
             /\ running' = running \union {waiting[i]}
             /\ reply' = [reply EXCEPT ![p] = waiting[i]]
    BY <1>4 DEF ClaimNextJob
  <2>2. waiting[i] \in Jobs
    BY LenProperties
  <2>3. waiting' \in Seq(Jobs)
    BY <2>1, SplitType
  <2>4. lock' \in [Profiles -> Jobs \union {NoJob}]
    BY <2>1, <2>2
  <2>5. jobState' \in [Jobs -> JobStates]
    BY <2>1, <2>2 DEF JobStates, ScraperStates
  <2>6. reply' \in [Pods -> Jobs \union {NoJob}] /\ ReplyHasSlot'
    <3>1. \A r \in Pods : reply'[r] = IF r = p THEN waiting[i] ELSE reply[r]
      BY <2>1, <2>2
    <3>2. slots' = slots /\ slots[p] > 0
      BY <1>4 DEF ClaimNextJob
    <3>3. ReplyHasSlot'
      BY <3>1, <3>2
    <3> QED BY <2>1, <2>2, <3>3
  <2>7. running' \subseteq Jobs
    BY <2>1, <2>2
  <2>8. UNCHANGED <<active, acct, scale, podState, local, slots, stage, adding,
                    update, sweep, reap, faults, sweeps>>
    BY <1>4 DEF ClaimNextJob
  <2> HIDE DEF ReplyHasSlot
  <2> QED
    BY <2>3, <2>4, <2>5, <2>6, <2>7, <2>8
<1>5. ASSUME NEW p \in Pods, ClaimNothing(p) PROVE TypeInv'
  BY <1>5 DEF ClaimNothing
<1>6. ASSUME NEW p \in Pods, RunJob(p) PROVE TypeInv'
  <2>1. reply[p] \in Jobs /\ slots[p] \in 1 .. MaxConcurrent
    BY <1>6 DEF RunJob
  <2>2. IsFiniteSet(local[p] \union {reply[p]})
    BY FS_AddElement
  <2> QED
    BY <1>6, <2>1, <2>2 DEF RunJob, Stages
<1>7. ASSUME NEW p \in Pods, NEW j \in Jobs, UpdateRead(p, j) PROVE TypeInv'
  BY <1>7 DEF UpdateRead
<1>8. ASSUME NEW j \in Jobs, UpdateWrite(j) PROVE TypeInv'
  BY <1>8 DEF UpdateWrite, JobStates, NoUpdate, ScraperStates
<1>9. ASSUME NEW p \in Pods, NEW j \in Jobs, FinishWrite(p, j) PROVE TypeInv'
  BY <1>9 DEF FinishWrite, Stages, JobStates, ScraperStates
<1>10. ASSUME NEW j \in Jobs, ReleaseLock(j) PROVE TypeInv'
  BY <1>10 DEF ReleaseLock, Stages
<1>11. ASSUME NEW j \in Jobs, FinishDeactivate(j) PROVE TypeInv'
  <2>1. acct' \in [Profiles -> Nat] /\ scale' \in [Profiles -> Nat]
    BY <1>11, AcctDeactivateType DEF FinishDeactivate
  <2> QED
    BY <1>11, <2>1 DEF FinishDeactivate, Stages
<1>12. ASSUME NEW p \in Pods, NEW j \in Jobs, Leave(p, j) PROVE TypeInv'
  <2>1. IsFiniteSet(local[p] \ {j})
    BY FS_RemoveElement
  <2> QED
    BY <1>12, <2>1 DEF Leave, Stages
<1>13. ASSUME NEW j \in Jobs, FinishRejected(j) PROVE TypeInv'
  BY <1>13 DEF FinishRejected, Stages
<1>14. ASSUME NEW q \in Profiles, LockExpire(q) PROVE TypeInv'
  BY <1>14 DEF LockExpire
<1>15. ASSUME NEW p \in Pods, NEW j \in Jobs, ReapCheck(p, j) PROVE TypeInv'
  BY <1>15 DEF ReapCheck
<1>16. ASSUME NEW p \in Pods, ReapClaim(p) PROVE TypeInv'
  <2>1. CASE ReapAt(p, "lrem")
    BY <1>16, <2>1, ReapMoves DEF ReapClaim, ReapPCs
  <2>2. CASE reap' = [reap EXCEPT ![p] = IdleReap]
    BY <1>16, <2>2 DEF ReapClaim
  <2> QED
    BY <1>16, <2>1, <2>2 DEF ReapClaim
<1>17. ASSUME NEW p \in Pods, ReapRemove(p) PROVE TypeInv'
  BY <1>17, ReapMoves DEF ReapRemove, ReapPCs
<1>18. ASSUME NEW p \in Pods, ReapDeactivate(p) PROVE TypeInv'
  <2>1. acct' \in [Profiles -> Nat] /\ scale' \in [Profiles -> Nat]
    BY <1>18, AcctDeactivateType DEF ReapDeactivate
  <2> QED
    BY <1>18, <2>1, ReapMoves DEF ReapDeactivate, ReapPCs
<1>19. ASSUME NEW p \in Pods, ReapRead(p) PROVE TypeInv'
  <2>1. CASE ReapAt(p, "write")
    <3>1. /\ reap' \in [Pods -> [pc: {"idle", "hdel", "lrem", "deactivate", "read", "write"},
                                 job: Jobs \union {NoJob}]]
          /\ \A r \in Pods : reap'[r].job = reap[r].job
          /\ \A r \in Pods : reap'[r].pc = IF r = p THEN "write" ELSE reap[r].pc
      BY <2>1, ReapMoves DEF ReapPCs
    <3>2. ReapNamesJob'
      BY <1>19, <3>1 DEF ReapRead
    <3>3. UNCHANGED <<redisVars, podState, local, slots, reply, stage, adding, update,
                      sweep, faults, sweeps>>
      BY <1>19 DEF ReapRead
    <3> QED
      BY <3>1, <3>2, <3>3
  <2>2. CASE reap' = [reap EXCEPT ![p] = IdleReap]
    BY <1>19, <2>2 DEF ReapRead
  <2> QED
    BY <1>19, <2>1, <2>2 DEF ReapRead
<1>20. ASSUME NEW p \in Pods, ReapWrite(p) PROVE TypeInv'
  BY <1>20 DEF ReapWrite, JobStates, ScraperStates
<1>21. ASSUME NEW p \in Pods, NEW S \in Selections, SweepList(p, S) PROVE TypeInv'
  BY <1>21 DEF SweepList, Selections
<1>22. ASSUME NEW p \in Pods, NEW j \in Jobs, SweepRemove(p, j) PROVE TypeInv'
  <2>1. waiting' \in Seq(Jobs)
    <3>1. CASE waiting' = waiting
      BY <3>1
    <3>2. ASSUME NEW i \in DOMAIN waiting, waiting' = RemoveAt(waiting, i)
          PROVE  waiting' \in Seq(Jobs)
      BY <3>2, SplitType DEF RemoveAt
    <3> QED
      BY <1>22, <3>1, <3>2 DEF SweepRemove
  <2>2. (j \in ToSet(waiting)) \in BOOLEAN
    OBVIOUS
  <2> QED
    BY <1>22, <2>1, <2>2 DEF SweepRemove
<1>23. ASSUME NEW p \in Pods, SweepDeactivate(p) PROVE TypeInv'
  <2>1. acct' \in [Profiles -> Nat] /\ scale' \in [Profiles -> Nat]
    BY <1>23, AcctDeactivateType DEF SweepDeactivate
  <2>2. SweepAt(p, "mark") \/ SweepAt(p, "next")
    BY <1>23 DEF SweepDeactivate
  <2>3. /\ sweep' \in [Pods -> [pc: {"idle", "next", "deactivate", "mark"}, todo: SUBSET Jobs,
                                job: Jobs \union {NoJob}, won: BOOLEAN]]
        /\ \A r \in Pods : sweep'[r].job = sweep[r].job
        /\ \A r \in Pods : r # p => sweep'[r].pc = sweep[r].pc
    BY <2>2, SweepMoves DEF SweepPCs
  <2>4. SweepNamesJob'
    BY <1>23, <2>3 DEF SweepDeactivate
  <2>5. UNCHANGED <<jobState, waiting, running, active, lock, podState, local,
                    slots, reply, stage, adding, update, reap, faults, sweeps>>
    BY <1>23 DEF SweepDeactivate
  <2> QED
    BY <2>1, <2>3, <2>4, <2>5
<1>24. ASSUME NEW p \in Pods, SweepMark(p) PROVE TypeInv'
  BY <1>24, SweepMoves DEF SweepMark, SweepPCs, JobStates, FinalStates
<1>25. ASSUME NEW p \in Pods, SweepEnd(p) PROVE TypeInv'
  BY <1>25 DEF SweepEnd
<1>26. ASSUME NEW p \in Pods, Kill(p) PROVE TypeInv'
  BY <1>26, FS_EmptySet DEF Kill, MemoryLost, Stages, NoUpdate, ScraperStates
<1>27. ASSUME NEW p \in Pods, DrainStart(p) PROVE TypeInv'
  BY <1>27 DEF DrainStart
<1>28. ASSUME NEW p \in Pods, DrainEnd(p) PROVE TypeInv'
  BY <1>28, FS_EmptySet DEF DrainEnd, MemoryLost, Stages, NoUpdate, ScraperStates
<1>29. ASSUME NEW p \in Pods, Start(p) PROVE TypeInv'
  BY <1>29 DEF Start
<1>30. ASSUME NEW p \in Pods, ReplyLost(p) PROVE TypeInv'
  BY <1>30 DEF ReplyLost
<1>31. CASE UNCHANGED vars
  BY <1>31
<1> QED
  BY <1>1, <1>2, <1>3, <1>4, <1>5, <1>6, <1>7, <1>8, <1>9, <1>10, <1>11, <1>12, <1>13, <1>14, <1>15, <1>16, <1>17, <1>18, <1>19, <1>20, <1>21, <1>22, <1>23, <1>24, <1>25, <1>26, <1>27, <1>28, <1>29, <1>30, <1>31
     DEF Next, AdderStep, ClaimStep, UpdateStep, FinishStep, ReapStep, SweepProgress, SweepStep, PodStep

\* The queue's state is always well typed; in particular the per-account counter
\* of _acctDeactivate never falls below 0 and a claim tick never overdraws its
\* budget of slots.
THEOREM TypeCorrect == Spec => []TypeOK
<1>1. TypeInv => TypeOK
  BY DEF TypeInv
<1> QED
  BY TypeInit, TypeNext, <1>1, PTL DEF Spec

-----------------------------------------------------------------------------
(* The waiting list: a job leaves it once and for good.                    *)

\* No job waits at the start.
LEMMA QueueInit == Init => QueueInv
<1> SUFFICES ASSUME Init PROVE QueueInv
  OBVIOUS
<1>1. Distinct(waiting) /\ ToSet(waiting) = {}
  BY DEF Init, Distinct, ToSet
<1> QED
  BY <1>1 DEF Init, IdleSweep, IdleReap,
      QueueInv, WaitingOnce, WaitingQueued, StartedLeft,
      OwnedLeft, ReapedLeft, SweptLeft, LeftQueue

\* Every step keeps what is in hand (running, reported, reaped, cancelled) apart
\* from what waits.
LEMMA QueueNext == TypeInv /\ QueueInv /\ [Next]_vars => QueueInv'
<1> USE PodsAssumption, JobsAssumption, BoundsAssumption, StatusesAssumption
    DEF TypeInv, TypeOK, ReplyHasSlot, LocalFinite, ReapNamesJob, SweepNamesJob,
        redisVars, podVars, vars, IdleSweep, IdleReap,
        QueueInv, WaitingOnce, WaitingQueued, StartedLeft, OwnedLeft, ReapedLeft, SweptLeft,
        LeftQueue
<1> SUFFICES ASSUME TypeInv, QueueInv, [Next]_vars PROVE QueueInv'
  OBVIOUS
<1>1. ASSUME NEW p \in Pods, NEW j \in Jobs, Submit(p, j) PROVE QueueInv'
  <2>1. j \notin ToSet(waiting)
    BY <1>1 DEF Submit
  <2>2. Distinct(waiting') /\ ToSet(waiting') = ToSet(waiting) \union {j}
    BY <1>1, <2>1, Grows DEF Submit
  <2>3. ASSUME NEW k \in Jobs, LeftQueue(k) PROVE LeftQueue(k)'
    BY <1>1, <2>2, <2>3 DEF Submit
  <2> HIDE DEF LeftQueue
  <2>4. StartedLeft' /\ OwnedLeft'
    BY <1>1, <2>3 DEF Submit
  <2>5. ReapedLeft' /\ SweptLeft'
    BY <1>1, <2>3 DEF Submit
  <2> QED
    BY <1>1, <2>2, <2>4, <2>5 DEF Submit
<1>2. ASSUME NEW j \in Jobs, Activate(j) PROVE QueueInv'
  BY <1>2 DEF Activate
<1>3. ASSUME NEW p \in Pods, ClaimTick(p) PROVE QueueInv'
  BY <1>3 DEF ClaimTick
<1>4. ASSUME NEW p \in Pods, ClaimNextJob(p) PROVE QueueInv'
  <2>1. PICK i \in DOMAIN waiting :
             /\ waiting' = SubSeq(waiting, i + 1, Len(waiting)) \o SubSeq(waiting, 1, i - 1)
             /\ jobState' = [jobState EXCEPT ![waiting[i]] = "running"]
             /\ running' = running \union {waiting[i]}
             /\ reply' = [reply EXCEPT ![p] = waiting[i]]
    BY <1>4 DEF ClaimNextJob
  <2>2. /\ waiting[i] \in Jobs /\ waiting[i] \in ToSet(waiting)
        /\ ToSet(waiting) \subseteq Jobs
    BY LenProperties DEF ToSet
  <2>3. Distinct(waiting') /\ ToSet(waiting') = ToSet(waiting) \ {waiting[i]}
    BY <2>1, Shrinks
  <2>4. ASSUME NEW k \in Jobs, LeftQueue(k) \/ k = waiting[i] PROVE LeftQueue(k)'
    BY <2>1, <2>2, <2>3, <2>4
  <2>5. WaitingOnce' /\ WaitingQueued'
    <3>1. WaitingOnce'
      BY <2>3
    <3>2. ASSUME NEW k \in ToSet(waiting') PROVE jobState'[k] = "queued"
      BY <2>1, <2>2, <2>3, <3>2
    <3> QED BY <3>1, <3>2
  <2> HIDE DEF LeftQueue
  <2>6. StartedLeft' /\ OwnedLeft'
    <3>1. ASSUME NEW k \in Jobs, stage'[k] # "none" \/ k \in running' \/ update'[k] # NoUpdate
          PROVE  LeftQueue(k)'
      BY <1>4, <2>1, <2>2, <2>4, <3>1 DEF ClaimNextJob
    <3>2. ASSUME NEW r \in Pods, NEW k \in local'[r] PROVE LeftQueue(k)'
      BY <1>4, <2>4, <3>2 DEF ClaimNextJob
    <3>3. ASSUME NEW r \in Pods, reply'[r] # NoJob PROVE LeftQueue(reply[r])'
      <4>1. reply'[r] \in Jobs /\ (reply'[r] = waiting[i] \/ LeftQueue(reply'[r]))
        BY <2>1, <2>2, <3>3
      <4> QED BY <4>1, <2>4
    <3> QED BY <3>1, <3>2, <3>3
  <2>7. ReapedLeft'
    BY <1>4, <2>4 DEF ClaimNextJob
  <2>8. SweptLeft'
    BY <1>4, <2>1, <2>2, <2>4 DEF ClaimNextJob
  <2> QED
    BY <2>5, <2>6, <2>7, <2>8
<1>5. ASSUME NEW p \in Pods, ClaimNothing(p) PROVE QueueInv'
  BY <1>5 DEF ClaimNothing
<1>6. ASSUME NEW p \in Pods, RunJob(p) PROVE QueueInv'
  BY <1>6 DEF RunJob
<1>7. ASSUME NEW p \in Pods, NEW j \in Jobs, UpdateRead(p, j) PROVE QueueInv'
  BY <1>7 DEF UpdateRead
<1>8. ASSUME NEW j \in Jobs, UpdateWrite(j) PROVE QueueInv'
  <2>1. LeftQueue(j)
    BY <1>8 DEF UpdateWrite
  <2>2. ASSUME NEW k \in Jobs, LeftQueue(k) PROVE LeftQueue(k)'
    BY <1>8, <2>2 DEF UpdateWrite, ScraperStates
  <2>3. WaitingOnce' /\ WaitingQueued'
    BY <1>8, <2>1 DEF UpdateWrite
  <2>4. \A k \in Jobs : jobState[k] # "absent" => jobState'[k] # "absent"
    BY <1>8 DEF UpdateWrite, ScraperStates
  <2> HIDE DEF LeftQueue
  <2>5. StartedLeft' /\ OwnedLeft'
    BY <1>8, <2>1, <2>2 DEF UpdateWrite
  <2>6. ReapedLeft' /\ SweptLeft'
    BY <1>8, <2>2, <2>4 DEF UpdateWrite
  <2> QED
    BY <2>3, <2>5, <2>6
<1>9. ASSUME NEW p \in Pods, NEW j \in Jobs, FinishWrite(p, j) PROVE QueueInv'
  BY <1>9 DEF FinishWrite
<1>10. ASSUME NEW j \in Jobs, ReleaseLock(j) PROVE QueueInv'
  BY <1>10 DEF ReleaseLock
<1>11. ASSUME NEW j \in Jobs, FinishDeactivate(j) PROVE QueueInv'
  BY <1>11 DEF FinishDeactivate
<1>12. ASSUME NEW p \in Pods, NEW j \in Jobs, Leave(p, j) PROVE QueueInv'
  BY <1>12 DEF Leave
<1>13. ASSUME NEW j \in Jobs, FinishRejected(j) PROVE QueueInv'
  BY <1>13 DEF FinishRejected
<1>14. ASSUME NEW q \in Profiles, LockExpire(q) PROVE QueueInv'
  BY <1>14 DEF LockExpire
<1>15. ASSUME NEW p \in Pods, NEW j \in Jobs, ReapCheck(p, j) PROVE QueueInv'
  BY <1>15 DEF ReapCheck
<1>16. ASSUME NEW p \in Pods, ReapClaim(p) PROVE QueueInv'
  <2>1. CASE ReapAt(p, "lrem")
    BY <1>16, <2>1 DEF ReapClaim, ReapAt
  <2>2. CASE reap' = [reap EXCEPT ![p] = IdleReap]
    BY <1>16, <2>2 DEF ReapClaim
  <2> QED
    BY <1>16, <2>1, <2>2 DEF ReapClaim
<1>17. ASSUME NEW p \in Pods, ReapRemove(p) PROVE QueueInv'
  BY <1>17 DEF ReapRemove, ReapAt
<1>18. ASSUME NEW p \in Pods, ReapDeactivate(p) PROVE QueueInv'
  BY <1>18 DEF ReapDeactivate, ReapAt
<1>19. ASSUME NEW p \in Pods, ReapRead(p) PROVE QueueInv'
  <2>1. CASE ReapAt(p, "write")
    BY <1>19, <2>1 DEF ReapRead, ReapAt
  <2>2. CASE reap' = [reap EXCEPT ![p] = IdleReap]
    BY <1>19, <2>2 DEF ReapRead
  <2> QED
    BY <1>19, <2>1, <2>2 DEF ReapRead
<1>20. ASSUME NEW p \in Pods, ReapWrite(p) PROVE QueueInv'
  BY <1>20 DEF ReapWrite
<1>21. ASSUME NEW p \in Pods, NEW S \in Selections, SweepList(p, S) PROVE QueueInv'
  BY <1>21 DEF SweepList
<1>22. ASSUME NEW p \in Pods, NEW j \in Jobs, SweepRemove(p, j) PROVE QueueInv'
  <2>1. Distinct(waiting') /\ ToSet(waiting') = ToSet(waiting) \ {j}
    <3>1. CASE j \in ToSet(waiting)
      <4>1. PICK i \in DOMAIN waiting : waiting[i] = j /\ waiting' = RemoveAt(waiting, i)
        BY <1>22, <3>1 DEF SweepRemove
      <4> QED BY <4>1, Shrinks
    <3>2. CASE j \notin ToSet(waiting)
      BY <1>22, <3>2 DEF SweepRemove
    <3> QED BY <3>1, <3>2
  <2>2. LeftQueue(j)'
    BY <1>22, <2>1 DEF SweepRemove
  <2>3. ASSUME NEW k \in Jobs, LeftQueue(k) PROVE LeftQueue(k)'
    BY <1>22, <2>1, <2>3 DEF SweepRemove
  <2>4. WaitingOnce' /\ WaitingQueued'
    BY <1>22, <2>1 DEF SweepRemove
  <2> HIDE DEF LeftQueue
  <2>5. StartedLeft' /\ OwnedLeft' /\ ReapedLeft'
    BY <1>22, <2>3 DEF SweepRemove
  <2>6. SweptLeft'
    BY <1>22, <2>2, <2>3 DEF SweepRemove
  <2> QED
    BY <2>4, <2>5, <2>6
<1>23. ASSUME NEW p \in Pods, SweepDeactivate(p) PROVE QueueInv'
  BY <1>23 DEF SweepDeactivate, SweepAt
<1>24. ASSUME NEW p \in Pods, SweepMark(p) PROVE QueueInv'
  BY <1>24 DEF SweepMark, SweepAt
<1>25. ASSUME NEW p \in Pods, SweepEnd(p) PROVE QueueInv'
  BY <1>25 DEF SweepEnd
<1>26. ASSUME NEW p \in Pods, Kill(p) PROVE QueueInv'
  BY <1>26 DEF Kill, MemoryLost
<1>27. ASSUME NEW p \in Pods, DrainStart(p) PROVE QueueInv'
  BY <1>27 DEF DrainStart
<1>28. ASSUME NEW p \in Pods, DrainEnd(p) PROVE QueueInv'
  BY <1>28 DEF DrainEnd, MemoryLost
<1>29. ASSUME NEW p \in Pods, Start(p) PROVE QueueInv'
  BY <1>29 DEF Start
<1>30. ASSUME NEW p \in Pods, ReplyLost(p) PROVE QueueInv'
  BY <1>30 DEF ReplyLost
<1>31. CASE UNCHANGED vars
  BY <1>31
<1> QED
  BY <1>1, <1>2, <1>3, <1>4, <1>5, <1>6, <1>7, <1>8, <1>9, <1>10, <1>11, <1>12, <1>13, <1>14, <1>15, <1>16, <1>17, <1>18, <1>19, <1>20, <1>21, <1>22, <1>23, <1>24, <1>25, <1>26, <1>27, <1>28, <1>29, <1>30, <1>31
     DEF Next, AdderStep, ClaimStep, UpdateStep, FinishStep, ReapStep, SweepProgress,
         SweepStep, PodStep

\* No step puts a job back that has left the waiting list.
LEMMA LeftForGood ==
  ASSUME TypeInv, QueueInv, [Next]_vars, NEW k \in Jobs
  PROVE  /\ jobState[k] # "absent" => jobState'[k] # "absent"
         /\ LeftQueue(k) => LeftQueue(k)'
<1> USE PodsAssumption, JobsAssumption, BoundsAssumption, StatusesAssumption
    DEF TypeInv, TypeOK, ReplyHasSlot, LocalFinite, ReapNamesJob, SweepNamesJob,
        redisVars, podVars, vars, IdleSweep, IdleReap,
        QueueInv, WaitingOnce, WaitingQueued, StartedLeft, OwnedLeft, ReapedLeft, SweptLeft,
        LeftQueue
<1> DEFINE Goal == /\ jobState[k] # "absent" => jobState'[k] # "absent"
                   /\ LeftQueue(k) => LeftQueue(k)'
<1>1. ASSUME NEW p \in Pods, NEW j \in Jobs, Submit(p, j) PROVE Goal
  <2>1. j \notin ToSet(waiting)
    BY <1>1 DEF Submit
  <2>2. ToSet(waiting') = ToSet(waiting) \union {j}
    BY <1>1, <2>1, Grows DEF Submit
  <2> QED
    BY <1>1, <2>2 DEF Submit
<1>2. ASSUME NEW j \in Jobs, Activate(j) PROVE Goal
  BY <1>2 DEF Activate
<1>3. ASSUME NEW p \in Pods, ClaimTick(p) PROVE Goal
  BY <1>3 DEF ClaimTick
<1>4. ASSUME NEW p \in Pods, ClaimNextJob(p) PROVE Goal
  <2>1. PICK i \in DOMAIN waiting :
             /\ waiting' = SubSeq(waiting, i + 1, Len(waiting)) \o SubSeq(waiting, 1, i - 1)
             /\ jobState' = [jobState EXCEPT ![waiting[i]] = "running"]
             /\ reply' = [reply EXCEPT ![p] = waiting[i]]
             /\ lock' = [lock EXCEPT ![ProfileOf[waiting[i]]] = waiting[i]]
             /\ Claimable(i)
    BY <1>4 DEF ClaimNextJob
  <2>2. waiting[i] \in Jobs /\ waiting[i] \in ToSet(waiting)
    BY LenProperties DEF ToSet
  <2>3. ToSet(waiting') = ToSet(waiting) \ {waiting[i]}
    BY <2>1, Shrinks
  <2> QED
    BY <2>1, <2>2, <2>3
<1>5. ASSUME NEW p \in Pods, ClaimNothing(p) PROVE Goal
  BY <1>5 DEF ClaimNothing
<1>6. ASSUME NEW p \in Pods, RunJob(p) PROVE Goal
  BY <1>6 DEF RunJob
<1>7. ASSUME NEW p \in Pods, NEW j \in Jobs, UpdateRead(p, j) PROVE Goal
  BY <1>7 DEF UpdateRead
<1>8. ASSUME NEW j \in Jobs, UpdateWrite(j) PROVE Goal
  BY <1>8 DEF UpdateWrite, ScraperStates
<1>9. ASSUME NEW p \in Pods, NEW j \in Jobs, FinishWrite(p, j) PROVE Goal
  BY <1>9 DEF FinishWrite
<1>10. ASSUME NEW j \in Jobs, ReleaseLock(j) PROVE Goal
  BY <1>10 DEF ReleaseLock
<1>11. ASSUME NEW j \in Jobs, FinishDeactivate(j) PROVE Goal
  BY <1>11 DEF FinishDeactivate
<1>12. ASSUME NEW p \in Pods, NEW j \in Jobs, Leave(p, j) PROVE Goal
  BY <1>12 DEF Leave
<1>13. ASSUME NEW j \in Jobs, FinishRejected(j) PROVE Goal
  BY <1>13 DEF FinishRejected, Stages
<1>14. ASSUME NEW q \in Profiles, LockExpire(q) PROVE Goal
  BY <1>14 DEF LockExpire
<1>15. ASSUME NEW p \in Pods, NEW j \in Jobs, ReapCheck(p, j) PROVE Goal
  BY <1>15 DEF ReapCheck
<1>16. ASSUME NEW p \in Pods, ReapClaim(p) PROVE Goal
  BY <1>16 DEF ReapClaim
<1>17. ASSUME NEW p \in Pods, ReapRemove(p) PROVE Goal
  BY <1>17 DEF ReapRemove
<1>18. ASSUME NEW p \in Pods, ReapDeactivate(p) PROVE Goal
  BY <1>18 DEF ReapDeactivate
<1>19. ASSUME NEW p \in Pods, ReapRead(p) PROVE Goal
  BY <1>19 DEF ReapRead
<1>20. ASSUME NEW p \in Pods, ReapWrite(p) PROVE Goal
  BY <1>20 DEF ReapWrite
<1>21. ASSUME NEW p \in Pods, NEW S \in Selections, SweepList(p, S) PROVE Goal
  BY <1>21 DEF SweepList
<1>22. ASSUME NEW p \in Pods, NEW j \in Jobs, SweepRemove(p, j) PROVE Goal
  <2>1. CASE waiting' = waiting
    BY <1>22, <2>1 DEF SweepRemove
  <2>2. ASSUME NEW i \in DOMAIN waiting, waiting' = RemoveAt(waiting, i) PROVE Goal
    <3>1. ToSet(waiting') = ToSet(waiting) \ {waiting[i]}
      BY <2>2, Shrinks
    <3> QED BY <1>22, <3>1 DEF SweepRemove
  <2> QED BY <1>22, <2>1, <2>2 DEF SweepRemove
<1>23. ASSUME NEW p \in Pods, SweepDeactivate(p) PROVE Goal
  BY <1>23 DEF SweepDeactivate
<1>24. ASSUME NEW p \in Pods, SweepMark(p) PROVE Goal
  BY <1>24 DEF SweepMark
<1>25. ASSUME NEW p \in Pods, SweepEnd(p) PROVE Goal
  BY <1>25 DEF SweepEnd
<1>26. ASSUME NEW p \in Pods, Kill(p) PROVE Goal
  BY <1>26 DEF Kill, MemoryLost
<1>27. ASSUME NEW p \in Pods, DrainStart(p) PROVE Goal
  BY <1>27 DEF DrainStart
<1>28. ASSUME NEW p \in Pods, DrainEnd(p) PROVE Goal
  BY <1>28 DEF DrainEnd, MemoryLost
<1>29. ASSUME NEW p \in Pods, Start(p) PROVE Goal
  BY <1>29 DEF Start
<1>30. ASSUME NEW p \in Pods, ReplyLost(p) PROVE Goal
  BY <1>30 DEF ReplyLost
<1>31. CASE UNCHANGED vars
  BY <1>31
<1> QED
  BY <1>1, <1>2, <1>3, <1>4, <1>5, <1>6, <1>7, <1>8, <1>9, <1>10, <1>11,
     <1>12, <1>13, <1>14, <1>15, <1>16, <1>17, <1>18, <1>19, <1>20, <1>21,
     <1>22, <1>23, <1>24, <1>25, <1>26, <1>27, <1>28, <1>29, <1>30, <1>31
     DEF Next, AdderStep, ClaimStep, UpdateStep, FinishStep, ReapStep, SweepProgress,
         SweepStep, PodStep

-----------------------------------------------------------------------------
(* Owners.                                                                 *)

\* No pod owns a job at the start.
LEMMA OwnerInit == Init => OwnerInv
  BY DEF Init, OwnerInv, ScraperOwned, ReplyIdle, ReplyUnique, LocalUnique

\* A claimed job is in one pod's hands at a time.
LEMMA OwnerNext == TypeInv /\ QueueInv /\ OwnerInv /\ [Next]_vars => OwnerInv'
<1> USE PodsAssumption, JobsAssumption, BoundsAssumption, StatusesAssumption
    DEF TypeInv, TypeOK, ReplyHasSlot, LocalFinite, ReapNamesJob, SweepNamesJob,
        redisVars, podVars, vars, IdleSweep, IdleReap,
        QueueInv, WaitingOnce, WaitingQueued, StartedLeft, OwnedLeft, ReapedLeft, SweptLeft,
        LeftQueue
<1> SUFFICES ASSUME TypeInv, QueueInv, OwnerInv, [Next]_vars PROVE OwnerInv'
  OBVIOUS
<1> USE DEF OwnerInv, ScraperOwned, ReplyIdle, ReplyUnique, LocalUnique
<1>1. ASSUME NEW p \in Pods, NEW j \in Jobs, Submit(p, j) PROVE OwnerInv'
  BY <1>1 DEF Submit
<1>2. ASSUME NEW j \in Jobs, Activate(j) PROVE OwnerInv'
  BY <1>2 DEF Activate
<1>3. ASSUME NEW p \in Pods, ClaimTick(p) PROVE OwnerInv'
  BY <1>3 DEF ClaimTick
<1>4. ASSUME NEW p \in Pods, ClaimNextJob(p) PROVE OwnerInv'
  <2>1. PICK i \in DOMAIN waiting :
             /\ waiting' = SubSeq(waiting, i + 1, Len(waiting)) \o SubSeq(waiting, 1, i - 1)
             /\ jobState' = [jobState EXCEPT ![waiting[i]] = "running"]
             /\ reply' = [reply EXCEPT ![p] = waiting[i]]
             /\ lock' = [lock EXCEPT ![ProfileOf[waiting[i]]] = waiting[i]]
             /\ Claimable(i)
    BY <1>4 DEF ClaimNextJob
  <2>2. waiting[i] \in Jobs /\ waiting[i] \in ToSet(waiting)
    BY LenProperties DEF ToSet
  <2>3. /\ stage[waiting[i]] = "none"
        /\ \A r \in Pods : waiting[i] \notin local[r] /\ reply[r] # waiting[i]
    BY <2>2
  <2>4. UNCHANGED <<local, stage>>
    BY <1>4 DEF ClaimNextJob
  <2>5. ScraperOwned' /\ LocalUnique'
    BY <2>4
  <2>6. \A r \in Pods : reply'[r] = IF r = p THEN waiting[i] ELSE reply[r]
    BY <2>1, <2>2
  <2>7. ReplyIdle'
    BY <2>2, <2>3, <2>4, <2>6
  <2>8. ReplyUnique'
    <3> SUFFICES ASSUME NEW r \in Pods, NEW s \in Pods, reply'[r] = reply'[s], reply'[r] # NoJob
                 PROVE  r = s
      OBVIOUS
    <3>1. CASE r = p
      BY <3>1, <2>3, <2>6
    <3>2. CASE s = p
      BY <3>2, <2>3, <2>6
    <3>3. CASE r # p /\ s # p
      BY <3>3, <2>6
    <3> QED BY <3>1, <3>2, <3>3
  <2> QED
    BY <2>5, <2>7, <2>8
<1>5. ASSUME NEW p \in Pods, ClaimNothing(p) PROVE OwnerInv'
  BY <1>5 DEF ClaimNothing
<1>6. ASSUME NEW p \in Pods, RunJob(p) PROVE OwnerInv'
  BY <1>6 DEF RunJob
<1>7. ASSUME NEW p \in Pods, NEW j \in Jobs, UpdateRead(p, j) PROVE OwnerInv'
  BY <1>7 DEF UpdateRead
<1>8. ASSUME NEW j \in Jobs, UpdateWrite(j) PROVE OwnerInv'
  BY <1>8 DEF UpdateWrite
<1>9. ASSUME NEW p \in Pods, NEW j \in Jobs, FinishWrite(p, j) PROVE OwnerInv'
  BY <1>9 DEF FinishWrite
<1>10. ASSUME NEW j \in Jobs, ReleaseLock(j) PROVE OwnerInv'
  BY <1>10 DEF ReleaseLock
<1>11. ASSUME NEW j \in Jobs, FinishDeactivate(j) PROVE OwnerInv'
  BY <1>11 DEF FinishDeactivate
<1>12. ASSUME NEW p \in Pods, NEW j \in Jobs, Leave(p, j) PROVE OwnerInv'
  BY <1>12 DEF Leave
<1>13. ASSUME NEW j \in Jobs, FinishRejected(j) PROVE OwnerInv'
  BY <1>13 DEF FinishRejected, Stages
<1>14. ASSUME NEW q \in Profiles, LockExpire(q) PROVE OwnerInv'
  BY <1>14 DEF LockExpire
<1>15. ASSUME NEW p \in Pods, NEW j \in Jobs, ReapCheck(p, j) PROVE OwnerInv'
  BY <1>15 DEF ReapCheck
<1>16. ASSUME NEW p \in Pods, ReapClaim(p) PROVE OwnerInv'
  BY <1>16 DEF ReapClaim
<1>17. ASSUME NEW p \in Pods, ReapRemove(p) PROVE OwnerInv'
  BY <1>17 DEF ReapRemove
<1>18. ASSUME NEW p \in Pods, ReapDeactivate(p) PROVE OwnerInv'
  BY <1>18 DEF ReapDeactivate
<1>19. ASSUME NEW p \in Pods, ReapRead(p) PROVE OwnerInv'
  BY <1>19 DEF ReapRead
<1>20. ASSUME NEW p \in Pods, ReapWrite(p) PROVE OwnerInv'
  BY <1>20 DEF ReapWrite
<1>21. ASSUME NEW p \in Pods, NEW S \in Selections, SweepList(p, S) PROVE OwnerInv'
  BY <1>21 DEF SweepList
<1>22. ASSUME NEW p \in Pods, NEW j \in Jobs, SweepRemove(p, j) PROVE OwnerInv'
  BY <1>22 DEF SweepRemove
<1>23. ASSUME NEW p \in Pods, SweepDeactivate(p) PROVE OwnerInv'
  BY <1>23 DEF SweepDeactivate
<1>24. ASSUME NEW p \in Pods, SweepMark(p) PROVE OwnerInv'
  BY <1>24 DEF SweepMark
<1>25. ASSUME NEW p \in Pods, SweepEnd(p) PROVE OwnerInv'
  BY <1>25 DEF SweepEnd
<1>26. ASSUME NEW p \in Pods, Kill(p) PROVE OwnerInv'
  BY <1>26 DEF Kill, MemoryLost
<1>27. ASSUME NEW p \in Pods, DrainStart(p) PROVE OwnerInv'
  BY <1>27 DEF DrainStart
<1>28. ASSUME NEW p \in Pods, DrainEnd(p) PROVE OwnerInv'
  BY <1>28 DEF DrainEnd, MemoryLost
<1>29. ASSUME NEW p \in Pods, Start(p) PROVE OwnerInv'
  BY <1>29 DEF Start
<1>30. ASSUME NEW p \in Pods, ReplyLost(p) PROVE OwnerInv'
  BY <1>30 DEF ReplyLost
<1>31. CASE UNCHANGED vars
  BY <1>31
<1> QED
  BY <1>1, <1>2, <1>3, <1>4, <1>5, <1>6, <1>7, <1>8, <1>9, <1>10, <1>11,
     <1>12, <1>13, <1>14, <1>15, <1>16, <1>17, <1>18, <1>19, <1>20, <1>21,
     <1>22, <1>23, <1>24, <1>25, <1>26, <1>27, <1>28, <1>29, <1>30, <1>31
     DEF Next, AdderStep, ClaimStep, UpdateStep, FinishStep, ReapStep, SweepProgress,
         SweepStep, PodStep

\* The lease-independent part of the invariant.
LEMMA InvStable == Spec => []Inv
<1>1. Init => Inv
  BY TypeInit, QueueInit, OwnerInit DEF Inv
<1>2. Inv /\ [Next]_vars => Inv'
  BY TypeNext, QueueNext, OwnerNext DEF Inv
<1> QED
  BY <1>1, <1>2, PTL DEF Spec

\* Every job is claimed at most once, by one pod (test-redis-store.js:96), whatever
\* dies, lapses, is reaped, cancelled or retried in between.
THEOREM JobsClaimedOnce == Spec => []ClaimedOnce
<1>1. Inv => ClaimedOnce
  <2> SUFFICES ASSUME Inv PROVE ClaimedOnce
    OBVIOUS
  <2>1. \A a, b \in DOMAIN waiting : waiting[a] = waiting[b] => a = b
    <3>1. DOMAIN waiting = 1 .. Len(waiting)
      BY LenProperties DEF Inv, TypeInv, TypeOK
    <3> QED BY <3>1 DEF Inv, QueueInv, WaitingOnce, Distinct
  <2>2. \A j \in Waiting : j \in Jobs
    BY LenProperties DEF Inv, TypeInv, TypeOK, Waiting, ToSet
  <2>3. \A j \in Waiting : jobState[j] = "queued" /\ j \notin running /\ stage[j] = "none"
    BY <2>2 DEF Inv, QueueInv, WaitingQueued, StartedLeft, LeftQueue, Waiting
  <2>4. \A j \in Waiting : ~Owned(j)
    BY JobsAssumption, <2>2 DEF Inv, TypeInv, TypeOK, QueueInv, OwnedLeft, LeftQueue, Waiting, Owned
  <2>5. ASSUME NEW p \in Pods, NEW r \in Pods, p # r
        PROVE  /\ local[p] \intersect local[r] = {}
               /\ reply[p] \notin local[r]
               /\ reply[p] # NoJob => reply[p] # reply[r]
    <3>1. NoJob \notin local[r]
      BY JobsAssumption DEF Inv, TypeInv, TypeOK
    <3> QED
      BY <2>5, <3>1 DEF Inv, OwnerInv, LocalUnique, ReplyIdle, ReplyUnique
  <2> QED BY <2>1, <2>3, <2>4, <2>5 DEF ClaimedOnce
<1> QED
  BY <1>1, InvStable, PTL

-----------------------------------------------------------------------------
(* Locks.                                                                  *)

\* Nothing is locked at the start.
LEMMA LockInit == Init => LockInv
  BY DEF Init, LockInv

\* While leases are renewed, the owner of a job keeps the lock of its profile.
LEMMA LockNext == ~LeaseMayLapse /\ TypeInv /\ QueueInv /\ OwnerInv /\ LockInv /\ [Next]_vars => LockInv'
<1> USE PodsAssumption, JobsAssumption, BoundsAssumption, StatusesAssumption
    DEF TypeInv, TypeOK, ReplyHasSlot, LocalFinite, ReapNamesJob, SweepNamesJob,
        redisVars, podVars, vars, IdleSweep, IdleReap,
        QueueInv, WaitingOnce, WaitingQueued, StartedLeft, OwnedLeft, ReapedLeft, SweptLeft,
        LeftQueue
<1> SUFFICES ASSUME ~LeaseMayLapse, TypeInv, QueueInv, OwnerInv, LockInv, [Next]_vars PROVE LockInv'
  OBVIOUS
<1> USE DEF OwnerInv, ScraperOwned, ReplyIdle, ReplyUnique, LocalUnique, LockInv, HoldsLock
<1>1. ASSUME NEW p \in Pods, NEW j \in Jobs, Submit(p, j) PROVE LockInv'
  BY <1>1 DEF Submit
<1>2. ASSUME NEW j \in Jobs, Activate(j) PROVE LockInv'
  BY <1>2 DEF Activate
<1>3. ASSUME NEW p \in Pods, ClaimTick(p) PROVE LockInv'
  BY <1>3 DEF ClaimTick
<1>4. ASSUME NEW p \in Pods, ClaimNextJob(p) PROVE LockInv'
  <2>1. PICK i \in DOMAIN waiting :
             /\ waiting' = SubSeq(waiting, i + 1, Len(waiting)) \o SubSeq(waiting, 1, i - 1)
             /\ jobState' = [jobState EXCEPT ![waiting[i]] = "running"]
             /\ reply' = [reply EXCEPT ![p] = waiting[i]]
             /\ lock' = [lock EXCEPT ![ProfileOf[waiting[i]]] = waiting[i]]
             /\ Claimable(i)
    BY <1>4 DEF ClaimNextJob
  <2>2. waiting[i] \in Jobs /\ waiting[i] \in ToSet(waiting)
    BY LenProperties DEF ToSet
  <2>3. lock[ProfileOf[waiting[i]]] = NoJob
    BY <2>1 DEF Claimable
  <2>4. \A r \in Pods : reply'[r] = IF r = p THEN waiting[i] ELSE reply[r]
    BY <2>1, <2>2
  <2>5. ASSUME NEW k \in Jobs, HoldsLock(k) \/ k = waiting[i] PROVE HoldsLock(k)'
    BY <2>1, <2>2, <2>3, <2>5
  <2>6. UNCHANGED stage
    BY <1>4 DEF ClaimNextJob
  <2>7. ASSUME NEW r \in Pods, reply'[r] # NoJob PROVE HoldsLock(reply[r])'
    <3>1. reply'[r] \in Jobs /\ (HoldsLock(reply'[r]) \/ reply'[r] = waiting[i])
      BY <2>2, <2>4, <2>7
    <3> QED BY <3>1, <2>5
  <2> QED
    BY <2>5, <2>6, <2>7
<1>5. ASSUME NEW p \in Pods, ClaimNothing(p) PROVE LockInv'
  BY <1>5 DEF ClaimNothing
<1>6. ASSUME NEW p \in Pods, RunJob(p) PROVE LockInv'
  BY <1>6 DEF RunJob
<1>7. ASSUME NEW p \in Pods, NEW j \in Jobs, UpdateRead(p, j) PROVE LockInv'
  BY <1>7 DEF UpdateRead
<1>8. ASSUME NEW j \in Jobs, UpdateWrite(j) PROVE LockInv'
  BY <1>8 DEF UpdateWrite
<1>9. ASSUME NEW p \in Pods, NEW j \in Jobs, FinishWrite(p, j) PROVE LockInv'
  BY <1>9 DEF FinishWrite
<1>10. ASSUME NEW j \in Jobs, ReleaseLock(j) PROVE LockInv'
  BY <1>10 DEF ReleaseLock
<1>11. ASSUME NEW j \in Jobs, FinishDeactivate(j) PROVE LockInv'
  BY <1>11 DEF FinishDeactivate
<1>12. ASSUME NEW p \in Pods, NEW j \in Jobs, Leave(p, j) PROVE LockInv'
  BY <1>12 DEF Leave
<1>13. ASSUME NEW j \in Jobs, FinishRejected(j) PROVE LockInv'
  BY <1>13 DEF FinishRejected, Stages
<1>14. ASSUME NEW q \in Profiles, LockExpire(q) PROVE LockInv'
  BY <1>14 DEF LockExpire, Heartbeats
<1>15. ASSUME NEW p \in Pods, NEW j \in Jobs, ReapCheck(p, j) PROVE LockInv'
  BY <1>15 DEF ReapCheck
<1>16. ASSUME NEW p \in Pods, ReapClaim(p) PROVE LockInv'
  BY <1>16 DEF ReapClaim
<1>17. ASSUME NEW p \in Pods, ReapRemove(p) PROVE LockInv'
  BY <1>17 DEF ReapRemove
<1>18. ASSUME NEW p \in Pods, ReapDeactivate(p) PROVE LockInv'
  BY <1>18 DEF ReapDeactivate
<1>19. ASSUME NEW p \in Pods, ReapRead(p) PROVE LockInv'
  BY <1>19 DEF ReapRead
<1>20. ASSUME NEW p \in Pods, ReapWrite(p) PROVE LockInv'
  BY <1>20 DEF ReapWrite
<1>21. ASSUME NEW p \in Pods, NEW S \in Selections, SweepList(p, S) PROVE LockInv'
  BY <1>21 DEF SweepList
<1>22. ASSUME NEW p \in Pods, NEW j \in Jobs, SweepRemove(p, j) PROVE LockInv'
  BY <1>22 DEF SweepRemove
<1>23. ASSUME NEW p \in Pods, SweepDeactivate(p) PROVE LockInv'
  BY <1>23 DEF SweepDeactivate
<1>24. ASSUME NEW p \in Pods, SweepMark(p) PROVE LockInv'
  BY <1>24 DEF SweepMark
<1>25. ASSUME NEW p \in Pods, SweepEnd(p) PROVE LockInv'
  BY <1>25 DEF SweepEnd
<1>26. ASSUME NEW p \in Pods, Kill(p) PROVE LockInv'
  BY <1>26 DEF Kill, MemoryLost
<1>27. ASSUME NEW p \in Pods, DrainStart(p) PROVE LockInv'
  BY <1>27 DEF DrainStart
<1>28. ASSUME NEW p \in Pods, DrainEnd(p) PROVE LockInv'
  BY <1>28 DEF DrainEnd, MemoryLost
<1>29. ASSUME NEW p \in Pods, Start(p) PROVE LockInv'
  BY <1>29 DEF Start
<1>30. ASSUME NEW p \in Pods, ReplyLost(p) PROVE LockInv'
  BY <1>30 DEF ReplyLost
<1>31. CASE UNCHANGED vars
  BY <1>31
<1> QED
  BY <1>1, <1>2, <1>3, <1>4, <1>5, <1>6, <1>7, <1>8, <1>9, <1>10, <1>11,
     <1>12, <1>13, <1>14, <1>15, <1>16, <1>17, <1>18, <1>19, <1>20, <1>21,
     <1>22, <1>23, <1>24, <1>25, <1>26, <1>27, <1>28, <1>29, <1>30, <1>31
     DEF Next, AdderStep, ClaimStep, UpdateStep, FinishStep, ReapStep, SweepProgress,
         SweepStep, PodStep

\* The lock layer of the invariant.
LEMMA LockStable == ~LeaseMayLapse => (Spec => []LockInv)
<1> SUFFICES ASSUME ~LeaseMayLapse PROVE Spec => []LockInv
  OBVIOUS
<1>1. Inv /\ LockInv /\ [Next]_vars => LockInv'
  BY LockNext DEF Inv
<1> QED
  BY LockInit, <1>1, InvStable, PTL DEF Spec

\* The job of every live scraper, and of every claim whose reply is on its way,
\* holds its profile's lock.
THEOREM LockHeld == ~LeaseMayLapse => (Spec => []ScraperHoldsLock)
<1> SUFFICES ASSUME ~LeaseMayLapse PROVE Spec => []ScraperHoldsLock
  OBVIOUS
<1>1. LockInv => ScraperHoldsLock
  BY DEF LockInv, HoldsLock, ScraperHoldsLock, Scraping
<1> QED
  BY <1>1, LockStable, PTL

\* On whatever pods, two live scrapers never share a profile
\* (test-queue-redis.js:97, "no profile ever ran 2 scrapes at once").
THEOREM OneScrapePerProfile == ~LeaseMayLapse => (Spec => []ProfileExclusive)
<1> SUFFICES ASSUME ~LeaseMayLapse PROVE Spec => []ProfileExclusive
  OBVIOUS
<1>1. LockInv => ProfileExclusive
  BY DEF LockInv, HoldsLock, ProfileExclusive, Scraping
<1> QED
  BY <1>1, LockStable, PTL

-----------------------------------------------------------------------------
(* The reaper, and the implementation of ProfileQueue.                     *)

\* A job that has left the queue and that no pod works on or is about to.
Ended(j) == LeftQueue(j) /\ stage[j] # "scraping" /\ \A r \in Pods : reply[r] # j

\* No step takes such a job up again.
LEMMA EndedForGood ==
  ASSUME TypeInv, QueueInv, [Next]_vars, NEW k \in Jobs, Ended(k)
  PROVE  Ended(k)'
<1> USE PodsAssumption, JobsAssumption, BoundsAssumption, StatusesAssumption
    DEF TypeInv, TypeOK, ReplyHasSlot, LocalFinite, ReapNamesJob, SweepNamesJob,
        redisVars, podVars, vars, IdleSweep, IdleReap
<1>0. LeftQueue(k)'
  BY LeftForGood DEF Ended
<1> HIDE DEF TypeInv
<1> SUFFICES stage'[k] # "scraping" /\ \A r \in Pods : reply'[r] # k
  BY <1>0 DEF Ended
<1> DEFINE Goal == stage'[k] # "scraping" /\ \A r \in Pods : reply'[r] # k
<1> USE DEF Ended, TypeInv
<1>1. ASSUME NEW p \in Pods, NEW j \in Jobs, Submit(p, j) PROVE Goal
  BY <1>1 DEF Submit
<1>2. ASSUME NEW j \in Jobs, Activate(j) PROVE Goal
  BY <1>2 DEF Activate
<1>3. ASSUME NEW p \in Pods, ClaimTick(p) PROVE Goal
  BY <1>3 DEF ClaimTick
<1>4. ASSUME NEW p \in Pods, ClaimNextJob(p) PROVE Goal
  <2>1. PICK i \in DOMAIN waiting : reply' = [reply EXCEPT ![p] = waiting[i]]
    BY <1>4 DEF ClaimNextJob
  <2>2. waiting[i] \in ToSet(waiting)
    BY DEF ToSet
  <2> QED
    BY <1>4, <2>1, <2>2 DEF ClaimNextJob, LeftQueue
<1>5. ASSUME NEW p \in Pods, ClaimNothing(p) PROVE Goal
  BY <1>5 DEF ClaimNothing
<1>6. ASSUME NEW p \in Pods, RunJob(p) PROVE Goal
  BY <1>6 DEF RunJob
<1>7. ASSUME NEW p \in Pods, NEW j \in Jobs, UpdateRead(p, j) PROVE Goal
  BY <1>7 DEF UpdateRead
<1>8. ASSUME NEW j \in Jobs, UpdateWrite(j) PROVE Goal
  BY <1>8 DEF UpdateWrite
<1>9. ASSUME NEW p \in Pods, NEW j \in Jobs, FinishWrite(p, j) PROVE Goal
  BY <1>9 DEF FinishWrite
<1>10. ASSUME NEW j \in Jobs, ReleaseLock(j) PROVE Goal
  BY <1>10 DEF ReleaseLock
<1>11. ASSUME NEW j \in Jobs, FinishDeactivate(j) PROVE Goal
  BY <1>11 DEF FinishDeactivate
<1>12. ASSUME NEW p \in Pods, NEW j \in Jobs, Leave(p, j) PROVE Goal
  BY <1>12 DEF Leave
<1>13. ASSUME NEW j \in Jobs, FinishRejected(j) PROVE Goal
  BY <1>13 DEF FinishRejected, Stages
<1>14. ASSUME NEW q \in Profiles, LockExpire(q) PROVE Goal
  BY <1>14 DEF LockExpire
<1>15. ASSUME NEW p \in Pods, NEW j \in Jobs, ReapCheck(p, j) PROVE Goal
  BY <1>15 DEF ReapCheck
<1>16. ASSUME NEW p \in Pods, ReapClaim(p) PROVE Goal
  BY <1>16 DEF ReapClaim
<1>17. ASSUME NEW p \in Pods, ReapRemove(p) PROVE Goal
  BY <1>17 DEF ReapRemove
<1>18. ASSUME NEW p \in Pods, ReapDeactivate(p) PROVE Goal
  BY <1>18 DEF ReapDeactivate
<1>19. ASSUME NEW p \in Pods, ReapRead(p) PROVE Goal
  BY <1>19 DEF ReapRead
<1>20. ASSUME NEW p \in Pods, ReapWrite(p) PROVE Goal
  BY <1>20 DEF ReapWrite
<1>21. ASSUME NEW p \in Pods, NEW S \in Selections, SweepList(p, S) PROVE Goal
  BY <1>21 DEF SweepList
<1>22. ASSUME NEW p \in Pods, NEW j \in Jobs, SweepRemove(p, j) PROVE Goal
  BY <1>22 DEF SweepRemove
<1>23. ASSUME NEW p \in Pods, SweepDeactivate(p) PROVE Goal
  BY <1>23 DEF SweepDeactivate
<1>24. ASSUME NEW p \in Pods, SweepMark(p) PROVE Goal
  BY <1>24 DEF SweepMark
<1>25. ASSUME NEW p \in Pods, SweepEnd(p) PROVE Goal
  BY <1>25 DEF SweepEnd
<1>26. ASSUME NEW p \in Pods, Kill(p) PROVE Goal
  BY <1>26 DEF Kill, MemoryLost
<1>27. ASSUME NEW p \in Pods, DrainStart(p) PROVE Goal
  BY <1>27 DEF DrainStart
<1>28. ASSUME NEW p \in Pods, DrainEnd(p) PROVE Goal
  BY <1>28 DEF DrainEnd, MemoryLost
<1>29. ASSUME NEW p \in Pods, Start(p) PROVE Goal
  BY <1>29 DEF Start
<1>30. ASSUME NEW p \in Pods, ReplyLost(p) PROVE Goal
  BY <1>30 DEF ReplyLost
<1>31. CASE UNCHANGED vars
  BY <1>31
<1> QED
  BY <1>1, <1>2, <1>3, <1>4, <1>5, <1>6, <1>7, <1>8, <1>9, <1>10, <1>11,
     <1>12, <1>13, <1>14, <1>15, <1>16, <1>17, <1>18, <1>19, <1>20, <1>21,
     <1>22, <1>23, <1>24, <1>25, <1>26, <1>27, <1>28, <1>29, <1>30, <1>31
     DEF Next, AdderStep, ClaimStep, UpdateStep, FinishStep, ReapStep, SweepProgress,
         SweepStep, PodStep

\* A reaper is about to delete only what it has just found orphaned.
LEMMA VerdictOrigin ==
  ASSUME TypeInv, [Next]_vars, NEW r \in Pods, reap'[r].pc = "hdel"
  PROVE  reap'[r] = reap[r] \/ \E k \in Jobs : ReapCheck(r, k)
<1> USE PodsAssumption, JobsAssumption, BoundsAssumption, StatusesAssumption
    DEF TypeInv, TypeOK, ReplyHasSlot, LocalFinite, ReapNamesJob, SweepNamesJob,
        redisVars, podVars, vars, IdleSweep, IdleReap
<1> DEFINE Goal == reap'[r] = reap[r] \/ \E k \in Jobs : ReapCheck(r, k)
<1>1. ASSUME NEW p \in Pods, NEW j \in Jobs, Submit(p, j) PROVE Goal
  BY <1>1 DEF Submit
<1>2. ASSUME NEW j \in Jobs, Activate(j) PROVE Goal
  BY <1>2 DEF Activate
<1>3. ASSUME NEW p \in Pods, ClaimTick(p) PROVE Goal
  BY <1>3 DEF ClaimTick
<1>4. ASSUME NEW p \in Pods, ClaimNextJob(p) PROVE Goal
  BY <1>4 DEF ClaimNextJob
<1>5. ASSUME NEW p \in Pods, ClaimNothing(p) PROVE Goal
  BY <1>5 DEF ClaimNothing
<1>6. ASSUME NEW p \in Pods, RunJob(p) PROVE Goal
  BY <1>6 DEF RunJob
<1>7. ASSUME NEW p \in Pods, NEW j \in Jobs, UpdateRead(p, j) PROVE Goal
  BY <1>7 DEF UpdateRead
<1>8. ASSUME NEW j \in Jobs, UpdateWrite(j) PROVE Goal
  BY <1>8 DEF UpdateWrite
<1>9. ASSUME NEW p \in Pods, NEW j \in Jobs, FinishWrite(p, j) PROVE Goal
  BY <1>9 DEF FinishWrite
<1>10. ASSUME NEW j \in Jobs, ReleaseLock(j) PROVE Goal
  BY <1>10 DEF ReleaseLock
<1>11. ASSUME NEW j \in Jobs, FinishDeactivate(j) PROVE Goal
  BY <1>11 DEF FinishDeactivate
<1>12. ASSUME NEW p \in Pods, NEW j \in Jobs, Leave(p, j) PROVE Goal
  BY <1>12 DEF Leave
<1>13. ASSUME NEW j \in Jobs, FinishRejected(j) PROVE Goal
  BY <1>13 DEF FinishRejected, Stages
<1>14. ASSUME NEW q \in Profiles, LockExpire(q) PROVE Goal
  BY <1>14 DEF LockExpire
<1>15. ASSUME NEW p \in Pods, NEW j \in Jobs, ReapCheck(p, j) PROVE Goal
  <2>1. CASE r = p
    BY <1>15, <2>1
  <2>2. CASE r # p
    BY <1>15, <2>2 DEF ReapCheck
  <2> QED BY <2>1, <2>2
<1>16. ASSUME NEW p \in Pods, ReapClaim(p) PROVE Goal
  BY <1>16 DEF ReapClaim, ReapAt
<1>17. ASSUME NEW p \in Pods, ReapRemove(p) PROVE Goal
  BY <1>17 DEF ReapRemove, ReapAt
<1>18. ASSUME NEW p \in Pods, ReapDeactivate(p) PROVE Goal
  BY <1>18 DEF ReapDeactivate, ReapAt
<1>19. ASSUME NEW p \in Pods, ReapRead(p) PROVE Goal
  BY <1>19 DEF ReapRead, ReapAt
<1>20. ASSUME NEW p \in Pods, ReapWrite(p) PROVE Goal
  BY <1>20 DEF ReapWrite
<1>21. ASSUME NEW p \in Pods, NEW S \in Selections, SweepList(p, S) PROVE Goal
  BY <1>21 DEF SweepList
<1>22. ASSUME NEW p \in Pods, NEW j \in Jobs, SweepRemove(p, j) PROVE Goal
  BY <1>22 DEF SweepRemove
<1>23. ASSUME NEW p \in Pods, SweepDeactivate(p) PROVE Goal
  BY <1>23 DEF SweepDeactivate
<1>24. ASSUME NEW p \in Pods, SweepMark(p) PROVE Goal
  BY <1>24 DEF SweepMark
<1>25. ASSUME NEW p \in Pods, SweepEnd(p) PROVE Goal
  BY <1>25 DEF SweepEnd
<1>26. ASSUME NEW p \in Pods, Kill(p) PROVE Goal
  BY <1>26 DEF Kill, MemoryLost
<1>27. ASSUME NEW p \in Pods, DrainStart(p) PROVE Goal
  BY <1>27 DEF DrainStart
<1>28. ASSUME NEW p \in Pods, DrainEnd(p) PROVE Goal
  BY <1>28 DEF DrainEnd, MemoryLost
<1>29. ASSUME NEW p \in Pods, Start(p) PROVE Goal
  BY <1>29 DEF Start
<1>30. ASSUME NEW p \in Pods, ReplyLost(p) PROVE Goal
  BY <1>30 DEF ReplyLost
<1>31. CASE UNCHANGED vars
  BY <1>31
<1> QED
  BY <1>1, <1>2, <1>3, <1>4, <1>5, <1>6, <1>7, <1>8, <1>9, <1>10, <1>11,
     <1>12, <1>13, <1>14, <1>15, <1>16, <1>17, <1>18, <1>19, <1>20, <1>21,
     <1>22, <1>23, <1>24, <1>25, <1>26, <1>27, <1>28, <1>29, <1>30, <1>31
     DEF Next, AdderStep, ClaimStep, UpdateStep, FinishStep, ReapStep, SweepProgress,
         SweepStep, PodStep

\* No reaper is at work at the start.
LEMMA ReapInit == Init => OrphanVerdictSound
  BY DEF Init, IdleReap, OrphanVerdictSound

\* Between the reaper's look at the lock and its HDEL no step brings the job back
\* to life.
LEMMA ReapNext ==
  ASSUME TypeInv, QueueInv, LockInv, OrphanVerdictSound, [Next]_vars
  PROVE  OrphanVerdictSound'
<1> USE PodsAssumption, JobsAssumption, BoundsAssumption, StatusesAssumption
    DEF TypeInv, TypeOK, ReplyHasSlot, LocalFinite, ReapNamesJob, SweepNamesJob, vars, redisVars, podVars
<1> SUFFICES ASSUME NEW r \in Pods, reap'[r].pc = "hdel"
             PROVE  stage'[reap'[r].job] # "scraping" /\ \A s \in Pods : reply'[s] # reap'[r].job
  BY DEF OrphanVerdictSound, Scraping
<1>1. CASE reap'[r] = reap[r]
  <2> DEFINE k == reap[r].job
  <2>1. k \in Jobs /\ Ended(k)
    BY <1>1 DEF OrphanVerdictSound, Scraping, Ended, QueueInv, ReapedLeft
  <2> HIDE DEF k, TypeInv
  <2>2. stage'[k] # "scraping" /\ \A s \in Pods : reply'[s] # k
    BY <2>1, EndedForGood DEF Ended
  <2> QED BY <1>1, <2>2 DEF k
<1>2. ASSUME NEW k \in Jobs, ReapCheck(r, k)
      PROVE  stage'[reap'[r].job] # "scraping" /\ \A s \in Pods : reply'[s] # reap'[r].job
  BY <1>2 DEF ReapCheck, LockInv, HoldsLock
<1> QED BY <1>1, <1>2, VerdictOrigin

\* The orphan reaper never takes a job whose scraper lives (redis-store.js:437).
THEOREM ReaperSound == ~LeaseMayLapse => (Spec => []OrphanVerdictSound)
<1> SUFFICES ASSUME ~LeaseMayLapse PROVE Spec => []OrphanVerdictSound
  OBVIOUS
<1>1. Inv /\ LockInv /\ OrphanVerdictSound /\ [Next]_vars => OrphanVerdictSound'
  BY ReapNext DEF Inv
<1> QED
  BY ReapInit, <1>1, InvStable, LockStable, PTL DEF Spec

\* The four statuses in terms of the queue's state.
LEMMA StatusValues ==
  ASSUME NEW j \in Jobs
  PROVE  /\ JobStatus[j] = "new" <=> jobState[j] = "absent"
         /\ JobStatus[j] = "queued" <=> jobState[j] # "absent" /\ j \in Waiting
         /\ JobStatus[j] = "ended" <=> Ended(j)
         /\ JobStatus[j] = "running" <=>
              LeftQueue(j) /\ (Scraping(j) \/ \E p \in Pods : reply[p] = j)
         /\ JobStatus[j] \in {"new", "queued", "running", "ended"}
  BY DEF JobStatus, Ended, LeftQueue, Waiting, Scraping

\* Every step of the queue is a step of ProfileQueue or a stutter.
LEMMA StatusStep ==
  ASSUME Inv, LockInv', Inv', [Next]_vars
  PROVE  [Abstract!Advance]_JobStatus
<1> HIDE DEF TypeInv
<1>1. Abstract!TypeOK'
  <2>1. JobStatus' = [j \in Jobs |-> JobStatus'[j]]
    BY DEF JobStatus
  <2>2. ASSUME NEW j \in Jobs PROVE JobStatus'[j] \in {"new", "queued", "running", "ended"}
    BY DEF JobStatus
  <2> QED BY <2>1, <2>2 DEF Abstract!TypeOK, Abstract!Rank
<1>2. ASSUME NEW j \in Jobs
      PROVE  Abstract!Rank[JobStatus[j]] <= Abstract!Rank[JobStatus'[j]]
  <2>1. /\ jobState[j] # "absent" => jobState'[j] # "absent"
        /\ LeftQueue(j) => LeftQueue(j)'
        /\ Ended(j) => Ended(j)'
    BY LeftForGood, EndedForGood DEF Inv
  <2>2. /\ Abstract!Rank["new"] = 0 /\ Abstract!Rank["queued"] = 1
        /\ Abstract!Rank["running"] = 2 /\ Abstract!Rank["ended"] = 3
    BY DEF Abstract!Rank
  <2>3. CASE JobStatus[j] = "new"
    BY <2>2, <2>3 DEF JobStatus
  <2>4. CASE JobStatus[j] = "queued"
    BY <2>1, <2>2, <2>4 DEF JobStatus
  <2>5. CASE JobStatus[j] = "running"
    BY <2>1, <2>2, <2>5 DEF JobStatus, LeftQueue, Waiting
  <2>6. CASE JobStatus[j] = "ended"
    BY <2>1, <2>2, <2>6 DEF JobStatus, LeftQueue, Waiting, Ended, Scraping
  <2> QED BY <2>3, <2>4, <2>5, <2>6, StatusValues
<1>3. Abstract!Exclusive'
  <2> SUFFICES ASSUME NEW j \in Jobs, NEW k \in Jobs,
                      JobStatus'[j] = "running", JobStatus'[k] = "running",
                      ProfileOf[j] = ProfileOf[k]
               PROVE  j = k
    BY DEF Abstract!Exclusive
  <2>1. ASSUME NEW i \in Jobs, JobStatus'[i] = "running" PROVE lock'[ProfileOf[i]] = i
    BY <2>1, JobsAssumption DEF JobStatus, Scraping, LockInv, HoldsLock
  <2> QED BY <2>1
<1> QED
  BY <1>1, <1>2, <1>3 DEF Abstract!Advance

\* The distributed queue implements ProfileQueue.
THEOREM Implements == ~LeaseMayLapse => (Spec => ImplementsProfileQueue)
<1> SUFFICES ASSUME ~LeaseMayLapse PROVE Spec => ImplementsProfileQueue
  OBVIOUS
<1>1. Init => Abstract!Init
  BY DEF Init, Abstract!Init, JobStatus
<1>2. Inv /\ Inv' /\ LockInv' /\ [Next]_vars => [Abstract!Advance]_JobStatus
  BY StatusStep
<1> QED
  BY <1>1, <1>2, InvStable, LockStable, PTL DEF Spec, ImplementsProfileQueue, Abstract!Spec

-----------------------------------------------------------------------------
(* The budget of a claim tick.                                             *)

\* What a pod runs and what its claim tick may still claim fit into its limit.
SlotsCounted == \A p \in Pods : Cardinality(local[p]) + slots[p] <= MaxConcurrent

\* What is to be shown of a step that concerns one pod.
LEMMA SlotsOfOne ==
  ASSUME SlotsCounted, NEW p \in Pods,
         \A r \in Pods \ {p} : local'[r] = local[r] /\ slots'[r] = slots[r],
         Cardinality(local'[p]) + slots'[p] <= MaxConcurrent
  PROVE  SlotsCounted'
<1>1. ASSUME NEW r \in Pods \ {p} PROVE Cardinality(local'[r]) + slots'[r] <= MaxConcurrent
  <2>1. local'[r] = local[r] /\ slots'[r] = slots[r]
    OBVIOUS
  <2>2. Cardinality(local[r]) + slots[r] <= MaxConcurrent
    BY DEF SlotsCounted
  <2> QED BY <2>1, <2>2
<1> QED
  BY <1>1 DEF SlotsCounted

LEMMA SlotsOfLost ==
  ASSUME TypeInv, SlotsCounted, NEW p \in Pods, MemoryLost(p)
  PROVE  SlotsCounted'
<1>1. /\ \A r \in Pods \ {p} : local'[r] = local[r] /\ slots'[r] = slots[r]
      /\ local'[p] = {} /\ slots'[p] = 0
  BY DEF MemoryLost, TypeInv, TypeOK
<1>2. Cardinality(local'[p]) + slots'[p] <= MaxConcurrent
  BY <1>1, FS_EmptySet, BoundsAssumption
<1> QED BY <1>1, <1>2, SlotsOfOne

\* No step overdraws the budget: a tick starts with what is free, and a claim that is
\* answered turns one of its slots into a scraper.
LEMMA SlotsNext == TypeInv /\ SlotsCounted /\ [Next]_vars => SlotsCounted'
<1> USE PodsAssumption, JobsAssumption, BoundsAssumption, StatusesAssumption
    DEF TypeInv, TypeOK, ReplyHasSlot, LocalFinite, ReapNamesJob, SweepNamesJob,
        redisVars, podVars, vars, IdleSweep, IdleReap
<1> USE DEF SlotsCounted
<1> SUFFICES ASSUME TypeInv, SlotsCounted, [Next]_vars PROVE SlotsCounted'
  OBVIOUS
<1>0. \A p \in Pods : Cardinality(local[p]) \in Nat /\ slots[p] \in Nat
  BY FS_CardinalityType
<1>1. ASSUME NEW p \in Pods, NEW j \in Jobs, Submit(p, j) PROVE SlotsCounted'
  BY <1>1 DEF Submit
<1>2. ASSUME NEW j \in Jobs, Activate(j) PROVE SlotsCounted'
  BY <1>2 DEF Activate
<1>3. ASSUME NEW p \in Pods, ClaimTick(p) PROVE SlotsCounted'
  <2>1. /\ \A r \in Pods \ {p} : local'[r] = local[r] /\ slots'[r] = slots[r]
        /\ local'[p] = local[p] /\ slots'[p] = MaxConcurrent - Cardinality(local[p])
    BY <1>3 DEF ClaimTick
  <2>2. Cardinality(local'[p]) + slots'[p] <= MaxConcurrent
    BY <2>1, <1>0
  <2> QED BY <2>1, <2>2, SlotsOfOne
<1>4. ASSUME NEW p \in Pods, ClaimNextJob(p) PROVE SlotsCounted'
  BY <1>4 DEF ClaimNextJob
<1>5. ASSUME NEW p \in Pods, ClaimNothing(p) PROVE SlotsCounted'
  <2>1. /\ \A r \in Pods \ {p} : local'[r] = local[r] /\ slots'[r] = slots[r]
        /\ local'[p] = local[p] /\ slots'[p] = 0
    BY <1>5 DEF ClaimNothing
  <2>2. Cardinality(local'[p]) + slots'[p] <= MaxConcurrent
    BY <2>1, <1>0
  <2> QED BY <2>1, <2>2, SlotsOfOne
<1>6. ASSUME NEW p \in Pods, RunJob(p) PROVE SlotsCounted'
  <2>1. slots[p] > 0 /\ IsFiniteSet(local[p])
    BY <1>6 DEF RunJob
  <2>2. /\ Cardinality(local[p] \union {reply[p]}) \in Nat
        /\ Cardinality(local[p] \union {reply[p]}) <= Cardinality(local[p]) + 1
    <3>1. /\ IsFiniteSet(local[p] \union {reply[p]})
          /\ Cardinality(local[p] \union {reply[p]})
               = IF reply[p] \in local[p] THEN Cardinality(local[p]) ELSE Cardinality(local[p]) + 1
      BY <2>1, FS_AddElement
    <3> QED BY <3>1, <1>0
  <2>3. /\ \A r \in Pods \ {p} : local'[r] = local[r] /\ slots'[r] = slots[r]
        /\ local'[p] = local[p] \union {reply[p]} /\ slots'[p] = slots[p] - 1
    BY <1>6 DEF RunJob
  <2>4. Cardinality(local'[p]) + slots'[p] <= MaxConcurrent
    BY <2>1, <2>2, <2>3, <1>0
  <2> QED BY <2>3, <2>4, SlotsOfOne
<1>7. ASSUME NEW p \in Pods, NEW j \in Jobs, UpdateRead(p, j) PROVE SlotsCounted'
  BY <1>7 DEF UpdateRead
<1>8. ASSUME NEW j \in Jobs, UpdateWrite(j) PROVE SlotsCounted'
  BY <1>8 DEF UpdateWrite
<1>9. ASSUME NEW p \in Pods, NEW j \in Jobs, FinishWrite(p, j) PROVE SlotsCounted'
  BY <1>9 DEF FinishWrite
<1>10. ASSUME NEW j \in Jobs, ReleaseLock(j) PROVE SlotsCounted'
  BY <1>10 DEF ReleaseLock
<1>11. ASSUME NEW j \in Jobs, FinishDeactivate(j) PROVE SlotsCounted'
  BY <1>11 DEF FinishDeactivate
<1>12. ASSUME NEW p \in Pods, NEW j \in Jobs, Leave(p, j) PROVE SlotsCounted'
  <2>1. Cardinality(local[p] \ {j}) <= Cardinality(local[p]) /\ Cardinality(local[p] \ {j}) \in Nat
    BY <1>0, FS_Subset, FS_CardinalityType
  <2>2. /\ \A r \in Pods \ {p} : local'[r] = local[r] /\ slots'[r] = slots[r]
        /\ local'[p] = local[p] \ {j} /\ slots'[p] = slots[p]
    BY <1>12 DEF Leave
  <2>3. Cardinality(local'[p]) + slots'[p] <= MaxConcurrent
    BY <2>1, <2>2, <1>0
  <2> QED BY <2>2, <2>3, SlotsOfOne
<1>13. ASSUME NEW j \in Jobs, FinishRejected(j) PROVE SlotsCounted'
  BY <1>13 DEF FinishRejected
<1>14. ASSUME NEW q \in Profiles, LockExpire(q) PROVE SlotsCounted'
  BY <1>14 DEF LockExpire
<1>15. ASSUME NEW p \in Pods, NEW j \in Jobs, ReapCheck(p, j) PROVE SlotsCounted'
  BY <1>15 DEF ReapCheck
<1>16. ASSUME NEW p \in Pods, ReapClaim(p) PROVE SlotsCounted'
  BY <1>16 DEF ReapClaim
<1>17. ASSUME NEW p \in Pods, ReapRemove(p) PROVE SlotsCounted'
  BY <1>17 DEF ReapRemove
<1>18. ASSUME NEW p \in Pods, ReapDeactivate(p) PROVE SlotsCounted'
  BY <1>18 DEF ReapDeactivate
<1>19. ASSUME NEW p \in Pods, ReapRead(p) PROVE SlotsCounted'
  BY <1>19 DEF ReapRead
<1>20. ASSUME NEW p \in Pods, ReapWrite(p) PROVE SlotsCounted'
  BY <1>20 DEF ReapWrite
<1>21. ASSUME NEW p \in Pods, NEW S \in Selections, SweepList(p, S) PROVE SlotsCounted'
  BY <1>21 DEF SweepList
<1>22. ASSUME NEW p \in Pods, NEW j \in Jobs, SweepRemove(p, j) PROVE SlotsCounted'
  BY <1>22 DEF SweepRemove
<1>23. ASSUME NEW p \in Pods, SweepDeactivate(p) PROVE SlotsCounted'
  BY <1>23 DEF SweepDeactivate
<1>24. ASSUME NEW p \in Pods, SweepMark(p) PROVE SlotsCounted'
  BY <1>24 DEF SweepMark
<1>25. ASSUME NEW p \in Pods, SweepEnd(p) PROVE SlotsCounted'
  BY <1>25 DEF SweepEnd
<1>26. ASSUME NEW p \in Pods, Kill(p) PROVE SlotsCounted'
  <2>1. MemoryLost(p)
    BY <1>26 DEF Kill
  <2> QED BY <2>1, SlotsOfLost
<1>27. ASSUME NEW p \in Pods, DrainStart(p) PROVE SlotsCounted'
  BY <1>27 DEF DrainStart
<1>28. ASSUME NEW p \in Pods, DrainEnd(p) PROVE SlotsCounted'
  <2>1. MemoryLost(p)
    BY <1>28 DEF DrainEnd
  <2> QED BY <2>1, SlotsOfLost
<1>29. ASSUME NEW p \in Pods, Start(p) PROVE SlotsCounted'
  BY <1>29 DEF Start
<1>30. ASSUME NEW p \in Pods, ReplyLost(p) PROVE SlotsCounted'
  BY <1>30 DEF ReplyLost
<1>31. CASE UNCHANGED vars
  BY <1>31
<1> QED
  BY <1>1, <1>2, <1>3, <1>4, <1>5, <1>6, <1>7, <1>8, <1>9, <1>10, <1>11,
     <1>12, <1>13, <1>14, <1>15, <1>16, <1>17, <1>18, <1>19, <1>20, <1>21,
     <1>22, <1>23, <1>24, <1>25, <1>26, <1>27, <1>28, <1>29, <1>30, <1>31
     DEF Next, AdderStep, ClaimStep, UpdateStep, FinishStep, ReapStep, SweepProgress,
         SweepStep, PodStep

\* Overlapping ticks and jobs that finish during a tick never let a pod run more than
\* MAX_CONCURRENT_SCRAPES scrapes (queue-redis.js:238), whatever fails.
THEOREM PodCapped == Spec => []PodCap
<1>1. Init => SlotsCounted
  BY FS_EmptySet, BoundsAssumption DEF Init, SlotsCounted
<1>2. TypeInv /\ SlotsCounted => PodCap
  <2> SUFFICES ASSUME TypeInv, SlotsCounted, NEW p \in Pods
               PROVE  Cardinality(local[p]) + (IF reply[p] = NoJob THEN 0 ELSE 1) <= MaxConcurrent
    BY DEF PodCap
  <2>1. Cardinality(local[p]) \in Nat /\ slots[p] \in Nat /\ (reply[p] # NoJob => slots[p] > 0)
    BY FS_CardinalityType, BoundsAssumption DEF TypeInv, TypeOK, LocalFinite, ReplyHasSlot
  <2> QED BY <2>1, BoundsAssumption DEF SlotsCounted
<1> QED
  BY TypeInit, TypeNext, SlotsNext, <1>1, <1>2, PTL DEF Spec

-----------------------------------------------------------------------------
(* The claims, the faults and the sweeps.                                  *)

\* A job that a scraper works on, or that a pod is about to hear of.
Taken(j) == stage[j] = "scraping" \/ \E p \in Pods : reply[p] = j

\* Such a job is in sn:running, and so is the job of a status update under way.
ClaimRuns == /\ \A j \in Jobs : stage[j] = "scraping" => j \in running
             /\ \A p \in Pods : reply[p] # NoJob => reply[p] \in running
UpdateKeeps == \A j \in Jobs : update[j] # NoUpdate => update[j].inRunning
RunInv == ClaimRuns /\ UpdateKeeps

\* Only the reaper and the end of a scrape take a job out of sn:running, and the reaper
\* never that of a live scraper (OrphanVerdictSound).
LEMMA RunNext ==
  ASSUME TypeInv, OwnerInv, OrphanVerdictSound, RunInv, [Next]_vars
  PROVE  RunInv'
<1> USE PodsAssumption, JobsAssumption, BoundsAssumption, StatusesAssumption
    DEF TypeInv, TypeOK, ReplyHasSlot, LocalFinite, ReapNamesJob, SweepNamesJob,
        redisVars, podVars, vars, IdleSweep, IdleReap
<1> USE DEF RunInv, ClaimRuns, UpdateKeeps
<1>1. ASSUME NEW p \in Pods, NEW j \in Jobs, Submit(p, j) PROVE RunInv'
  BY <1>1 DEF Submit
<1>2. ASSUME NEW j \in Jobs, Activate(j) PROVE RunInv'
  BY <1>2 DEF Activate
<1>3. ASSUME NEW p \in Pods, ClaimTick(p) PROVE RunInv'
  BY <1>3 DEF ClaimTick
<1>4. ASSUME NEW p \in Pods, ClaimNextJob(p) PROVE RunInv'
  <2>1. PICK i \in DOMAIN waiting :
             /\ running' = running \union {waiting[i]}
             /\ reply' = [reply EXCEPT ![p] = waiting[i]]
    BY <1>4 DEF ClaimNextJob
  <2>2. /\ waiting[i] \in running' /\ running \subseteq running'
        /\ stage' = stage /\ update' = update
        /\ \A r \in Pods : reply'[r] = waiting[i] \/ reply'[r] = reply[r]
    BY <1>4, <2>1 DEF ClaimNextJob
  <2> QED BY <2>2
<1>5. ASSUME NEW p \in Pods, ClaimNothing(p) PROVE RunInv'
  BY <1>5 DEF ClaimNothing
<1>6. ASSUME NEW p \in Pods, RunJob(p) PROVE RunInv'
  <2>1. /\ reply[p] \in Jobs /\ reply[p] \in running /\ running' = running /\ update' = update
        /\ reply' = [reply EXCEPT ![p] = NoJob]
        /\ stage' = [stage EXCEPT ![reply[p]] = "scraping"]
    BY <1>6 DEF RunJob
  <2>2. \A k \in Jobs : stage'[k] = "scraping" => k = reply[p] \/ stage[k] = "scraping"
    BY <2>1
  <2>3. \A r \in Pods : reply'[r] # NoJob => reply'[r] = reply[r]
    BY <2>1
  <2> QED BY <2>1, <2>2, <2>3
<1>7. ASSUME NEW p \in Pods, NEW j \in Jobs, UpdateRead(p, j) PROVE RunInv'
  <2>1. j \in running
    BY <1>7 DEF UpdateRead
  <2>2. /\ \A k \in Jobs \ {j} : update'[k] = update[k]
        /\ update'[j].inRunning = (j \in running)
    BY <1>7 DEF UpdateRead
  <2>3. UpdateKeeps'
    <3> SUFFICES ASSUME NEW k \in Jobs, update'[k] # NoUpdate PROVE update'[k].inRunning
      OBVIOUS
    <3>1. CASE k = j
      BY <2>1, <2>2, <3>1
    <3>2. CASE k # j
      BY <2>2, <3>2
    <3> QED BY <3>1, <3>2
  <2> QED BY <1>7, <2>3 DEF UpdateRead
<1>8. ASSUME NEW j \in Jobs, UpdateWrite(j) PROVE RunInv'
  BY <1>8 DEF UpdateWrite
<1>9. ASSUME NEW p \in Pods, NEW j \in Jobs, FinishWrite(p, j) PROVE RunInv'
  <2>1. /\ stage[j] = "scraping" /\ running' = running \ {j} /\ stage'[j] # "scraping"
        /\ UNCHANGED <<reply, update>> /\ \A k \in Jobs : k # j => stage'[k] = stage[k]
    BY <1>9 DEF FinishWrite, TypeInv, TypeOK
  <2>2. ASSUME NEW r \in Pods, reply[r] = j PROVE FALSE
    <3>1. j # NoJob
      BY JobsAssumption
    <3>2. stage[reply[r]] = "none"
      BY <2>2, <3>1 DEF OwnerInv, ReplyIdle
    <3> QED BY <2>1, <2>2, <3>2
  <2>3. ClaimRuns'
    BY <2>1, <2>2
  <2>4. UpdateKeeps'
    BY <2>1
  <2> QED BY <2>3, <2>4
<1>10. ASSUME NEW j \in Jobs, ReleaseLock(j) PROVE RunInv'
  BY <1>10 DEF ReleaseLock
<1>11. ASSUME NEW j \in Jobs, FinishDeactivate(j) PROVE RunInv'
  BY <1>11 DEF FinishDeactivate
<1>12. ASSUME NEW p \in Pods, NEW j \in Jobs, Leave(p, j) PROVE RunInv'
  BY <1>12 DEF Leave
<1>13. ASSUME NEW j \in Jobs, FinishRejected(j) PROVE RunInv'
  BY <1>13 DEF FinishRejected
<1>14. ASSUME NEW q \in Profiles, LockExpire(q) PROVE RunInv'
  BY <1>14 DEF LockExpire
<1>15. ASSUME NEW p \in Pods, NEW j \in Jobs, ReapCheck(p, j) PROVE RunInv'
  BY <1>15 DEF ReapCheck
<1>16. ASSUME NEW p \in Pods, ReapClaim(p) PROVE RunInv'
  <2>1. /\ stage[reap[p].job] # "scraping" /\ \A r \in Pods : reply[r] # reap[p].job
        /\ running' = running \ {reap[p].job}
    BY <1>16 DEF ReapClaim, OrphanVerdictSound, Scraping
  <2> QED
    BY <1>16, <2>1 DEF ReapClaim
<1>17. ASSUME NEW p \in Pods, ReapRemove(p) PROVE RunInv'
  BY <1>17 DEF ReapRemove
<1>18. ASSUME NEW p \in Pods, ReapDeactivate(p) PROVE RunInv'
  BY <1>18 DEF ReapDeactivate
<1>19. ASSUME NEW p \in Pods, ReapRead(p) PROVE RunInv'
  BY <1>19 DEF ReapRead
<1>20. ASSUME NEW p \in Pods, ReapWrite(p) PROVE RunInv'
  BY <1>20 DEF ReapWrite
<1>21. ASSUME NEW p \in Pods, NEW S \in Selections, SweepList(p, S) PROVE RunInv'
  BY <1>21 DEF SweepList
<1>22. ASSUME NEW p \in Pods, NEW j \in Jobs, SweepRemove(p, j) PROVE RunInv'
  BY <1>22 DEF SweepRemove
<1>23. ASSUME NEW p \in Pods, SweepDeactivate(p) PROVE RunInv'
  BY <1>23 DEF SweepDeactivate
<1>24. ASSUME NEW p \in Pods, SweepMark(p) PROVE RunInv'
  BY <1>24 DEF SweepMark
<1>25. ASSUME NEW p \in Pods, SweepEnd(p) PROVE RunInv'
  BY <1>25 DEF SweepEnd
<1>26. ASSUME NEW p \in Pods, Kill(p) PROVE RunInv'
  BY <1>26 DEF Kill, MemoryLost, NoUpdate
<1>27. ASSUME NEW p \in Pods, DrainStart(p) PROVE RunInv'
  BY <1>27 DEF DrainStart
<1>28. ASSUME NEW p \in Pods, DrainEnd(p) PROVE RunInv'
  BY <1>28 DEF DrainEnd, MemoryLost, NoUpdate
<1>29. ASSUME NEW p \in Pods, Start(p) PROVE RunInv'
  BY <1>29 DEF Start
<1>30. ASSUME NEW p \in Pods, ReplyLost(p) PROVE RunInv'
  BY <1>30 DEF ReplyLost
<1>31. CASE UNCHANGED vars
  BY <1>31
<1> QED
  BY <1>1, <1>2, <1>3, <1>4, <1>5, <1>6, <1>7, <1>8, <1>9, <1>10, <1>11,
     <1>12, <1>13, <1>14, <1>15, <1>16, <1>17, <1>18, <1>19, <1>20, <1>21,
     <1>22, <1>23, <1>24, <1>25, <1>26, <1>27, <1>28, <1>29, <1>30, <1>31
     DEF Next, AdderStep, ClaimStep, UpdateStep, FinishStep, ReapStep, SweepProgress,
         SweepStep, PodStep

\* While nothing has failed no pod drains, and before the first cancel sweep no pod
\* is sweeping.
NoDrain == faults = 0 => \A p \in Pods : podState[p] # "draining"
NeverSwept == sweeps = 0 => \A p \in Pods : sweep[p].pc = "idle"
BoundInv == NoDrain /\ NeverSwept

LEMMA BoundNext == TypeInv /\ BoundInv /\ [Next]_vars => BoundInv'
<1> USE PodsAssumption, JobsAssumption, BoundsAssumption, StatusesAssumption
    DEF TypeInv, TypeOK, ReplyHasSlot, LocalFinite, ReapNamesJob, SweepNamesJob,
        redisVars, podVars, vars, IdleSweep, IdleReap
<1> USE DEF BoundInv, NoDrain, NeverSwept
<1> SUFFICES ASSUME TypeInv, BoundInv, [Next]_vars PROVE BoundInv'
  OBVIOUS
<1>1. ASSUME NEW p \in Pods, NEW j \in Jobs, Submit(p, j) PROVE BoundInv'
  BY <1>1 DEF Submit
<1>2. ASSUME NEW j \in Jobs, Activate(j) PROVE BoundInv'
  BY <1>2 DEF Activate
<1>3. ASSUME NEW p \in Pods, ClaimTick(p) PROVE BoundInv'
  BY <1>3 DEF ClaimTick
<1>4. ASSUME NEW p \in Pods, ClaimNextJob(p) PROVE BoundInv'
  BY <1>4 DEF ClaimNextJob
<1>5. ASSUME NEW p \in Pods, ClaimNothing(p) PROVE BoundInv'
  BY <1>5 DEF ClaimNothing
<1>6. ASSUME NEW p \in Pods, RunJob(p) PROVE BoundInv'
  BY <1>6 DEF RunJob
<1>7. ASSUME NEW p \in Pods, NEW j \in Jobs, UpdateRead(p, j) PROVE BoundInv'
  BY <1>7 DEF UpdateRead
<1>8. ASSUME NEW j \in Jobs, UpdateWrite(j) PROVE BoundInv'
  BY <1>8 DEF UpdateWrite
<1>9. ASSUME NEW p \in Pods, NEW j \in Jobs, FinishWrite(p, j) PROVE BoundInv'
  BY <1>9 DEF FinishWrite
<1>10. ASSUME NEW j \in Jobs, ReleaseLock(j) PROVE BoundInv'
  BY <1>10 DEF ReleaseLock
<1>11. ASSUME NEW j \in Jobs, FinishDeactivate(j) PROVE BoundInv'
  BY <1>11 DEF FinishDeactivate
<1>12. ASSUME NEW p \in Pods, NEW j \in Jobs, Leave(p, j) PROVE BoundInv'
  BY <1>12 DEF Leave
<1>13. ASSUME NEW j \in Jobs, FinishRejected(j) PROVE BoundInv'
  BY <1>13 DEF FinishRejected
<1>14. ASSUME NEW q \in Profiles, LockExpire(q) PROVE BoundInv'
  BY <1>14 DEF LockExpire
<1>15. ASSUME NEW p \in Pods, NEW j \in Jobs, ReapCheck(p, j) PROVE BoundInv'
  BY <1>15 DEF ReapCheck
<1>16. ASSUME NEW p \in Pods, ReapClaim(p) PROVE BoundInv'
  BY <1>16 DEF ReapClaim
<1>17. ASSUME NEW p \in Pods, ReapRemove(p) PROVE BoundInv'
  BY <1>17 DEF ReapRemove
<1>18. ASSUME NEW p \in Pods, ReapDeactivate(p) PROVE BoundInv'
  BY <1>18 DEF ReapDeactivate
<1>19. ASSUME NEW p \in Pods, ReapRead(p) PROVE BoundInv'
  BY <1>19 DEF ReapRead
<1>20. ASSUME NEW p \in Pods, ReapWrite(p) PROVE BoundInv'
  BY <1>20 DEF ReapWrite
<1>21. ASSUME NEW p \in Pods, NEW S \in Selections, SweepList(p, S) PROVE BoundInv'
  BY <1>21 DEF SweepList
<1>22. ASSUME NEW p \in Pods, NEW j \in Jobs, SweepRemove(p, j) PROVE BoundInv'
  BY <1>22 DEF SweepRemove
<1>23. ASSUME NEW p \in Pods, SweepDeactivate(p) PROVE BoundInv'
  BY <1>23 DEF SweepDeactivate, SweepAt
<1>24. ASSUME NEW p \in Pods, SweepMark(p) PROVE BoundInv'
  BY <1>24 DEF SweepMark, SweepAt
<1>25. ASSUME NEW p \in Pods, SweepEnd(p) PROVE BoundInv'
  BY <1>25 DEF SweepEnd
<1>26. ASSUME NEW p \in Pods, Kill(p) PROVE BoundInv'
  BY <1>26 DEF Kill, MemoryLost
<1>27. ASSUME NEW p \in Pods, DrainStart(p) PROVE BoundInv'
  BY <1>27 DEF DrainStart
<1>28. ASSUME NEW p \in Pods, DrainEnd(p) PROVE BoundInv'
  BY <1>28 DEF DrainEnd, MemoryLost
<1>29. ASSUME NEW p \in Pods, Start(p) PROVE BoundInv'
  BY <1>29 DEF Start
<1>30. ASSUME NEW p \in Pods, ReplyLost(p) PROVE BoundInv'
  BY <1>30 DEF ReplyLost
<1>31. CASE UNCHANGED vars
  BY <1>31
<1> QED
  BY <1>1, <1>2, <1>3, <1>4, <1>5, <1>6, <1>7, <1>8, <1>9, <1>10, <1>11,
     <1>12, <1>13, <1>14, <1>15, <1>16, <1>17, <1>18, <1>19, <1>20, <1>21,
     <1>22, <1>23, <1>24, <1>25, <1>26, <1>27, <1>28, <1>29, <1>30, <1>31
     DEF Next, AdderStep, ClaimStep, UpdateStep, FinishStep, ReapStep, SweepProgress,
         SweepStep, PodStep

\* As long as nothing but a drain has failed, every running job is taken, no update
\* outlives its scraper, and there is nothing to reap.
Calm == faults = 0 \/ (faults = 1 /\ \E p \in Pods : podState[p] = "draining")
Orderly == /\ \A j \in running : Taken(j)
           /\ \A j \in Jobs : update[j] # NoUpdate => stage[j] = "scraping"
           /\ \A p \in Pods : reap[p].pc = "idle"
OrderlyInv == Calm => Orderly

LEMMA OrderlyNext ==
  ASSUME ~LeaseMayLapse, ~SlowReplies,
         TypeInv, OwnerInv, LockInv, RunInv, BoundInv, OrderlyInv, [Next]_vars
  PROVE  OrderlyInv'
<1> USE PodsAssumption, JobsAssumption, BoundsAssumption, StatusesAssumption
    DEF TypeInv, TypeOK, ReplyHasSlot, LocalFinite, ReapNamesJob, SweepNamesJob,
        redisVars, podVars, vars, IdleSweep, IdleReap
<1> USE DEF Calm, Orderly, Taken
<1> SUFFICES ASSUME Calm' PROVE Orderly'
  BY DEF OrderlyInv
<1>a. faults \in Nat
  OBVIOUS
<1>b. ASSUME faults' = faults, podState' = podState PROVE Orderly
  BY <1>b DEF OrderlyInv
<1>1. ASSUME NEW p \in Pods, NEW j \in Jobs, Submit(p, j) PROVE Orderly'
  BY <1>1, <1>b DEF Submit
<1>2. ASSUME NEW j \in Jobs, Activate(j) PROVE Orderly'
  BY <1>2, <1>b DEF Activate
<1>3. ASSUME NEW p \in Pods, ClaimTick(p) PROVE Orderly'
  BY <1>3, <1>b DEF ClaimTick
<1>4. ASSUME NEW p \in Pods, ClaimNextJob(p) PROVE Orderly'
  <2>1. PICK w \in Jobs : running' = running \union {w} /\ reply' = [reply EXCEPT ![p] = w]
    <3>1. \A i \in DOMAIN waiting : waiting[i] \in Jobs
      BY LenProperties
    <3> QED BY <1>4, <3>1 DEF ClaimNextJob
  <2>2. /\ faults' = faults /\ podState' = podState /\ stage' = stage /\ update' = update
        /\ reap' = reap /\ reply[p] = NoJob /\ running \subseteq Jobs
    BY <1>4 DEF ClaimNextJob
  <2>3. \A k \in Jobs : Taken(k) => Taken(k)'
    BY <2>1, <2>2
  <2>4. Taken(w)'
    BY <2>1
  <2>5. Orderly
    BY <2>2, <1>b
  <2> HIDE DEF Taken, TypeInv, TypeOK
  <2> QED BY <2>1, <2>2, <2>3, <2>4, <2>5
<1>5. ASSUME NEW p \in Pods, ClaimNothing(p) PROVE Orderly'
  BY <1>5, <1>b DEF ClaimNothing
<1>6. ASSUME NEW p \in Pods, RunJob(p) PROVE Orderly'
  <2>1. /\ reply[p] \in Jobs /\ running' = running /\ update' = update /\ reap' = reap
        /\ faults' = faults /\ podState' = podState
        /\ reply' = [reply EXCEPT ![p] = NoJob]
        /\ stage' = [stage EXCEPT ![reply[p]] = "scraping"]
    BY <1>6 DEF RunJob
  <2>2. \A k \in Jobs : stage[k] = "scraping" => stage'[k] = "scraping"
    BY <2>1
  <2>3. \A k \in Jobs : Taken(k) => Taken(k)'
    BY <2>1
  <2> HIDE DEF Taken
  <2> QED BY <2>1, <2>2, <2>3, <1>b
<1>7. ASSUME NEW p \in Pods, NEW j \in Jobs, UpdateRead(p, j) PROVE Orderly'
  BY <1>7, <1>b DEF UpdateRead
<1>8. ASSUME NEW j \in Jobs, UpdateWrite(j) PROVE Orderly'
  <2>1. Orderly /\ Taken(j)
    BY <1>8, <1>b DEF UpdateWrite
  <2>2. /\ running' \subseteq running \union {j}
        /\ \A k \in Jobs : update'[k] # NoUpdate => update[k] # NoUpdate
        /\ stage' = stage /\ reply' = reply /\ reap' = reap
    BY <1>8 DEF UpdateWrite
  <2> QED BY <2>1, <2>2
<1>9. ASSUME NEW p \in Pods, NEW j \in Jobs, FinishWrite(p, j) PROVE Orderly'
  <2>1. Orderly /\ update[j] = NoUpdate
    BY <1>9, <1>b DEF FinishWrite
  <2>2. /\ running' = running \ {j} /\ update' = update /\ reply' = reply /\ reap' = reap
        /\ \A k \in Jobs \ {j} : stage'[k] = stage[k]
    BY <1>9 DEF FinishWrite
  <2> QED BY <2>1, <2>2
<1>10. ASSUME NEW j \in Jobs, ReleaseLock(j) PROVE Orderly'
  BY <1>10, <1>b DEF ReleaseLock
<1>11. ASSUME NEW j \in Jobs, FinishDeactivate(j) PROVE Orderly'
  BY <1>11, <1>b DEF FinishDeactivate
<1>12. ASSUME NEW p \in Pods, NEW j \in Jobs, Leave(p, j) PROVE Orderly'
  BY <1>12, <1>b DEF Leave
<1>13. ASSUME NEW j \in Jobs, FinishRejected(j) PROVE Orderly'
  <2>1. faults' = faults + 1 /\ podState' = podState
    BY <1>13 DEF FinishRejected
  <2> QED BY <2>1, <1>a DEF BoundInv, NoDrain
<1>14. ASSUME NEW q \in Profiles, LockExpire(q) PROVE Orderly'
  BY <1>14, <1>b DEF LockExpire
<1>15. ASSUME NEW p \in Pods, NEW j \in Jobs, ReapCheck(p, j) PROVE Orderly'
  <2>1. Orderly /\ j \in running /\ lock[ProfileOf[j]] # j
    BY <1>15, <1>b DEF ReapCheck
  <2> QED BY <2>1 DEF LockInv, HoldsLock
<1>16. ASSUME NEW p \in Pods, ReapClaim(p) PROVE Orderly'
  BY <1>16, <1>b DEF ReapClaim
<1>17. ASSUME NEW p \in Pods, ReapRemove(p) PROVE Orderly'
  BY <1>17, <1>b DEF ReapRemove
<1>18. ASSUME NEW p \in Pods, ReapDeactivate(p) PROVE Orderly'
  BY <1>18, <1>b DEF ReapDeactivate
<1>19. ASSUME NEW p \in Pods, ReapRead(p) PROVE Orderly'
  BY <1>19, <1>b DEF ReapRead
<1>20. ASSUME NEW p \in Pods, ReapWrite(p) PROVE Orderly'
  BY <1>20, <1>b DEF ReapWrite
<1>21. ASSUME NEW p \in Pods, NEW S \in Selections, SweepList(p, S) PROVE Orderly'
  BY <1>21, <1>b DEF SweepList
<1>22. ASSUME NEW p \in Pods, NEW j \in Jobs, SweepRemove(p, j) PROVE Orderly'
  BY <1>22, <1>b DEF SweepRemove
<1>23. ASSUME NEW p \in Pods, SweepDeactivate(p) PROVE Orderly'
  BY <1>23, <1>b DEF SweepDeactivate
<1>24. ASSUME NEW p \in Pods, SweepMark(p) PROVE Orderly'
  BY <1>24, <1>b DEF SweepMark
<1>25. ASSUME NEW p \in Pods, SweepEnd(p) PROVE Orderly'
  BY <1>25, <1>b DEF SweepEnd
<1>26. ASSUME NEW p \in Pods, Kill(p) PROVE Orderly'
  <2>1. faults' = faults + 1 /\ \A r \in Pods : podState'[r] = "draining" => podState[r] = "draining"
    BY <1>26 DEF Kill, MemoryLost
  <2> QED BY <2>1, <1>a DEF BoundInv, NoDrain
<1>27. ASSUME NEW p \in Pods, DrainStart(p) PROVE Orderly'
  <2>1. faults' = faults + 1
    BY <1>27 DEF DrainStart
  <2>2. Orderly
    BY <2>1, <1>a DEF OrderlyInv
  <2> QED BY <1>27, <2>2 DEF DrainStart
<1>28. ASSUME NEW p \in Pods, DrainEnd(p) PROVE Orderly'
  <2>1. /\ faults' = faults /\ podState[p] = "draining"
        /\ local[p] = {} /\ slots[p] = 0 /\ MemoryLost(p) /\ running' = running
    BY <1>28 DEF DrainEnd
  <2>2. Orderly
    BY <2>1 DEF OrderlyInv
  <2>3. reply[p] = NoJob
    BY <2>1
  <2>4. stage' = stage /\ reply' = reply
    BY <2>1, <2>3 DEF MemoryLost
  <2>5. /\ \A k \in Jobs : update'[k] # NoUpdate => update[k] # NoUpdate
        /\ \A r \in Pods : reap[r].pc = "idle" => reap'[r].pc = "idle"
    BY <2>1 DEF MemoryLost
  <2> HIDE DEF TypeInv, TypeOK
  <2> QED BY <2>1, <2>2, <2>4, <2>5
<1>29. ASSUME NEW p \in Pods, Start(p) PROVE Orderly'
  <2>1. /\ faults' = faults /\ UNCHANGED <<running, stage, reply, update, reap>>
        /\ \A r \in Pods : podState'[r] = "draining" => podState[r] = "draining"
    BY <1>29 DEF Start
  <2>2. Orderly
    BY <2>1 DEF OrderlyInv
  <2> QED BY <2>1, <2>2
<1>30. ASSUME NEW p \in Pods, ReplyLost(p) PROVE Orderly'
  <2>1. faults' = faults + 1 /\ podState' = podState
    BY <1>30 DEF ReplyLost
  <2> QED BY <2>1, <1>a DEF BoundInv, NoDrain
<1>31. CASE UNCHANGED vars
  BY <1>31, <1>b
<1> QED
  BY <1>1, <1>2, <1>3, <1>4, <1>5, <1>6, <1>7, <1>8, <1>9, <1>10, <1>11,
     <1>12, <1>13, <1>14, <1>15, <1>16, <1>17, <1>18, <1>19, <1>20, <1>21,
     <1>22, <1>23, <1>24, <1>25, <1>26, <1>27, <1>28, <1>29, <1>30, <1>31
     DEF Next, AdderStep, ClaimStep, UpdateStep, FinishStep, ReapStep, SweepProgress,
         SweepStep, PodStep

-----------------------------------------------------------------------------
(* Every job gets an end.                                                  *)

\* A reap, or a won cancellation, that has still to write the state of a job.
InReap(j) == \E p \in Pods : reap[p].job = j /\ reap[p].pc \in {"lrem", "deactivate", "read", "write"}
InSweep(j) == \E p \in Pods : /\ sweep[p].job = j
                              /\ sweep[p].pc = "mark" \/ (sweep[p].pc = "deactivate" /\ sweep[p].won)

\* A job is over, or some structure that a pod will look at still has it.
Safe(j) == \/ jobState[j] \in FinalStates \union {"absent"}
           \/ j \in ToSet(waiting) \/ j \in running
           \/ InReap(j) \/ InSweep(j)

\* The states the reaper rewrites, and final ones: no scraper has reported another.
KeptStates == FinalStates \union {"absent", "queued", "running"}
StatesKept == \A j \in Jobs : /\ jobState[j] \in KeptStates
                              /\ update[j].state \in {"running", "done", "error"}

\* One failure, or any number of cancel sweeps.
OneTrouble == faults = 0 \/ (faults = 1 /\ sweeps = 0)
SafeInv == StatesKept /\ (OneTrouble => \A j \in Jobs : Safe(j))

LEMMA StatesNext ==
  ASSUME Statuses \subseteq {"running", "done", "error"}, TypeInv, StatesKept, [Next]_vars
  PROVE  StatesKept'
<1> USE PodsAssumption, JobsAssumption, BoundsAssumption, StatusesAssumption
    DEF TypeInv, TypeOK, ReplyHasSlot, LocalFinite, ReapNamesJob, SweepNamesJob,
        redisVars, podVars, vars, IdleSweep, IdleReap
<1> USE DEF StatesKept, KeptStates, FinalStates
<1>1. ASSUME NEW p \in Pods, NEW j \in Jobs, Submit(p, j) PROVE StatesKept'
  BY <1>1 DEF Submit
<1>2. ASSUME NEW j \in Jobs, Activate(j) PROVE StatesKept'
  BY <1>2 DEF Activate
<1>3. ASSUME NEW p \in Pods, ClaimTick(p) PROVE StatesKept'
  BY <1>3 DEF ClaimTick
<1>4. ASSUME NEW p \in Pods, ClaimNextJob(p) PROVE StatesKept'
  BY <1>4 DEF ClaimNextJob
<1>5. ASSUME NEW p \in Pods, ClaimNothing(p) PROVE StatesKept'
  BY <1>5 DEF ClaimNothing
<1>6. ASSUME NEW p \in Pods, RunJob(p) PROVE StatesKept'
  BY <1>6 DEF RunJob
<1>7. ASSUME NEW p \in Pods, NEW j \in Jobs, UpdateRead(p, j) PROVE StatesKept'
  <2>1. PICK s \in {"running", "done", "error"} :
             update' = [update EXCEPT ![j] = [pod |-> p, state |-> s, inRunning |-> j \in running]]
    BY <1>7 DEF UpdateRead
  <2>2. jobState' = jobState /\ \A k \in Jobs : update'[k].state = IF k = j THEN s ELSE update[k].state
    BY <1>7, <2>1 DEF UpdateRead
  <2> QED BY <2>2
<1>8. ASSUME NEW j \in Jobs, UpdateWrite(j) PROVE StatesKept'
  BY <1>8 DEF UpdateWrite, NoUpdate
<1>9. ASSUME NEW p \in Pods, NEW j \in Jobs, FinishWrite(p, j) PROVE StatesKept'
  BY <1>9 DEF FinishWrite
<1>10. ASSUME NEW j \in Jobs, ReleaseLock(j) PROVE StatesKept'
  BY <1>10 DEF ReleaseLock
<1>11. ASSUME NEW j \in Jobs, FinishDeactivate(j) PROVE StatesKept'
  BY <1>11 DEF FinishDeactivate
<1>12. ASSUME NEW p \in Pods, NEW j \in Jobs, Leave(p, j) PROVE StatesKept'
  BY <1>12 DEF Leave
<1>13. ASSUME NEW j \in Jobs, FinishRejected(j) PROVE StatesKept'
  BY <1>13 DEF FinishRejected
<1>14. ASSUME NEW q \in Profiles, LockExpire(q) PROVE StatesKept'
  BY <1>14 DEF LockExpire
<1>15. ASSUME NEW p \in Pods, NEW j \in Jobs, ReapCheck(p, j) PROVE StatesKept'
  BY <1>15 DEF ReapCheck
<1>16. ASSUME NEW p \in Pods, ReapClaim(p) PROVE StatesKept'
  BY <1>16 DEF ReapClaim
<1>17. ASSUME NEW p \in Pods, ReapRemove(p) PROVE StatesKept'
  BY <1>17 DEF ReapRemove
<1>18. ASSUME NEW p \in Pods, ReapDeactivate(p) PROVE StatesKept'
  BY <1>18 DEF ReapDeactivate
<1>19. ASSUME NEW p \in Pods, ReapRead(p) PROVE StatesKept'
  BY <1>19 DEF ReapRead
<1>20. ASSUME NEW p \in Pods, ReapWrite(p) PROVE StatesKept'
  BY <1>20 DEF ReapWrite
<1>21. ASSUME NEW p \in Pods, NEW S \in Selections, SweepList(p, S) PROVE StatesKept'
  BY <1>21 DEF SweepList
<1>22. ASSUME NEW p \in Pods, NEW j \in Jobs, SweepRemove(p, j) PROVE StatesKept'
  BY <1>22 DEF SweepRemove
<1>23. ASSUME NEW p \in Pods, SweepDeactivate(p) PROVE StatesKept'
  BY <1>23 DEF SweepDeactivate
<1>24. ASSUME NEW p \in Pods, SweepMark(p) PROVE StatesKept'
  BY <1>24 DEF SweepMark
<1>25. ASSUME NEW p \in Pods, SweepEnd(p) PROVE StatesKept'
  BY <1>25 DEF SweepEnd
<1>26. ASSUME NEW p \in Pods, Kill(p) PROVE StatesKept'
  BY <1>26 DEF Kill, MemoryLost, NoUpdate
<1>27. ASSUME NEW p \in Pods, DrainStart(p) PROVE StatesKept'
  BY <1>27 DEF DrainStart
<1>28. ASSUME NEW p \in Pods, DrainEnd(p) PROVE StatesKept'
  BY <1>28 DEF DrainEnd, MemoryLost, NoUpdate
<1>29. ASSUME NEW p \in Pods, Start(p) PROVE StatesKept'
  BY <1>29 DEF Start
<1>30. ASSUME NEW p \in Pods, ReplyLost(p) PROVE StatesKept'
  BY <1>30 DEF ReplyLost
<1>31. CASE UNCHANGED vars
  BY <1>31
<1> QED
  BY <1>1, <1>2, <1>3, <1>4, <1>5, <1>6, <1>7, <1>8, <1>9, <1>10, <1>11,
     <1>12, <1>13, <1>14, <1>15, <1>16, <1>17, <1>18, <1>19, <1>20, <1>21,
     <1>22, <1>23, <1>24, <1>25, <1>26, <1>27, <1>28, <1>29, <1>30, <1>31
     DEF Next, AdderStep, ClaimStep, UpdateStep, FinishStep, ReapStep, SweepProgress,
         SweepStep, PodStep

\* Only a failure that takes a reap, or a sweep, out of a pod's memory could lose a job; the
\* first failure finds no reap under way (OrderlyInv).
LEMMA SafeNext ==
  ASSUME Statuses \subseteq {"running", "done", "error"},
         TypeInv, QueueInv, RunInv, BoundInv, OrderlyInv, SafeInv, [Next]_vars
  PROVE  SafeInv'
<1> USE PodsAssumption, JobsAssumption, BoundsAssumption, StatusesAssumption
    DEF TypeInv, TypeOK, ReplyHasSlot, LocalFinite, ReapNamesJob, SweepNamesJob,
        redisVars, podVars, vars, IdleSweep, IdleReap
<1>a. StatesKept'
  BY StatesNext DEF SafeInv
<1> SUFFICES ASSUME OneTrouble', NEW k \in Jobs PROVE Safe(k)'
  BY <1>a DEF SafeInv
<1>b. faults \in Nat /\ sweeps \in Nat
  OBVIOUS
<1>c. ASSUME faults' = faults /\ (sweeps' = sweeps \/ sweeps' = sweeps + 1) PROVE Safe(k)
  BY <1>b, <1>c DEF SafeInv, OneTrouble
<1>d. ASSUME faults' = faults + 1, sweeps' = sweeps
      PROVE  Safe(k) /\ ~InReap(k) /\ ~InSweep(k)
  BY <1>b, <1>d DEF SafeInv, OneTrouble, OrderlyInv, Calm, Orderly, BoundInv, NeverSwept, InReap, InSweep
<1> USE DEF Safe, InReap, InSweep
<1> HIDE DEF TypeInv
<1>1. ASSUME NEW p \in Pods, NEW j \in Jobs, Submit(p, j) PROVE Safe(k)'
  <2>1. waiting \in Seq(Jobs) /\ Distinct(waiting) /\ j \notin ToSet(waiting)
    BY <1>1 DEF Submit, QueueInv, WaitingOnce, WaitingQueued, TypeInv
  <2>2. ToSet(waiting') = ToSet(waiting) \union {j}
    BY <1>1, <2>1, Grows DEF Submit
  <2>3. /\ jobState \in [Jobs -> JobStates] /\ jobState' = [jobState EXCEPT ![j] = "queued"]
        /\ UNCHANGED <<running, sweep, reap, faults, sweeps>>
    BY <1>1 DEF Submit, TypeInv
  <2> QED BY <2>2, <2>3, <1>c
<1>2. ASSUME NEW j \in Jobs, Activate(j) PROVE Safe(k)'
  BY <1>2, <1>c DEF Activate
<1>3. ASSUME NEW p \in Pods, ClaimTick(p) PROVE Safe(k)'
  BY <1>3, <1>c DEF ClaimTick
<1>4. ASSUME NEW p \in Pods, ClaimNextJob(p) PROVE Safe(k)'
  <2>1. PICK i \in DOMAIN waiting :
             /\ waiting' = SubSeq(waiting, i + 1, Len(waiting)) \o SubSeq(waiting, 1, i - 1)
             /\ running' = running \union {waiting[i]}
             /\ jobState' = [jobState EXCEPT ![waiting[i]] = "running"]
    BY <1>4 DEF ClaimNextJob
  <2>2. waiting \in Seq(Jobs) /\ Distinct(waiting)
    BY DEF QueueInv, WaitingOnce, TypeInv
  <2>3. ToSet(waiting') = ToSet(waiting) \ {waiting[i]}
    BY <2>1, <2>2, Shrinks
  <2>4. k # waiting[i] => jobState'[k] = jobState[k]
    BY <2>1 DEF TypeInv
  <2>5. UNCHANGED <<sweep, reap, faults, sweeps>>
    BY <1>4 DEF ClaimNextJob
  <2> QED BY <2>1, <2>3, <2>4, <2>5, <1>c
<1>5. ASSUME NEW p \in Pods, ClaimNothing(p) PROVE Safe(k)'
  BY <1>5, <1>c DEF ClaimNothing
<1>6. ASSUME NEW p \in Pods, RunJob(p) PROVE Safe(k)'
  BY <1>6, <1>c DEF RunJob
<1>7. ASSUME NEW p \in Pods, NEW j \in Jobs, UpdateRead(p, j) PROVE Safe(k)'
  BY <1>7, <1>c DEF UpdateRead
<1>8. ASSUME NEW j \in Jobs, UpdateWrite(j) PROVE Safe(k)'
  <2>1. /\ j \in running' /\ running \subseteq running'
        /\ k # j => jobState'[k] = jobState[k]
    BY <1>8 DEF UpdateWrite, RunInv, UpdateKeeps, TypeInv
  <2>2. UNCHANGED <<waiting, sweep, reap, faults, sweeps>>
    BY <1>8 DEF UpdateWrite
  <2> QED BY <2>1, <2>2, <1>c
<1>9. ASSUME NEW p \in Pods, NEW j \in Jobs, FinishWrite(p, j) PROVE Safe(k)'
  <2>1. /\ jobState'[j] \in FinalStates /\ running' = running \ {j}
        /\ k # j => jobState'[k] = jobState[k]
    BY <1>9 DEF FinishWrite, FinalStates, TypeInv
  <2>2. UNCHANGED <<waiting, sweep, reap, faults, sweeps>>
    BY <1>9 DEF FinishWrite
  <2> QED BY <2>1, <2>2, <1>c
<1>10. ASSUME NEW j \in Jobs, ReleaseLock(j) PROVE Safe(k)'
  BY <1>10, <1>c DEF ReleaseLock
<1>11. ASSUME NEW j \in Jobs, FinishDeactivate(j) PROVE Safe(k)'
  BY <1>11, <1>c DEF FinishDeactivate
<1>12. ASSUME NEW p \in Pods, NEW j \in Jobs, Leave(p, j) PROVE Safe(k)'
  BY <1>12, <1>c DEF Leave
<1>13. ASSUME NEW j \in Jobs, FinishRejected(j) PROVE Safe(k)'
  <2>1. faults' = faults + 1 /\ UNCHANGED <<jobState, waiting, running, sweep, reap, sweeps>>
    BY <1>13 DEF FinishRejected
  <2> QED BY <2>1, <1>d
<1>14. ASSUME NEW q \in Profiles, LockExpire(q) PROVE Safe(k)'
  BY <1>14, <1>c DEF LockExpire
<1>15. ASSUME NEW p \in Pods, NEW j \in Jobs, ReapCheck(p, j) PROVE Safe(k)'
  <2>1. /\ UNCHANGED <<jobState, waiting, running, sweep, faults, sweeps>> /\ reap[p] = IdleReap
        /\ \A r \in Pods \ {p} : reap'[r] = reap[r]
    BY <1>15 DEF ReapCheck, TypeInv
  <2>2. InReap(k) => InReap(k)'
    BY <2>1
  <2> QED BY <2>1, <2>2, <1>c
<1>16. ASSUME NEW p \in Pods, ReapClaim(p) PROVE Safe(k)'
  <2>1. /\ UNCHANGED <<jobState, waiting, sweep, faults, sweeps>> /\ reap[p].pc = "hdel"
        /\ running' = running \ {reap[p].job}
        /\ \A r \in Pods \ {p} : reap'[r] = reap[r]
        /\ reap[p].job \in running => reap'[p].pc = "lrem" /\ reap'[p].job = reap[p].job
    BY <1>16 DEF ReapClaim, ReapAt, TypeInv
  <2>2. InReap(k) => InReap(k)'
    BY <2>1
  <2> QED BY <2>1, <2>2, <1>c
<1>17. ASSUME NEW p \in Pods, ReapRemove(p) PROVE Safe(k)'
  <2>1. /\ UNCHANGED <<jobState, waiting, running, sweep, faults, sweeps>>
        /\ ReapAt(p, "deactivate")
    BY <1>17 DEF ReapRemove
  <2>2. InReap(k) => InReap(k)'
    BY <2>1, ReapMoves DEF TypeInv, ReapPCs
  <2> QED BY <2>1, <2>2, <1>c
<1>18. ASSUME NEW p \in Pods, ReapDeactivate(p) PROVE Safe(k)'
  <2>1. /\ UNCHANGED <<jobState, waiting, running, sweep, faults, sweeps>>
        /\ ReapAt(p, "read")
    BY <1>18 DEF ReapDeactivate
  <2>2. InReap(k) => InReap(k)'
    BY <2>1, ReapMoves DEF TypeInv, ReapPCs
  <2> QED BY <2>1, <2>2, <1>c
<1>19. ASSUME NEW p \in Pods, ReapRead(p) PROVE Safe(k)'
  <2>1. UNCHANGED <<jobState, waiting, running, sweep, faults, sweeps>>
    BY <1>19 DEF ReapRead
  <2>2. CASE ReapAt(p, "write")
    <3>1. InReap(k) => InReap(k)'
      BY <2>2, ReapMoves DEF TypeInv, ReapPCs
    <3> QED BY <2>1, <3>1, <1>c
  <2>3. CASE jobState[reap[p].job] \notin {"running", "queued"} /\ reap' = [reap EXCEPT ![p] = IdleReap]
    <3>1. \A r \in Pods \ {p} : reap'[r] = reap[r]
      BY <2>3 DEF TypeInv
    <3>2. k # reap[p].job /\ InReap(k) => InReap(k)'
      BY <3>1
    <3>3. k = reap[p].job => jobState[k] \in FinalStates \union {"absent"}
      BY <2>3 DEF SafeInv, StatesKept, KeptStates
    <3> QED BY <2>1, <3>2, <3>3, <1>c
  <2> QED BY <1>19, <2>2, <2>3 DEF ReapRead
<1>20. ASSUME NEW p \in Pods, ReapWrite(p) PROVE Safe(k)'
  <2>1. /\ UNCHANGED <<waiting, running, sweep, faults, sweeps>>
        /\ \A r \in Pods \ {p} : reap'[r] = reap[r]
        /\ reap[p].job \in Jobs /\ jobState'[reap[p].job] = "error"
        /\ k # reap[p].job => jobState'[k] = jobState[k]
    BY <1>20 DEF ReapWrite, TypeInv
  <2>2. k # reap[p].job /\ InReap(k) => InReap(k)'
    BY <2>1
  <2> QED BY <2>1, <2>2, <1>c DEF FinalStates
<1>21. ASSUME NEW p \in Pods, NEW S \in Selections, SweepList(p, S) PROVE Safe(k)'
  <2>1. /\ UNCHANGED <<jobState, waiting, running, reap, faults>> /\ sweeps' = sweeps + 1
        /\ sweep[p] = IdleSweep /\ \A r \in Pods \ {p} : sweep'[r] = sweep[r]
    BY <1>21 DEF SweepList, TypeInv
  <2>2. InSweep(k) => InSweep(k)'
    BY <2>1
  <2> QED BY <2>1, <2>2, <1>c
<1>22. ASSUME NEW p \in Pods, NEW j \in Jobs, SweepRemove(p, j) PROVE Safe(k)'
  <2>1. /\ UNCHANGED <<jobState, running, reap, faults, sweeps>> /\ sweep[p].pc = "next"
        /\ \A r \in Pods \ {p} : sweep'[r] = sweep[r]
    BY <1>22 DEF SweepRemove, TypeInv
  <2>2. InSweep(k) => InSweep(k)'
    BY <2>1
  <2>3. CASE j \in ToSet(waiting)
    <3>1. PICK i \in DOMAIN waiting : waiting[i] = j /\ waiting' = RemoveAt(waiting, i)
      BY <1>22, <2>3 DEF SweepRemove
    <3>2. waiting \in Seq(Jobs) /\ Distinct(waiting)
      BY DEF QueueInv, WaitingOnce, TypeInv
    <3>3. ToSet(waiting') = ToSet(waiting) \ {j}
      BY <3>1, <3>2, Shrinks
    <3>4. /\ sweep'[p].job = j /\ sweep'[p].won = (j \in ToSet(waiting))
          /\ sweep'[p].pc = IF j \in active THEN "deactivate"
                            ELSE IF j \in ToSet(waiting) THEN "mark" ELSE "next"
      BY <1>22 DEF SweepRemove, TypeInv
    <3>5. sweep'[p].job = j /\ sweep'[p].won /\ sweep'[p].pc \in {"deactivate", "mark"}
      BY <2>3, <3>4
    <3>6. InSweep(j)'
      BY <3>5
    <3> QED BY <2>1, <2>2, <3>3, <3>6, <1>c
  <2>4. CASE j \notin ToSet(waiting)
    <3>1. waiting' = waiting
      BY <1>22, <2>4 DEF SweepRemove
    <3> QED BY <2>1, <2>2, <3>1, <1>c
  <2> QED BY <2>3, <2>4
<1>23. ASSUME NEW p \in Pods, SweepDeactivate(p) PROVE Safe(k)'
  <2>1. UNCHANGED <<jobState, waiting, running, reap, faults, sweeps>>
    BY <1>23 DEF SweepDeactivate
  <2>2. /\ sweep[p].pc = "deactivate" /\ \A r \in Pods \ {p} : sweep'[r] = sweep[r]
        /\ sweep'[p].job = sweep[p].job /\ (sweep[p].won => sweep'[p].pc = "mark")
    BY <1>23 DEF SweepDeactivate, SweepAt, TypeInv
  <2>3. InSweep(k) => InSweep(k)'
    BY <2>2
  <2> QED BY <2>1, <2>3, <1>c
<1>24. ASSUME NEW p \in Pods, SweepMark(p) PROVE Safe(k)'
  <2>1. /\ UNCHANGED <<waiting, running, reap, faults, sweeps>>
        /\ \A r \in Pods \ {p} : sweep'[r] = sweep[r]
        /\ sweep[p].job \in Jobs /\ jobState'[sweep[p].job] = "cancelled"
        /\ k # sweep[p].job => jobState'[k] = jobState[k]
    BY <1>24 DEF SweepMark, SweepAt, TypeInv
  <2>2. k # sweep[p].job /\ InSweep(k) => InSweep(k)'
    BY <2>1
  <2> QED BY <2>1, <2>2, <1>c DEF FinalStates
<1>25. ASSUME NEW p \in Pods, SweepEnd(p) PROVE Safe(k)'
  <2>1. /\ UNCHANGED <<jobState, waiting, running, reap, faults, sweeps>> /\ sweep[p].pc = "next"
        /\ \A r \in Pods \ {p} : sweep'[r] = sweep[r]
    BY <1>25 DEF SweepEnd, TypeInv
  <2>2. InSweep(k) => InSweep(k)'
    BY <2>1
  <2> QED BY <2>1, <2>2, <1>c
<1>26. ASSUME NEW p \in Pods, Kill(p) PROVE Safe(k)'
  <2>1. faults' = faults + 1 /\ UNCHANGED <<jobState, waiting, running, sweeps>>
    BY <1>26 DEF Kill
  <2> QED BY <2>1, <1>d
<1>27. ASSUME NEW p \in Pods, DrainStart(p) PROVE Safe(k)'
  <2>1. faults' = faults + 1 /\ UNCHANGED <<jobState, waiting, running, sweep, reap, sweeps>>
    BY <1>27 DEF DrainStart
  <2> QED BY <2>1, <1>d
<1>28. ASSUME NEW p \in Pods, DrainEnd(p) PROVE Safe(k)'
  <2>1. UNCHANGED <<jobState, waiting, running, faults, sweeps>> /\ podState[p] = "draining"
    BY <1>28 DEF DrainEnd
  <2>2. faults = 1 /\ sweeps = 0
    BY <2>1 DEF OneTrouble, BoundInv, NoDrain
  <2>3. Safe(k) /\ ~InReap(k) /\ ~InSweep(k)
    BY <2>1, <2>2, <1>c DEF OrderlyInv, Calm, Orderly, BoundInv, NeverSwept
  <2> QED BY <2>1, <2>3
<1>29. ASSUME NEW p \in Pods, Start(p) PROVE Safe(k)'
  BY <1>29, <1>c DEF Start
<1>30. ASSUME NEW p \in Pods, ReplyLost(p) PROVE Safe(k)'
  <2>1. faults' = faults + 1 /\ UNCHANGED <<jobState, waiting, running, sweep, reap, sweeps>>
    BY <1>30 DEF ReplyLost
  <2> QED BY <2>1, <1>d
<1>31. CASE UNCHANGED vars
  BY <1>31, <1>c
<1> QED
  BY <1>1, <1>2, <1>3, <1>4, <1>5, <1>6, <1>7, <1>8, <1>9, <1>10, <1>11,
     <1>12, <1>13, <1>14, <1>15, <1>16, <1>17, <1>18, <1>19, <1>20, <1>21,
     <1>22, <1>23, <1>24, <1>25, <1>26, <1>27, <1>28, <1>29, <1>30, <1>31
     DEF Next, AdderStep, ClaimStep, UpdateStep, FinishStep, ReapStep, SweepProgress,
         SweepStep, PodStep

\* The layers together, from the start on.
LEMMA RunStable == ~LeaseMayLapse => (Spec => []RunInv)
<1> SUFFICES ASSUME ~LeaseMayLapse PROVE Spec => []RunInv
  OBVIOUS
<1>1. Init => RunInv
  BY DEF Init, RunInv, ClaimRuns, UpdateKeeps
<1>2. Inv /\ OrphanVerdictSound /\ RunInv /\ [Next]_vars => RunInv'
  BY RunNext DEF Inv
<1>3. Spec => []OrphanVerdictSound
  BY ReaperSound
<1> QED
  BY <1>1, <1>2, <1>3, InvStable, PTL DEF Spec

LEMMA BoundStable == Spec => []BoundInv
<1>1. Init => BoundInv
  BY DEF Init, BoundInv, NoDrain, NeverSwept, IdleSweep
<1>2. Inv /\ BoundInv /\ [Next]_vars => BoundInv'
  BY BoundNext DEF Inv
<1> QED
  BY <1>1, <1>2, InvStable, PTL DEF Spec

LEMMA OrderlyStable == ~LeaseMayLapse /\ ~SlowReplies => (Spec => []OrderlyInv)
<1> SUFFICES ASSUME ~LeaseMayLapse, ~SlowReplies PROVE Spec => []OrderlyInv
  OBVIOUS
<1>1. Init => OrderlyInv
  BY DEF Init, OrderlyInv, Orderly, IdleReap
<1>2. Inv /\ LockInv /\ RunInv /\ BoundInv /\ OrderlyInv /\ [Next]_vars => OrderlyInv'
  BY OrderlyNext DEF Inv
<1>3. Spec => [](LockInv /\ RunInv /\ BoundInv)
  BY LockStable, RunStable, BoundStable, PTL
<1> QED
  BY <1>1, <1>2, <1>3, InvStable, PTL DEF Spec

\* redis-store.js:426, "only ONE reaper wins and finalizes the job": a job that has left the
\* queue and that nobody works on is in a final state.  So it is through one failure of any
\* kind, or through any number of cancel sweeps without one.  It takes that no lease lapses,
\* that a Redis reply is not slower than a scrape, and that no scraper reports a state that
\* the reaper leaves as it is (redis-store.js:449 rewrites only "running" and "queued").
THEOREM ReapsFinish ==
  ~LeaseMayLapse /\ ~SlowReplies /\ Statuses \subseteq {"running", "done", "error"}
    => (Spec => [](OneTrouble => ReapedIsFinal))
<1> SUFFICES ASSUME ~LeaseMayLapse, ~SlowReplies, Statuses \subseteq {"running", "done", "error"}
             PROVE  Spec => [](OneTrouble => ReapedIsFinal)
  OBVIOUS
<1>1. Init => SafeInv
  BY DEF Init, SafeInv, StatesKept, KeptStates, Safe, NoUpdate
<1>2. Inv /\ RunInv /\ BoundInv /\ OrderlyInv /\ SafeInv /\ [Next]_vars => SafeInv'
  BY SafeNext DEF Inv
<1>3. Spec => [](RunInv /\ BoundInv /\ OrderlyInv)
  BY RunStable, BoundStable, OrderlyStable, PTL
<1>4. SafeInv => (OneTrouble => ReapedIsFinal)
  BY DEF SafeInv, ReapedIsFinal, Settled, Safe, InReap, InSweep, Waiting
<1> QED
  BY <1>1, <1>2, <1>3, <1>4, InvStable, PTL DEF Spec

-----------------------------------------------------------------------------
(* The account counters that KEDA scales on.                               *)

\* Nothing has failed and nothing has been cancelled.
Undisturbed == faults = 0 /\ sweeps = 0

\* The jobs of an account that its counter stands for: activated, or still to be
\* deactivated by the end of their scrape.
Closing == {j \in Jobs : stage[j] \in {"release", "deactivate"}}
Counted(q) == {j \in Jobs : ProfileOf[j] = q
                            /\ ((j \in active /\ adding[j] = NoPod) \/ j \in Closing)}

\* A job is activated before its scrape ends, and leaves sn:active when it does.
ActiveInv ==
  /\ \A j \in Jobs : adding[j] # NoPod => j \in active /\ stage[j] \in {"none", "scraping"}
  /\ \A j \in Jobs : stage[j] \notin {"none", "scraping"} => j \notin active
  /\ \A j \in active : jobState[j] # "absent"
FewActive == IsFiniteSet(active) /\ IsFiniteSet(Closing)
CountInv == \A q \in Profiles : /\ acct[q] = Cardinality(Counted(q))
                                /\ scale[q] = IF acct[q] > 0 THEN 1 ELSE 0
AcctInv == Undisturbed => ActiveInv /\ FewActive /\ CountInv

\* The sets counted are finite.
LEMMA CountedFinite ==
  ASSUME FewActive, NEW q
  PROVE  IsFiniteSet(Counted(q)) /\ Cardinality(Counted(q)) \in Nat
<1>1. IsFiniteSet(active \union Closing)
  BY FS_Union DEF FewActive
<1>2. Counted(q) \subseteq active \union Closing
  BY DEF Counted
<1> QED
  BY <1>1, <1>2, FS_Subset, FS_CardinalityType

\* One more, and one less.
LEMMA CountUp ==
  ASSUME TypeInv, FewActive, CountInv, NEW j \in Jobs, j \notin Counted(ProfileOf[j]),
         \A q \in Profiles : Counted(q)' = IF q = ProfileOf[j] THEN Counted(q) \union {j}
                                                               ELSE Counted(q),
         AcctActivate(ProfileOf[j])
  PROVE  CountInv'
<1> DEFINE p == ProfileOf[j]
<1>1. p \in Profiles
  BY JobsAssumption
<1>2. /\ \A q \in Profiles \ {p} : acct'[q] = acct[q] /\ scale'[q] = scale[q]
      /\ acct'[p] = acct[p] + 1
      /\ scale'[p] = IF acct[p] = 0 THEN scale[p] + 1 ELSE scale[p]
  BY <1>1 DEF AcctActivate, TypeInv, TypeOK
<1>3. Cardinality(Counted(p)') = Cardinality(Counted(p)) + 1
  <2>1. Counted(p)' = Counted(p) \union {j}
    BY <1>1
  <2> HIDE DEF p
  <2> QED BY <2>1, CountedFinite, FS_AddElement DEF p
<1>4. /\ acct[p] = Cardinality(Counted(p)) /\ Cardinality(Counted(p)) \in Nat
      /\ scale[p] = IF acct[p] > 0 THEN 1 ELSE 0
  BY <1>1, CountedFinite DEF CountInv
<1> HIDE DEF p
<1>5. acct'[p] = Cardinality(Counted(p)') /\ scale'[p] = IF acct'[p] > 0 THEN 1 ELSE 0
  BY <1>2, <1>3, <1>4
<1>6. ASSUME NEW q \in Profiles \ {p}
      PROVE  acct'[q] = Cardinality(Counted(q)') /\ scale'[q] = IF acct'[q] > 0 THEN 1 ELSE 0
  <2>1. Counted(q)' = Counted(q)
    BY DEF p
  <2>2. acct[q] = Cardinality(Counted(q)) /\ scale[q] = IF acct[q] > 0 THEN 1 ELSE 0
    BY DEF CountInv
  <2> QED BY <2>1, <2>2, <1>2
<1>7. ASSUME NEW q \in Profiles
      PROVE  acct'[q] = Cardinality(Counted(q)') /\ scale'[q] = IF acct'[q] > 0 THEN 1 ELSE 0
  BY <1>5, <1>6
<1> QED
  BY <1>7 DEF CountInv

LEMMA CountDown ==
  ASSUME TypeInv, FewActive, CountInv, NEW j \in Jobs, j \in Counted(ProfileOf[j]),
         \A q \in Profiles : Counted(q)' = IF q = ProfileOf[j] THEN Counted(q) \ {j}
                                                               ELSE Counted(q),
         AcctDeactivate(ProfileOf[j])
  PROVE  CountInv'
<1> DEFINE p == ProfileOf[j]
<1>1. p \in Profiles
  BY JobsAssumption
<1>2. /\ \A q \in Profiles \ {p} : acct'[q] = acct[q] /\ scale'[q] = scale[q]
      /\ acct'[p] = IF acct[p] <= 1 THEN 0 ELSE acct[p] - 1
      /\ scale'[p] = IF acct[p] <= 1 THEN 0 ELSE scale[p]
  BY <1>1 DEF AcctDeactivate, TypeInv, TypeOK
<1>3. /\ IsFiniteSet(Counted(p)) /\ Cardinality(Counted(p)) \in Nat
      /\ IsFiniteSet(Counted(p)') /\ Cardinality(Counted(p)') \in Nat
      /\ Cardinality(Counted(p)') = Cardinality(Counted(p)) - 1
  <2>1. Counted(p)' = Counted(p) \ {j} /\ j \in Counted(p)
    BY <1>1
  <2> HIDE DEF p
  <2>2. IsFiniteSet(Counted(p)) /\ Cardinality(Counted(p)) \in Nat
    BY CountedFinite
  <2> QED BY <2>1, <2>2, FS_RemoveElement, FS_CardinalityType
<1>4. acct[p] = Cardinality(Counted(p)) /\ scale[p] = IF acct[p] > 0 THEN 1 ELSE 0
  BY <1>1 DEF CountInv
<1> HIDE DEF p
<1>5. acct'[p] = Cardinality(Counted(p)') /\ scale'[p] = IF acct'[p] > 0 THEN 1 ELSE 0
  BY <1>2, <1>3, <1>4
<1>6. ASSUME NEW q \in Profiles \ {p}
      PROVE  acct'[q] = Cardinality(Counted(q)') /\ scale'[q] = IF acct'[q] > 0 THEN 1 ELSE 0
  <2>1. Counted(q)' = Counted(q)
    BY DEF p
  <2>2. acct[q] = Cardinality(Counted(q)) /\ scale[q] = IF acct[q] > 0 THEN 1 ELSE 0
    BY DEF CountInv
  <2> QED BY <2>1, <2>2, <1>2
<1>7. ASSUME NEW q \in Profiles
      PROVE  acct'[q] = Cardinality(Counted(q)') /\ scale'[q] = IF acct'[q] > 0 THEN 1 ELSE 0
  BY <1>5, <1>6
<1> QED
  BY <1>7 DEF CountInv

\* And a step that counts no job in or out.
LEMMA CountKept ==
  ASSUME CountInv, \A q \in Profiles : Counted(q)' = Counted(q), UNCHANGED <<acct, scale>>
  PROVE  CountInv'
<1>1. ASSUME NEW q \in Profiles
      PROVE  acct'[q] = Cardinality(Counted(q)') /\ scale'[q] = IF acct'[q] > 0 THEN 1 ELSE 0
  <2>1. Counted(q)' = Counted(q)
    OBVIOUS
  <2>2. acct[q] = Cardinality(Counted(q)) /\ scale[q] = IF acct[q] > 0 THEN 1 ELSE 0
    BY DEF CountInv
  <2> QED BY <2>1, <2>2
<1> QED
  BY <1>1 DEF CountInv

\* Every step that activates or deactivates an account counts one job in or out.
LEMMA AcctNext ==
  ASSUME ~LeaseMayLapse, ~SlowReplies,
         TypeInv, QueueInv, OwnerInv, BoundInv, OrderlyInv, AcctInv, [Next]_vars
  PROVE  AcctInv'
<1> USE PodsAssumption, JobsAssumption, BoundsAssumption, StatusesAssumption
    DEF redisVars, podVars, vars
<1> DEFINE Goal == ActiveInv' /\ FewActive' /\ CountInv'
<1> SUFFICES ASSUME Undisturbed' PROVE Goal
  BY DEF AcctInv
<1>a. faults \in Nat /\ sweeps \in Nat
  BY DEF TypeInv, TypeOK
<1>b. ASSUME faults' = faults, sweeps' = sweeps
      PROVE  /\ ActiveInv /\ FewActive /\ CountInv /\ Orderly /\ faults = 0
             /\ \A p \in Pods : sweep[p].pc = "idle"
  BY <1>b DEF AcctInv, Undisturbed, OrderlyInv, Calm, BoundInv, NeverSwept
<1>c. ASSUME UNCHANGED <<active, acct, scale, stage, adding, faults, sweeps>>,
             \A k \in Jobs : jobState'[k] = "absent" => jobState[k] = "absent"
      PROVE  Goal
  <2>1. Closing' = Closing /\ (\A q \in Profiles : Counted(q)' = Counted(q))
    BY <1>c DEF Closing, Counted
  <2>2. CountInv'
    BY <1>b, <1>c, <2>1, CountKept
  <2>3. active \subseteq Jobs
    BY DEF TypeInv, TypeOK
  <2> QED BY <1>b, <1>c, <2>1, <2>2, <2>3 DEF ActiveInv, FewActive
<1> HIDE DEF Goal
<1>1. ASSUME NEW p \in Pods, NEW j \in Jobs, Submit(p, j) PROVE Goal
  <2>1. /\ UNCHANGED <<acct, scale, stage, faults, sweeps>>
        /\ active' = active \union {j} /\ jobState[j] = "absent"
        /\ jobState' = [jobState EXCEPT ![j] = "queued"]
        /\ adding' = [adding EXCEPT ![j] = p]
    BY <1>1 DEF Submit
  <2>2. ActiveInv /\ FewActive /\ CountInv
    BY <2>1, <1>b
  <2>3. stage[j] = "none"
    BY <2>1 DEF QueueInv, StartedLeft, LeftQueue
  <2>4. /\ \A k \in Jobs \ {j} : adding'[k] = adding[k] /\ jobState'[k] = jobState[k]
        /\ adding'[j] = p /\ jobState'[j] = "queued"
    BY <2>1 DEF TypeInv, TypeOK
  <2>5. ActiveInv'
    BY <2>1, <2>2, <2>3, <2>4 DEF ActiveInv, TypeInv, TypeOK
  <2>6. Closing' = Closing
    BY <2>1 DEF Closing
  <2>7. FewActive'
    BY <2>1, <2>2, <2>6, FS_AddElement DEF FewActive
  <2>8. \A q \in Profiles : Counted(q)' = Counted(q)
    BY <2>1, <2>2, <2>4, <2>6 DEF Counted, ActiveInv
  <2>9. CountInv'
    BY <2>1, <2>2, <2>8, CountKept
  <2> QED BY <2>5, <2>7, <2>9 DEF Goal
<1>2. ASSUME NEW j \in Jobs, Activate(j) PROVE Goal
  <2>1. /\ UNCHANGED <<jobState, active, stage, faults, sweeps>>
        /\ adding[j] # NoPod /\ AcctActivate(ProfileOf[j])
        /\ adding' = [adding EXCEPT ![j] = NoPod]
    BY <1>2 DEF Activate
  <2>2. ActiveInv /\ FewActive /\ CountInv
    BY <2>1, <1>b
  <2>3. /\ \A k \in Jobs \ {j} : adding'[k] = adding[k]
        /\ adding'[j] = NoPod /\ j \in active /\ stage[j] \in {"none", "scraping"}
    BY <2>1, <2>2 DEF ActiveInv, TypeInv, TypeOK
  <2>4. Closing' = Closing /\ j \notin Closing
    BY <2>1, <2>3 DEF Closing
  <2>5. ActiveInv' /\ FewActive'
    BY <2>1, <2>2, <2>3, <2>4 DEF ActiveInv, FewActive
  <2>6. \A q \in Profiles : Counted(q)' = IF q = ProfileOf[j] THEN Counted(q) \union {j}
                                                               ELSE Counted(q)
    BY <2>1, <2>3, <2>4 DEF Counted
  <2>7. j \notin Counted(ProfileOf[j])
    BY <2>1, <2>4 DEF Counted
  <2>8. CountInv'
    BY <2>1, <2>2, <2>6, <2>7, CountUp
  <2> QED BY <2>5, <2>8 DEF Goal
<1>3. ASSUME NEW p \in Pods, ClaimTick(p) PROVE Goal
  BY <1>3, <1>c DEF ClaimTick
<1>4. ASSUME NEW p \in Pods, ClaimNextJob(p) PROVE Goal
  <2>1. UNCHANGED <<active, acct, scale, stage, adding, faults, sweeps>>
    BY <1>4 DEF ClaimNextJob
  <2>2. \A k \in Jobs : jobState'[k] = jobState[k] \/ jobState'[k] = "running"
    BY <1>4 DEF ClaimNextJob, TypeInv, TypeOK
  <2> QED BY <2>1, <2>2, <1>c
<1>5. ASSUME NEW p \in Pods, ClaimNothing(p) PROVE Goal
  BY <1>5, <1>c DEF ClaimNothing
<1>6. ASSUME NEW p \in Pods, RunJob(p) PROVE Goal
  <2>1. /\ UNCHANGED <<jobState, active, acct, scale, adding, faults, sweeps>>
        /\ stage[reply[p]] = "none" /\ stage' = [stage EXCEPT ![reply[p]] = "scraping"]
    BY <1>6 DEF RunJob, OwnerInv, ReplyIdle
  <2>2. ActiveInv /\ FewActive /\ CountInv
    BY <2>1, <1>b
  <2>3. \A k \in Jobs : \/ stage'[k] = stage[k]
                        \/ stage[k] = "none" /\ stage'[k] = "scraping"
    BY <2>1 DEF TypeInv, TypeOK
  <2>4. Closing' = Closing
    BY <2>3 DEF Closing
  <2>5. ActiveInv' /\ FewActive'
    BY <2>1, <2>2, <2>3, <2>4 DEF ActiveInv, FewActive
  <2>6. \A q \in Profiles : Counted(q)' = Counted(q)
    BY <2>1, <2>4 DEF Counted
  <2>7. CountInv'
    BY <2>1, <2>2, <2>6, CountKept
  <2> QED BY <2>5, <2>7 DEF Goal
<1>7. ASSUME NEW p \in Pods, NEW j \in Jobs, UpdateRead(p, j) PROVE Goal
  BY <1>7, <1>c DEF UpdateRead
<1>8. ASSUME NEW j \in Jobs, UpdateWrite(j) PROVE Goal
  <2>1. UNCHANGED <<active, acct, scale, stage, adding, faults, sweeps>>
    BY <1>8 DEF UpdateWrite
  <2>2. \A k \in Jobs : jobState'[k] = jobState[k] \/ jobState'[k] # "absent"
    BY <1>8 DEF UpdateWrite, TypeInv, TypeOK, ScraperStates
  <2> QED BY <2>1, <2>2, <1>c
<1>9. ASSUME NEW p \in Pods, NEW j \in Jobs, FinishWrite(p, j) PROVE Goal
  <2>1. /\ UNCHANGED <<acct, scale, adding, faults, sweeps>>
        /\ active' = active \ {j} /\ stage[j] = "scraping" /\ adding[j] = NoPod
        /\ stage' = [stage EXCEPT ![j] = IF j \in active THEN "release" ELSE "unlock"]
    BY <1>9 DEF FinishWrite
  <2>2. ActiveInv /\ FewActive /\ CountInv
    BY <2>1, <1>b
  <2>3. /\ \A k \in Jobs \ {j} : stage'[k] = stage[k]
        /\ stage'[j] = IF j \in active THEN "release" ELSE "unlock"
        /\ \A k \in Jobs : jobState'[k] = "absent" => jobState[k] = "absent"
    BY <1>9, <2>1 DEF FinishWrite, TypeInv, TypeOK
  <2>4. Closing' = IF j \in active THEN Closing \union {j} ELSE Closing
    BY <2>1, <2>3 DEF Closing
  <2>5. ActiveInv'
    BY <2>1, <2>2, <2>3 DEF ActiveInv, TypeInv, TypeOK
  <2>6. FewActive'
    <3>1. IsFiniteSet(active') /\ IsFiniteSet(Closing \union {j})
      BY <2>1, <2>2, FS_RemoveElement, FS_AddElement DEF FewActive
    <3> QED BY <3>1, <2>2, <2>4 DEF FewActive
  <2>7. \A q \in Profiles : Counted(q)' = Counted(q)
    <3>1. j \notin Closing
      BY <2>1 DEF Closing
    <3>2. \A k \in Jobs : ((k \in active' /\ adding'[k] = NoPod) \/ k \in Closing')
                            <=> ((k \in active /\ adding[k] = NoPod) \/ k \in Closing)
      BY <2>1, <2>4, <3>1
    <3> QED BY <3>2 DEF Counted
  <2>8. CountInv'
    BY <2>1, <2>2, <2>7, CountKept
  <2> QED BY <2>5, <2>6, <2>8 DEF Goal
<1>10. ASSUME NEW j \in Jobs, ReleaseLock(j) PROVE Goal
  <2>1. /\ UNCHANGED <<jobState, active, acct, scale, adding, faults, sweeps>>
        /\ stage[j] \in {"release", "unlock"}
        /\ stage' = [stage EXCEPT ![j] = IF stage[j] = "release" THEN "deactivate" ELSE "leave"]
    BY <1>10 DEF ReleaseLock
  <2>2. ActiveInv /\ FewActive /\ CountInv
    BY <2>1, <1>b
  <2>3. /\ \A k \in Jobs \ {j} : stage'[k] = stage[k]
        /\ stage'[j] = IF stage[j] = "release" THEN "deactivate" ELSE "leave"
    BY <2>1 DEF TypeInv, TypeOK
  <2>4. Closing' = Closing
    BY <2>1, <2>3 DEF Closing
  <2>5. ActiveInv' /\ FewActive'
    BY <2>1, <2>2, <2>3, <2>4 DEF ActiveInv, FewActive
  <2>6. \A q \in Profiles : Counted(q)' = Counted(q)
    BY <2>1, <2>4 DEF Counted
  <2>7. CountInv'
    BY <2>1, <2>2, <2>6, CountKept
  <2> QED BY <2>5, <2>7 DEF Goal
<1>11. ASSUME NEW j \in Jobs, FinishDeactivate(j) PROVE Goal
  <2>1. /\ UNCHANGED <<jobState, active, adding, faults, sweeps>>
        /\ stage[j] = "deactivate" /\ stage' = [stage EXCEPT ![j] = "leave"]
        /\ AcctDeactivate(ProfileOf[j])
    BY <1>11 DEF FinishDeactivate
  <2>2. ActiveInv /\ FewActive /\ CountInv
    BY <2>1, <1>b
  <2>3. (\A k \in Jobs \ {j} : stage'[k] = stage[k]) /\ stage'[j] = "leave" /\ j \notin active
    BY <2>1, <2>2 DEF ActiveInv, TypeInv, TypeOK
  <2>4. Closing' = Closing \ {j} /\ j \in Closing
    BY <2>1, <2>3 DEF Closing
  <2>5. ActiveInv' /\ FewActive'
    BY <2>1, <2>2, <2>3, <2>4, FS_RemoveElement DEF ActiveInv, FewActive
  <2>6. \A q \in Profiles : Counted(q)' = IF q = ProfileOf[j] THEN Counted(q) \ {j}
                                                               ELSE Counted(q)
    BY <2>1, <2>3, <2>4 DEF Counted
  <2>7. j \in Counted(ProfileOf[j])
    BY <2>4 DEF Counted
  <2>8. CountInv'
    BY <2>1, <2>2, <2>6, <2>7, CountDown
  <2> QED BY <2>5, <2>8 DEF Goal
<1>12. ASSUME NEW p \in Pods, NEW j \in Jobs, Leave(p, j) PROVE Goal
  <2>1. /\ UNCHANGED <<jobState, active, acct, scale, adding, faults, sweeps>>
        /\ stage[j] = "leave" /\ stage' = [stage EXCEPT ![j] = "none"]
    BY <1>12 DEF Leave
  <2>2. ActiveInv /\ FewActive /\ CountInv
    BY <2>1, <1>b
  <2>3. (\A k \in Jobs \ {j} : stage'[k] = stage[k]) /\ stage'[j] = "none"
    BY <2>1 DEF TypeInv, TypeOK
  <2>4. Closing' = Closing
    BY <2>1, <2>3 DEF Closing
  <2>5. ActiveInv' /\ FewActive'
    BY <2>1, <2>2, <2>3, <2>4 DEF ActiveInv, FewActive
  <2>6. \A q \in Profiles : Counted(q)' = Counted(q)
    BY <2>1, <2>4 DEF Counted
  <2>7. CountInv'
    BY <2>1, <2>2, <2>6, CountKept
  <2> QED BY <2>5, <2>7 DEF Goal
<1>13. ASSUME NEW j \in Jobs, FinishRejected(j) PROVE Goal
  <2>1. faults' = faults + 1
    BY <1>13 DEF FinishRejected
  <2> QED BY <2>1, <1>a DEF Undisturbed
<1>14. ASSUME NEW q \in Profiles, LockExpire(q) PROVE Goal
  BY <1>14, <1>c DEF LockExpire
<1>15. ASSUME NEW p \in Pods, NEW j \in Jobs, ReapCheck(p, j) PROVE Goal
  BY <1>15, <1>c DEF ReapCheck
<1>16. ASSUME NEW p \in Pods, ReapClaim(p) PROVE Goal
  BY <1>16, <1>c DEF ReapClaim
<1>17. ASSUME NEW p \in Pods, ReapRemove(p) PROVE Goal
  <2>1. faults' = faults /\ sweeps' = sweeps /\ reap[p].pc # "idle"
    BY <1>17 DEF ReapRemove
  <2> QED BY <2>1, <1>b DEF Orderly
<1>18. ASSUME NEW p \in Pods, ReapDeactivate(p) PROVE Goal
  <2>1. faults' = faults /\ sweeps' = sweeps /\ reap[p].pc # "idle"
    BY <1>18 DEF ReapDeactivate
  <2> QED BY <2>1, <1>b DEF Orderly
<1>19. ASSUME NEW p \in Pods, ReapRead(p) PROVE Goal
  BY <1>19, <1>c DEF ReapRead
<1>20. ASSUME NEW p \in Pods, ReapWrite(p) PROVE Goal
  <2>1. faults' = faults /\ sweeps' = sweeps /\ reap[p].pc # "idle"
    BY <1>20 DEF ReapWrite
  <2> QED BY <2>1, <1>b DEF Orderly
<1>21. ASSUME NEW p \in Pods, NEW S \in Selections, SweepList(p, S) PROVE Goal
  <2>1. sweeps' = sweeps + 1
    BY <1>21 DEF SweepList
  <2> QED BY <2>1, <1>a DEF Undisturbed
<1>22. ASSUME NEW p \in Pods, NEW j \in Jobs, SweepRemove(p, j) PROVE Goal
  <2>1. faults' = faults /\ sweeps' = sweeps /\ sweep[p].pc # "idle"
    BY <1>22 DEF SweepRemove
  <2> QED BY <2>1, <1>b
<1>23. ASSUME NEW p \in Pods, SweepDeactivate(p) PROVE Goal
  <2>1. faults' = faults /\ sweeps' = sweeps /\ sweep[p].pc # "idle"
    BY <1>23 DEF SweepDeactivate
  <2> QED BY <2>1, <1>b
<1>24. ASSUME NEW p \in Pods, SweepMark(p) PROVE Goal
  <2>1. faults' = faults /\ sweeps' = sweeps /\ sweep[p].pc # "idle"
    BY <1>24 DEF SweepMark
  <2> QED BY <2>1, <1>b
<1>25. ASSUME NEW p \in Pods, SweepEnd(p) PROVE Goal
  <2>1. faults' = faults /\ sweeps' = sweeps /\ sweep[p].pc # "idle"
    BY <1>25 DEF SweepEnd
  <2> QED BY <2>1, <1>b
<1>26. ASSUME NEW p \in Pods, Kill(p) PROVE Goal
  <2>1. faults' = faults + 1
    BY <1>26 DEF Kill
  <2> QED BY <2>1, <1>a DEF Undisturbed
<1>27. ASSUME NEW p \in Pods, DrainStart(p) PROVE Goal
  <2>1. faults' = faults + 1
    BY <1>27 DEF DrainStart
  <2> QED BY <2>1, <1>a DEF Undisturbed
<1>28. ASSUME NEW p \in Pods, DrainEnd(p) PROVE Goal
  <2>1. faults' = faults /\ sweeps' = sweeps /\ podState[p] = "draining"
    BY <1>28 DEF DrainEnd
  <2> QED BY <2>1, <1>b DEF BoundInv, NoDrain
<1>29. ASSUME NEW p \in Pods, Start(p) PROVE Goal
  BY <1>29, <1>c DEF Start
<1>30. ASSUME NEW p \in Pods, ReplyLost(p) PROVE Goal
  <2>1. faults' = faults + 1
    BY <1>30 DEF ReplyLost
  <2> QED BY <2>1, <1>a DEF Undisturbed
<1>31. CASE UNCHANGED vars
  BY <1>31, <1>c
<1> QED
  BY <1>1, <1>2, <1>3, <1>4, <1>5, <1>6, <1>7, <1>8, <1>9, <1>10, <1>11,
     <1>12, <1>13, <1>14, <1>15, <1>16, <1>17, <1>18, <1>19, <1>20, <1>21,
     <1>22, <1>23, <1>24, <1>25, <1>26, <1>27, <1>28, <1>29, <1>30, <1>31
     DEF Next, AdderStep, ClaimStep, UpdateStep, FinishStep, ReapStep, SweepProgress,
         SweepStep, PodStep

\* The three parts of the property's count, added up.
LEMMA CountedParts ==
  ASSUME TypeInv, ActiveInv, FewActive, NEW q
  PROVE  LET ofq    == {j \in Jobs : ProfileOf[j] = q}
             due    == {j \in Jobs : ProfileOf[j] = q /\ stage[j] \in {"release", "deactivate"}}
             pushed == {j \in ofq : adding[j] # NoPod}
         IN  /\ Cardinality(Counted(q))
                  = Cardinality(active \intersect ofq) - Cardinality(pushed) + Cardinality(due)
             /\ Cardinality(active \intersect ofq) \in Nat /\ Cardinality(pushed) \in Nat
             /\ Cardinality(due) \in Nat
<1> DEFINE ofq    == {j \in Jobs : ProfileOf[j] = q}
           due    == {j \in Jobs : ProfileOf[j] = q /\ stage[j] \in {"release", "deactivate"}}
           pushed == {j \in ofq : adding[j] # NoPod}
           A      == active \intersect ofq
<1>1. /\ IsFiniteSet(A) /\ A \intersect pushed = pushed /\ (A \ pushed) \intersect due = {}
      /\ Counted(q) = (A \ pushed) \union due /\ due \subseteq Closing
  <2>1. IsFiniteSet(A)
    BY FS_Intersection DEF FewActive
  <2>2. active \subseteq Jobs
    BY DEF TypeInv, TypeOK
  <2>3. A \intersect pushed = pushed /\ (A \ pushed) \intersect due = {}
    BY DEF ActiveInv
  <2>4. Counted(q) = (A \ pushed) \union due /\ due \subseteq Closing
    BY <2>2 DEF Counted, Closing
  <2> QED BY <2>1, <2>3, <2>4
<1> HIDE DEF A, pushed, due
<1>2. IsFiniteSet(due) /\ Cardinality(due) \in Nat /\ Cardinality(A) \in Nat
  BY <1>1, FS_Subset, FS_CardinalityType DEF FewActive
<1>3. IsFiniteSet(pushed) /\ Cardinality(pushed) \in Nat
  <2>1. pushed \subseteq A
    BY <1>1
  <2> QED BY <2>1, <1>1, FS_Subset, FS_CardinalityType
<1>4. IsFiniteSet(A \ pushed) /\ Cardinality(A \ pushed) = Cardinality(A) - Cardinality(pushed)
  <2>1. /\ IsFiniteSet(A \ pushed)
        /\ Cardinality(A \ pushed) = Cardinality(A) - Cardinality(A \intersect pushed)
    BY <1>1, FS_Difference, Zenon
  <2> QED BY <1>1, <2>1
<1>5. Cardinality((A \ pushed) \union due)
        = Cardinality(A \ pushed) + Cardinality(due) - Cardinality((A \ pushed) \intersect due)
  BY <1>2, <1>4, FS_Union
<1>6. Cardinality((A \ pushed) \intersect due) = 0
  BY <1>1, FS_EmptySet
<1>7. Cardinality(Counted(q)) = Cardinality(A) - Cardinality(pushed) + Cardinality(due)
  BY <1>1, <1>2, <1>3, <1>4, <1>5, <1>6
<1> QED
  BY <1>2, <1>3, <1>7 DEF A, pushed, due

\* redis-store.js:487-492: as long as nothing fails and nothing is cancelled, the counter of
\* an account is the number of its jobs in sn:active, give or take the round trips in flight,
\* and the account is listed for KEDA exactly once while the counter is positive.  (A cancel
\* that overtakes the activation of its job is clamped away by the script, and a fault can
\* leave a count behind; so neither hypothesis can be dropped.)
THEOREM AccountsAddUp ==
  ~LeaseMayLapse /\ ~SlowReplies => (Spec => [](Undisturbed => AccountsCounted))
<1> SUFFICES ASSUME ~LeaseMayLapse, ~SlowReplies
             PROVE  Spec => [](Undisturbed => AccountsCounted)
  OBVIOUS
<1>1. Init => AcctInv
  <2> SUFFICES ASSUME Init PROVE ActiveInv /\ FewActive /\ CountInv
    BY DEF AcctInv
  <2>1. active = {} /\ Closing = {} /\ \A q : Counted(q) = {}
    BY DEF Init, Closing, Counted
  <2>2. FewActive /\ \A q : Cardinality(Counted(q)) = 0
    BY <2>1, FS_EmptySet DEF FewActive
  <2>3. ActiveInv
    BY <2>1 DEF Init, ActiveInv
  <2>4. CountInv
    BY <2>2 DEF Init, CountInv
  <2> QED BY <2>2, <2>3, <2>4
<1>2. Inv /\ BoundInv /\ OrderlyInv /\ AcctInv /\ [Next]_vars => AcctInv'
  BY AcctNext DEF Inv
<1>3. Spec => [](BoundInv /\ OrderlyInv)
  BY BoundStable, OrderlyStable, PTL
<1>4. Inv /\ BoundInv /\ OrderlyInv /\ AcctInv => (Undisturbed => AccountsCounted)
  <2> SUFFICES ASSUME Inv, BoundInv, OrderlyInv, AcctInv, Undisturbed, NEW q \in Profiles
               PROVE  LET ofq == {j \in Jobs : ProfileOf[j] = q} IN
                      /\ acct[q] = Cardinality(active \intersect ofq)
                                     - Cardinality({j \in ofq : adding[j] # NoPod})
                                     + DueDeactivations(q)
                      /\ scale[q] = IF acct[q] > 0 THEN 1 ELSE 0
    BY DEF AccountsCounted
  <2>1. ActiveInv /\ FewActive /\ CountInv /\ TypeInv
    BY DEF AcctInv, Inv
  <2>2. \A p \in Pods : sweep[p].pc = "idle" /\ reap[p].pc = "idle"
    BY DEF Undisturbed, BoundInv, NeverSwept, OrderlyInv, Calm, Orderly
  <2>3. {p \in Pods : sweep[p].pc = "deactivate" /\ ProfileOf[sweep[p].job] = q} = {}
    BY <2>2
  <2>4. {p \in Pods : reap[p].pc = "deactivate" /\ ProfileOf[reap[p].job] = q} = {}
    BY <2>2
  <2> DEFINE ofq    == {j \in Jobs : ProfileOf[j] = q}
             due    == {j \in Jobs : ProfileOf[j] = q /\ stage[j] \in {"release", "deactivate"}}
             pushed == {j \in ofq : adding[j] # NoPod}
  <2>5. /\ Cardinality(Counted(q))
             = Cardinality(active \intersect ofq) - Cardinality(pushed) + Cardinality(due)
        /\ Cardinality(active \intersect ofq) \in Nat /\ Cardinality(pushed) \in Nat
        /\ Cardinality(due) \in Nat
    BY <2>1, CountedParts
  <2>6. DueDeactivations(q) = Cardinality(due) + 0 + 0
    BY <2>3, <2>4, FS_EmptySet DEF DueDeactivations
  <2>7. acct[q] = Cardinality(Counted(q)) /\ scale[q] = IF acct[q] > 0 THEN 1 ELSE 0
    BY <2>1 DEF CountInv
  <2> HIDE DEF due
  <2>8. DueDeactivations(q) = Cardinality(due)
    BY <2>5, <2>6
  <2> QED BY <2>5, <2>7, <2>8
<1> QED
  BY <1>1, <1>2, <1>3, <1>4, InvStable, PTL DEF Spec
=============================================================================
