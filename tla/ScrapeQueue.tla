----------------------------- MODULE ScrapeQueue -----------------------------
(***************************************************************************)
(* The cloud engine's distributed scrape queue: src/engine/queue-redis.js  *)
(* over src/engine/redis-store.js.  Several pods share one Redis; a worker *)
(* pod claims a job and its LinkedIn profile's lock in one Lua script,     *)
(* drives the scrape, and finishes the job in several separate Redis       *)
(* calls.  Every pod also sweeps for orphans, and may cancel queued jobs.  *)
(*                                                                         *)
(* Grain.  One action is one Redis round trip (a command, a pipeline or a  *)
(* Lua script) together with the synchronous JavaScript around it; other   *)
(* pods interleave between two round trips.  A lock's TTL is the action    *)
(* LockExpire.  A job's JSON is abstracted to its state field, because     *)
(* the other fields (pages, counts, error text) decide no branch.          *)
(***************************************************************************)
EXTENDS Integers, FiniteSets, SequencesExt

CONSTANTS
    Pods,           \* replicas, the frontend included
    Workers,        \* the replicas started with isWorker
    Jobs,           \* job identifiers, each submitted at most once (uuid)
    Profiles,       \* GoLogin profiles (LinkedIn accounts)
    Users,          \* operators
    ProfileOf,      \* job -> profile
    UserOf,         \* job -> operator
    MaxConcurrent,  \* MAX_CONCURRENT_SCRAPES, per pod
    Statuses,       \* states a running scraper reports in its status events
    MayDie,         \* pods that can be killed, lose a reply or be drained
    MaxFaults,      \* bound: how many such faults happen
    MaxSweeps,      \* bound: how many cancel sweeps are started
    LeaseMayLapse,  \* a live owner can miss its heartbeats for a whole TTL
    SlowReplies,    \* a Redis reply can take longer than a scrape
    NoJob, NoPod

ASSUME PodsAssumption == Workers \subseteq Pods /\ NoPod \notin Pods
ASSUME JobsAssumption ==
    /\ NoJob \notin Jobs
    /\ ProfileOf \in [Jobs -> Profiles]
    /\ UserOf \in [Jobs -> Users]
ASSUME BoundsAssumption ==
    /\ MaxConcurrent \in Nat \ {0}
    /\ MaxFaults \in Nat
    /\ MaxSweeps \in Nat
    /\ LeaseMayLapse \in BOOLEAN
    /\ SlowReplies \in BOOLEAN

\* What Scraper emits while it runs, and the values of job.state at large.
ScraperStates == {"running", "throttle-wait", "throttled", "stopped", "error", "done"}
FinalStates   == {"done", "error", "cancelled"}
JobStates     == ScraperStates \union FinalStates \union {"absent", "queued"}

ASSUME StatusesAssumption == Statuses \subseteq ScraperStates

VARIABLES
    \* shared, in Redis
    jobState,   \* sn:jobs, the state field; "absent" before the submission
    waiting,    \* sn:waiting
    running,    \* sn:running
    active,     \* sn:active
    lock,       \* sn:proflock:<profile>, the job that holds it
    acct,       \* sn:profactive:<profile>; a deleted counter is 0
    scale,      \* how often sn:scaleaccounts lists the profile
    \* local to the pods
    podState,   \* "up", "draining" or "down"
    local,      \* localScrapers and localMeta
    slots,      \* claims left in the claim tick in flight, 0 when none is
    reply,      \* the job this pod has claimed and not yet heard of
    stage,      \* where the owner of a job stands in _runJob
    adding,     \* the pod whose addJob still owes the account activation
    update,     \* a status update between its reads and its write
    sweep,      \* a cancel sweep, per pod
    reap,       \* an orphan reap, per pod
    \* bounds
    faults, sweeps

redisVars == <<jobState, waiting, running, active, lock, acct, scale>>
podVars   == <<podState, local, slots, reply, stage, adding, update, sweep, reap>>
vars      == <<redisVars, podVars, faults, sweeps>>

\* "release" and "unlock" both release the lock next; only after "release" does
\* the account deactivation follow (finishJob's wasActive).
Stages    == {"none", "scraping", "release", "unlock", "deactivate", "leave"}
IdleSweep == [pc |-> "idle", todo |-> {}, job |-> NoJob, won |-> FALSE]
IdleReap  == [pc |-> "idle", job |-> NoJob]
NoUpdate  == [pod |-> NoPod, state |-> "running", inRunning |-> FALSE]

TypeOK ==
    /\ jobState \in [Jobs -> JobStates]
    /\ waiting \in Seq(Jobs)
    /\ running \subseteq Jobs
    /\ active \subseteq Jobs
    /\ lock \in [Profiles -> Jobs \union {NoJob}]
    /\ acct \in [Profiles -> Nat]
    /\ scale \in [Profiles -> Nat]
    /\ podState \in [Pods -> {"up", "draining", "down"}]
    /\ local \in [Pods -> SUBSET Jobs]
    /\ slots \in [Pods -> 0 .. MaxConcurrent]
    /\ reply \in [Pods -> Jobs \union {NoJob}]
    /\ stage \in [Jobs -> Stages]
    /\ adding \in [Jobs -> Pods \union {NoPod}]
    /\ update \in [Jobs -> [pod: Pods \union {NoPod}, state: ScraperStates,
                            inRunning: BOOLEAN]]
    /\ sweep \in [Pods -> [pc: {"idle", "next", "deactivate", "mark"},
                           todo: SUBSET Jobs, job: Jobs \union {NoJob},
                           won: BOOLEAN]]
    /\ reap \in [Pods -> [pc: {"idle", "hdel", "lrem", "deactivate", "read", "write"},
                          job: Jobs \union {NoJob}]]
    /\ faults \in 0 .. MaxFaults
    /\ sweeps \in 0 .. MaxSweeps

Init ==
    /\ jobState = [j \in Jobs |-> "absent"]
    /\ waiting = <<>>
    /\ running = {}
    /\ active = {}
    /\ lock = [q \in Profiles |-> NoJob]
    /\ acct = [q \in Profiles |-> 0]
    /\ scale = [q \in Profiles |-> 0]
    /\ podState = [p \in Pods |-> "up"]
    /\ local = [p \in Pods |-> {}]
    /\ slots = [p \in Pods |-> 0]
    /\ reply = [p \in Pods |-> NoJob]
    /\ stage = [j \in Jobs |-> "none"]
    /\ adding = [j \in Jobs |-> NoPod]
    /\ update = [j \in Jobs |-> NoUpdate]
    /\ sweep = [p \in Pods |-> IdleSweep]
    /\ reap = [p \in Pods |-> IdleReap]
    /\ faults = 0
    /\ sweeps = 0

-----------------------------------------------------------------------------
(* The account counter that KEDA scales on: one Lua script each way.       *)

\* Mutant: the account is pushed on every activation, not only on 0 -> 1.
AcctActivate_AlwaysPush(q) ==
    /\ acct' = [acct EXCEPT ![q] = @ + 1]
    /\ scale' = [scale EXCEPT ![q] = @ + 1]

AcctActivate(q) ==
    /\ acct' = [acct EXCEPT ![q] = @ + 1]
    /\ scale' = IF acct[q] = 0 THEN [scale EXCEPT ![q] = @ + 1] ELSE scale

AcctDeactivate(q) ==
    IF acct[q] <= 1
    THEN /\ acct' = [acct EXCEPT ![q] = 0]
         /\ scale' = [scale EXCEPT ![q] = 0]
    ELSE /\ acct' = [acct EXCEPT ![q] = @ - 1]
         /\ UNCHANGED scale

-----------------------------------------------------------------------------
(* Submission: the pipeline of addJob, then its account activation.        *)

Submit(p, j) ==
    /\ podState[p] = "up"
    /\ jobState[j] = "absent"
    /\ jobState' = [jobState EXCEPT ![j] = "queued"]
    /\ waiting' = Append(waiting, j)
    /\ active' = active \union {j}
    /\ adding' = [adding EXCEPT ![j] = p]
    /\ UNCHANGED <<running, lock, acct, scale, podState, local, slots, reply,
                   stage, update, sweep, reap, faults, sweeps>>

Activate(j) ==
    /\ adding[j] # NoPod
    /\ AcctActivate(ProfileOf[j])
    /\ adding' = [adding EXCEPT ![j] = NoPod]
    /\ UNCHANGED <<jobState, waiting, running, active, lock, podState, local,
                   slots, reply, stage, update, sweep, reap, faults, sweeps>>

-----------------------------------------------------------------------------
(* The claim tick: one at a time per pod, its budget fixed when it starts. *)

\* Mutant: no _claiming flag, a second tick adds its budget to the first one's.
ClaimTick_Overlapping(p) ==
    /\ p \in Workers
    /\ podState[p] = "up"
    /\ Cardinality(local[p]) < MaxConcurrent
    /\ slots[p] <= MaxConcurrent
    /\ slots' = [slots EXCEPT ![p] = @ + MaxConcurrent - Cardinality(local[p])]
    /\ UNCHANGED <<redisVars, podState, local, reply, stage, adding, update,
                   sweep, reap, faults, sweeps>>

ClaimTick(p) ==
    /\ p \in Workers
    /\ podState[p] = "up"
    /\ slots[p] = 0
    /\ Cardinality(local[p]) < MaxConcurrent
    /\ slots' = [slots EXCEPT ![p] = MaxConcurrent - Cardinality(local[p])]
    /\ UNCHANGED <<redisVars, podState, local, reply, stage, adding, update,
                   sweep, reap, faults, sweeps>>

\* Mutant: SET without NX.
Claimable_NoNX(i) == TRUE

Claimable(i) == lock[ProfileOf[waiting[i]]] = NoJob

\* Mutant: the claimed job is read and not popped.
ClaimNextJob_NotPopped(p) ==
    /\ slots[p] > 0
    /\ reply[p] = NoJob
    /\ \E i \in DOMAIN waiting :
         LET j == waiting[i] IN
         /\ Claimable(i)
         /\ \A h \in 1 .. i - 1 : ~Claimable(h)
         /\ lock' = [lock EXCEPT ![ProfileOf[j]] = j]
         /\ jobState' = [jobState EXCEPT ![j] = "running"]
         /\ running' = running \union {j}
         /\ reply' = [reply EXCEPT ![p] = j]
    /\ UNCHANGED <<waiting, active, acct, scale, podState, local, slots, stage,
                   adding, update, sweep, reap, faults, sweeps>>

\* CLAIM_LUA: the first claimable job is taken, and the busy jobs scanned
\* before it go to the tail of the list.
ClaimNextJob(p) ==
    /\ slots[p] > 0
    /\ reply[p] = NoJob
    /\ \E i \in DOMAIN waiting :
         LET j == waiting[i] IN
         /\ Claimable(i)
         /\ \A h \in 1 .. i - 1 : ~Claimable(h)
         /\ waiting' = SubSeq(waiting, i + 1, Len(waiting)) \o SubSeq(waiting, 1, i - 1)
         /\ lock' = [lock EXCEPT ![ProfileOf[j]] = j]
         /\ jobState' = [jobState EXCEPT ![j] = "running"]
         /\ running' = running \union {j}
         /\ reply' = [reply EXCEPT ![p] = j]
    /\ UNCHANGED <<active, acct, scale, podState, local, slots, stage, adding,
                   update, sweep, reap, faults, sweeps>>

\* Mutant: the busy jobs that were scanned are not put back.
ClaimNothing_SkippedLost(p) ==
    /\ slots[p] > 0
    /\ reply[p] = NoJob
    /\ \A i \in DOMAIN waiting : ~Claimable(i)
    /\ slots' = [slots EXCEPT ![p] = 0]
    /\ waiting' = <<>>
    /\ UNCHANGED <<jobState, running, active, lock, acct, scale, podState, local,
                   reply, stage, adding, update, sweep, reap, faults, sweeps>>

\* Every waiting job's profile is busy: all are put back in the same order.
ClaimNothing(p) ==
    /\ slots[p] > 0
    /\ reply[p] = NoJob
    /\ \A i \in DOMAIN waiting : ~Claimable(i)
    /\ slots' = [slots EXCEPT ![p] = 0]
    /\ UNCHANGED <<redisVars, podState, local, reply, stage, adding, update,
                   sweep, reap, faults, sweeps>>

\* The claim's reply arrives: _runJob registers the scraper and starts it.
RunJob(p) ==
    /\ reply[p] # NoJob
    /\ local' = [local EXCEPT ![p] = @ \union {reply[p]}]
    /\ stage' = [stage EXCEPT ![reply[p]] = "scraping"]
    /\ slots' = [slots EXCEPT ![p] = @ - 1]
    /\ reply' = [reply EXCEPT ![p] = NoJob]
    /\ UNCHANGED <<redisVars, podState, adding, update, sweep, reap, faults, sweeps>>

-----------------------------------------------------------------------------
(* Status events: updateJob reads, and writes in a later round trip.       *)

UpdateRead(p, j) ==
    /\ j \in local[p]
    /\ stage[j] = "scraping"
    /\ update[j] = NoUpdate
    /\ \E s \in Statuses :
         update' = [update EXCEPT ![j] = [pod |-> p, state |-> s,
                                          inRunning |-> j \in running]]
    /\ UNCHANGED <<redisVars, podState, local, slots, reply, stage, adding,
                   sweep, reap, faults, sweeps>>

UpdateWrite(j) ==
    /\ update[j] # NoUpdate
    /\ jobState' = [jobState EXCEPT ![j] = update[j].state]
    /\ running' = IF update[j].inRunning THEN running \union {j} ELSE running
    /\ update' = [update EXCEPT ![j] = NoUpdate]
    /\ UNCHANGED <<waiting, active, lock, acct, scale, podState, local, slots,
                   reply, stage, adding, sweep, reap, faults, sweeps>>

-----------------------------------------------------------------------------
(* The end of _runJob: finishJob's pipeline, its lock release, its account *)
(* deactivation, and the scraper's removal from the pod.                   *)

FinishWrite(p, j) ==
    /\ j \in local[p]
    /\ stage[j] = "scraping"
    /\ SlowReplies \/ (update[j] = NoUpdate /\ adding[j] = NoPod)
    /\ \E s \in {"done", "error"} : jobState' = [jobState EXCEPT ![j] = s]
    /\ running' = running \ {j}
    /\ active' = active \ {j}
    /\ stage' = [stage EXCEPT ![j] = IF j \in active THEN "release" ELSE "unlock"]
    /\ UNCHANGED <<waiting, lock, acct, scale, podState, local, slots, reply,
                   adding, update, sweep, reap, faults, sweeps>>

\* Check-and-delete: only a lock that still names this job is deleted.
ReleaseLock(j) ==
    /\ stage[j] \in {"release", "unlock"}
    /\ lock' = [lock EXCEPT ![ProfileOf[j]] = IF @ = j THEN NoJob ELSE @]
    /\ stage' = [stage EXCEPT ![j] = IF @ = "release" THEN "deactivate" ELSE "leave"]
    /\ UNCHANGED <<jobState, waiting, running, active, acct, scale, podState, local,
                   slots, reply, adding, update, sweep, reap, faults, sweeps>>

FinishDeactivate(j) ==
    /\ stage[j] = "deactivate"
    /\ AcctDeactivate(ProfileOf[j])
    /\ stage' = [stage EXCEPT ![j] = "leave"]
    /\ UNCHANGED <<jobState, waiting, running, active, lock, podState, local,
                   slots, reply, adding, update, sweep, reap, faults, sweeps>>

Leave(p, j) ==
    /\ j \in local[p]
    /\ stage[j] = "leave"
    /\ local' = [local EXCEPT ![p] = @ \ {j}]
    /\ stage' = [stage EXCEPT ![j] = "none"]
    /\ UNCHANGED <<redisVars, podState, slots, reply, adding, update, sweep,
                   reap, faults, sweeps>>

\* finishJob rejects at one of its round trips; _runJob swallows the error.
FinishRejected(j) ==
    /\ faults < MaxFaults
    /\ stage[j] \in {"scraping", "release", "unlock", "deactivate"}
    /\ stage' = [stage EXCEPT ![j] = "leave"]
    /\ faults' = faults + 1
    /\ UNCHANGED <<redisVars, podState, local, slots, reply, adding, update,
                   sweep, reap, sweeps>>

-----------------------------------------------------------------------------
(* Locks expire.  heartbeat() renews the lock of every job in localMeta,   *)
(* also of one that is finishing, as long as the lock names that job; a    *)
(* claim whose reply is in transit is younger than the TTL.                *)

\* Mutant: the heartbeat compares the lock with the pod and renews nothing.
Heartbeats_WrongOwner(j) == \E p \in Pods : reply[p] = j

Heartbeats(j) == \E p \in Pods : j \in local[p] \/ reply[p] = j

\* Mutant: SET NX without EX, a dead pod's lock stays.
LockExpire_NoTTL(q) ==
    /\ LeaseMayLapse
    /\ lock[q] # NoJob
    /\ lock' = [lock EXCEPT ![q] = NoJob]
    /\ UNCHANGED <<jobState, waiting, running, active, acct, scale, podVars,
                   faults, sweeps>>

LockExpire(q) ==
    /\ lock[q] # NoJob
    /\ LeaseMayLapse \/ ~Heartbeats(lock[q])
    /\ lock' = [lock EXCEPT ![q] = NoJob]
    /\ UNCHANGED <<jobState, waiting, running, active, acct, scale, podVars,
                   faults, sweeps>>

-----------------------------------------------------------------------------
(* The orphan reaper: reapIfOrphaned for a job that is not running here.   *)

ReapAt(p, c) == reap' = [reap EXCEPT ![p] = [pc |-> c, job |-> @.job]]

\* Mutant: any job that does not run here counts as orphaned.
ReapCheck_NoLockTest(p, j) ==
    /\ podState[p] # "down"
    /\ reap[p] = IdleReap
    /\ j \in running
    /\ j \notin local[p]
    /\ reap' = [reap EXCEPT ![p] = [pc |-> "hdel", job |-> j]]
    /\ UNCHANGED <<redisVars, podState, local, slots, reply, stage, adding,
                   update, sweep, faults, sweeps>>

ReapCheck(p, j) ==
    /\ podState[p] # "down"
    /\ reap[p] = IdleReap
    /\ j \in running
    /\ j \notin local[p]
    /\ lock[ProfileOf[j]] # j
    /\ SlowReplies \/ adding[j] = NoPod
    /\ reap' = [reap EXCEPT ![p] = [pc |-> "hdel", job |-> j]]
    /\ UNCHANGED <<redisVars, podState, local, slots, reply, stage, adding,
                   update, sweep, faults, sweeps>>

\* Mutant: the reaper reads sn:running where it should delete from it.
ReapClaim_NotDeleted(p) ==
    /\ reap[p].pc = "hdel"
    /\ IF reap[p].job \in running THEN ReapAt(p, "lrem")
                                  ELSE reap' = [reap EXCEPT ![p] = IdleReap]
    /\ UNCHANGED <<redisVars, podState, local, slots, reply, stage, adding,
                   update, sweep, faults, sweeps>>

\* HDEL returns 1 to one reaper only; the others stop here.
ReapClaim(p) ==
    /\ reap[p].pc = "hdel"
    /\ running' = running \ {reap[p].job}
    /\ IF reap[p].job \in running THEN ReapAt(p, "lrem")
                                  ELSE reap' = [reap EXCEPT ![p] = IdleReap]
    /\ UNCHANGED <<jobState, waiting, active, lock, acct, scale, podState, local,
                   slots, reply, stage, adding, update, sweep, faults, sweeps>>

ReapRemove(p) ==
    /\ reap[p].pc = "lrem"
    /\ active' = active \ {reap[p].job}
    /\ ReapAt(p, "deactivate")
    /\ UNCHANGED <<jobState, waiting, running, lock, acct, scale, podState, local,
                   slots, reply, stage, adding, update, sweep, faults, sweeps>>

ReapDeactivate(p) ==
    /\ reap[p].pc = "deactivate"
    /\ AcctDeactivate(ProfileOf[reap[p].job])
    /\ ReapAt(p, "read")
    /\ UNCHANGED <<jobState, waiting, running, active, lock, podState, local,
                   slots, reply, stage, adding, update, sweep, faults, sweeps>>

\* Mutant: only a queued job is finalized.
ReapRead_QueuedOnly(p) ==
    /\ reap[p].pc = "read"
    /\ IF jobState[reap[p].job] = "queued"
       THEN ReapAt(p, "write")
       ELSE reap' = [reap EXCEPT ![p] = IdleReap]
    /\ UNCHANGED <<redisVars, podState, local, slots, reply, stage, adding,
                   update, sweep, faults, sweeps>>

\* Only "running" and "queued" are rewritten; any other state is left as it is.
ReapRead(p) ==
    /\ reap[p].pc = "read"
    /\ IF jobState[reap[p].job] \in {"running", "queued"}
       THEN ReapAt(p, "write")
       ELSE reap' = [reap EXCEPT ![p] = IdleReap]
    /\ UNCHANGED <<redisVars, podState, local, slots, reply, stage, adding,
                   update, sweep, faults, sweeps>>

ReapWrite(p) ==
    /\ reap[p].pc = "write"
    /\ jobState' = [jobState EXCEPT ![reap[p].job] = "error"]
    /\ reap' = [reap EXCEPT ![p] = IdleReap]
    /\ UNCHANGED <<waiting, running, active, lock, acct, scale, podState, local,
                   slots, reply, stage, adding, update, sweep, faults, sweeps>>

-----------------------------------------------------------------------------
(* Cancel sweeps: the queued jobs of an operator or of a profile, listed   *)
(* once and then removed one by one.                                       *)

Selections == {{j \in Jobs : UserOf[j] = u} : u \in Users}
                \union {{j \in Jobs : ProfileOf[j] = q} : q \in Profiles}

SweepAt(p, c) ==
    sweep' = [sweep EXCEPT ![p] = [pc |-> c, todo |-> @.todo, job |-> @.job, won |-> @.won]]

SweepList(p, S) ==
    /\ sweeps < MaxSweeps
    /\ podState[p] # "down"
    /\ sweep[p] = IdleSweep
    /\ S \intersect ToSet(waiting) # {}
    /\ sweep' = [sweep EXCEPT ![p] = [pc |-> "next", todo |-> S \intersect ToSet(waiting),
                                      job |-> NoJob, won |-> FALSE]]
    /\ sweeps' = sweeps + 1
    /\ UNCHANGED <<redisVars, podState, local, slots, reply, stage, adding,
                   update, reap, faults>>

\* removeFromQueue's pipeline.  A job claimed since the listing is no longer in
\* sn:waiting, but it is removed from sn:active all the same.  LREM removes every
\* occurrence of a job; there is at most one (ClaimedOnce).
SweepRemove(p, j) ==
    LET won       == j \in ToSet(waiting)
        wasActive == j \in active
        rest      == sweep[p].todo \ {j}
    IN
    /\ sweep[p].pc = "next"
    /\ j \in sweep[p].todo
    /\ IF won THEN \E i \in DOMAIN waiting : /\ waiting[i] = j
                                             /\ waiting' = RemoveAt(waiting, i)
              ELSE waiting' = waiting
    /\ active' = active \ {j}
    /\ sweep' = [sweep EXCEPT ![p] =
                   [pc   |-> IF wasActive THEN "deactivate"
                             ELSE IF won THEN "mark" ELSE "next",
                    todo |-> rest, job |-> j, won |-> won]]
    /\ UNCHANGED <<jobState, running, lock, acct, scale, podState, local, slots,
                   reply, stage, adding, update, reap, faults, sweeps>>

SweepDeactivate(p) ==
    /\ sweep[p].pc = "deactivate"
    /\ AcctDeactivate(ProfileOf[sweep[p].job])
    /\ SweepAt(p, IF sweep[p].won THEN "mark" ELSE "next")
    /\ UNCHANGED <<jobState, waiting, running, active, lock, podState, local,
                   slots, reply, stage, adding, update, reap, faults, sweeps>>

SweepMark(p) ==
    /\ sweep[p].pc = "mark"
    /\ jobState' = [jobState EXCEPT ![sweep[p].job] = "cancelled"]
    /\ SweepAt(p, "next")
    /\ UNCHANGED <<waiting, running, active, lock, acct, scale, podState, local,
                   slots, reply, stage, adding, update, reap, faults, sweeps>>

SweepEnd(p) ==
    /\ sweep[p].pc = "next"
    /\ sweep[p].todo = {}
    /\ sweep' = [sweep EXCEPT ![p] = IdleSweep]
    /\ UNCHANGED <<redisVars, podState, local, slots, reply, stage, adding,
                   update, reap, faults, sweeps>>

-----------------------------------------------------------------------------
(* Pods: drained on SIGTERM, killed, started again; and a claim whose      *)
(* reply never reaches the pod.                                            *)

\* Everything the pod held in memory is gone, Redis stays as it is.
MemoryLost(p) ==
    /\ podState' = [podState EXCEPT ![p] = "down"]
    /\ local' = [local EXCEPT ![p] = {}]
    /\ slots' = [slots EXCEPT ![p] = 0]
    /\ reply' = [reply EXCEPT ![p] = NoJob]
    /\ stage' = [j \in Jobs |-> IF j \in local[p] THEN "none" ELSE stage[j]]
    /\ adding' = [j \in Jobs |-> IF adding[j] = p THEN NoPod ELSE adding[j]]
    /\ update' = [j \in Jobs |-> IF update[j].pod = p THEN NoUpdate ELSE update[j]]
    /\ sweep' = [sweep EXCEPT ![p] = IdleSweep]
    /\ reap' = [reap EXCEPT ![p] = IdleReap]

Kill(p) ==
    /\ p \in MayDie
    /\ podState[p] # "down"
    /\ faults < MaxFaults
    /\ faults' = faults + 1
    /\ MemoryLost(p)
    /\ UNCHANGED <<redisVars, sweeps>>

DrainStart(p) ==
    /\ p \in MayDie
    /\ podState[p] = "up"
    /\ faults < MaxFaults
    /\ faults' = faults + 1
    /\ podState' = [podState EXCEPT ![p] = "draining"]
    /\ UNCHANGED <<redisVars, local, slots, reply, stage, adding, update, sweep,
                   reap, sweeps>>

DrainEnd(p) ==
    /\ podState[p] = "draining"
    /\ local[p] = {}
    /\ slots[p] = 0
    /\ MemoryLost(p)
    /\ UNCHANGED <<redisVars, faults, sweeps>>

Start(p) ==
    /\ podState[p] = "down"
    /\ podState' = [podState EXCEPT ![p] = "up"]
    /\ UNCHANGED <<redisVars, local, slots, reply, stage, adding, update, sweep,
                   reap, faults, sweeps>>

\* The connection drops after the script ran; the client sends it again.
ReplyLost(p) ==
    /\ p \in MayDie
    /\ reply[p] # NoJob
    /\ faults < MaxFaults
    /\ faults' = faults + 1
    /\ reply' = [reply EXCEPT ![p] = NoJob]
    /\ UNCHANGED <<redisVars, podState, local, slots, stage, adding, update,
                   sweep, reap, sweeps>>

-----------------------------------------------------------------------------
AdderStep  == \E j \in Jobs : Activate(j) \/ \E p \in Pods : Submit(p, j)
ClaimStep(p) == ClaimTick(p) \/ ClaimNextJob(p) \/ ClaimNothing(p) \/ RunJob(p)
UpdateStep(j) == UpdateWrite(j) \/ \E p \in Pods : UpdateRead(p, j)
FinishStep(j) ==
    \/ ReleaseLock(j)
    \/ FinishDeactivate(j)
    \/ \E p \in Pods : FinishWrite(p, j) \/ Leave(p, j)
ReapStep(p) ==
    \/ ReapClaim(p) \/ ReapRemove(p) \/ ReapDeactivate(p)
    \/ ReapRead(p) \/ ReapWrite(p)
    \/ \E j \in Jobs : ReapCheck(p, j)
SweepProgress(p) ==
    \/ SweepDeactivate(p) \/ SweepMark(p) \/ SweepEnd(p)
    \/ \E j \in Jobs : SweepRemove(p, j)
SweepStep(p) ==
    \/ SweepProgress(p)
    \/ \E S \in Selections : SweepList(p, S)
PodStep(p) == Kill(p) \/ DrainStart(p) \/ DrainEnd(p) \/ Start(p) \/ ReplyLost(p)

Next ==
    \/ AdderStep
    \/ \E p \in Pods : ClaimStep(p) \/ ReapStep(p) \/ SweepStep(p) \/ PodStep(p)
    \/ \E j \in Jobs : UpdateStep(j) \/ FinishStep(j) \/ FinishRejected(j)
    \/ \E q \in Profiles : LockExpire(q)

Spec == Init /\ [][Next]_vars

\* The claim timer, the replies of Redis, the TTL and the reap timer keep going,
\* and the cluster starts a pod again.  A reap tick walks every id of sn:running
\* (hence SF).  Scrapes end; nobody has to submit, cancel or report a status.
Fairness ==
    /\ \A p \in Pods : /\ WF_vars(ClaimTick(p))
                       /\ WF_vars(ClaimNextJob(p))
                       /\ WF_vars(ClaimNothing(p))
                       /\ WF_vars(RunJob(p))
                       /\ WF_vars(ReapStep(p))
                       /\ WF_vars(SweepProgress(p))
                       /\ WF_vars(Start(p))
                       /\ WF_vars(DrainEnd(p))
    /\ \A p \in Pods, j \in Jobs : SF_vars(ReapCheck(p, j))
    /\ \A j \in Jobs : WF_vars(FinishStep(j)) /\ WF_vars(UpdateWrite(j))
    /\ \A j \in Jobs : WF_vars(Activate(j))
    /\ \A q \in Profiles : WF_vars(LockExpire(q))

FairSpec == Spec /\ Fairness

-----------------------------------------------------------------------------
(* Properties.                                                             *)

Waiting == ToSet(waiting)
Scraping(j) == stage[j] = "scraping"
Owned(j) == \E p \in Pods : j \in local[p] \/ reply[p] = j

\* test-queue-redis.js:97, "no profile ever ran 2 scrapes at once": two jobs
\* whose scrapers are alive, on whatever pods, never share a profile.
ProfileExclusive ==
    \A j, k \in Jobs : Scraping(j) /\ Scraping(k) /\ ProfileOf[j] = ProfileOf[k] => j = k

\* A live scraper's job holds its profile's lock (what makes the claim script's
\* SET NX exclude a second browser for as long as the scrape lasts).
ScraperHoldsLock ==
    /\ \A j \in Jobs : Scraping(j) => lock[ProfileOf[j]] = j
    /\ \A p \in Pods : reply[p] # NoJob => lock[ProfileOf[reply[p]]] = reply[p]

\* test-redis-store.js:96, "every job was claimed exactly once": a job is in at
\* most one place of the queue's hands, and what waits has not been started.
ClaimedOnce ==
    /\ \A a, b \in DOMAIN waiting : waiting[a] = waiting[b] => a = b
    /\ \A j \in Waiting : jobState[j] = "queued" /\ j \notin running /\ stage[j] = "none"
    /\ \A j \in Waiting : ~Owned(j)
    /\ \A p, r \in Pods : p # r => /\ local[p] \intersect local[r] = {}
                                   /\ reply[p] \notin local[r]
                                   /\ reply[p] # NoJob => reply[p] # reply[r]

\* queue-redis.js:238: overlapping ticks and jobs that finish during a tick never
\* let a pod run more than MAX_CONCURRENT_SCRAPES scrapes.
PodCap ==
    \A p \in Pods :
        Cardinality(local[p]) + (IF reply[p] = NoJob THEN 0 ELSE 1) <= MaxConcurrent

\* redis-store.js:437: between the reaper's look at the lock and its HDEL the
\* verdict cannot go stale, so the reaper never takes a job whose scraper lives.
OrphanVerdictSound ==
    \A p \in Pods : reap[p].pc = "hdel" =>
        /\ ~Scraping(reap[p].job)
        /\ \A r \in Pods : reply[r] # reap[p].job

\* Jobs of profile q whose account deactivation is due but not yet executed.
DueDeactivations(q) ==
    Cardinality({j \in Jobs : ProfileOf[j] = q /\ stage[j] \in {"release", "deactivate"}})
    + Cardinality({p \in Pods : sweep[p].pc = "deactivate" /\ ProfileOf[sweep[p].job] = q})
    + Cardinality({p \in Pods : reap[p].pc = "deactivate" /\ ProfileOf[reap[p].job] = q})

\* redis-store.js:487-492: the per-account counter is the number of the account's
\* jobs in sn:active, give or take the round trips in flight, and the account is
\* listed for KEDA exactly once while that counter is positive.
AccountsCounted ==
    \A q \in Profiles :
        LET ofq == {j \in Jobs : ProfileOf[j] = q} IN
        /\ acct[q] = Cardinality(active \intersect ofq)
                     - Cardinality({j \in ofq : adding[j] # NoPod})
                     + DueDeactivations(q)
        /\ scale[q] = IF acct[q] > 0 THEN 1 ELSE 0

\* The status of a job as ProfileQueue sees it.
JobStatus == [j \in Jobs |->
    IF jobState[j] = "absent" THEN "new"
    ELSE IF j \in Waiting THEN "queued"
    ELSE IF Scraping(j) \/ (\E p \in Pods : reply[p] = j) THEN "running"
    ELSE "ended"]

Abstract == INSTANCE ProfileQueue WITH status <- JobStatus

\* The distributed queue keeps the promise of ProfileQueue: through crashes, lost
\* replies, reaps and cancel sweeps a job only moves forward, and starting two
\* jobs of a profile excludes each other.
ImplementsProfileQueue == Abstract!Spec

\* An orphan is a running job that no pod owns.  Its entry in sn:running is
\* eventually removed (queue-redis.js:43-46).
OrphansReaped == \A j \in Jobs : j \in running /\ ~Owned(j) ~> j \notin running

\* test-queue-redis.js:117, "no profile locks leaked": no job keeps a profile.
LocksFreed == \A q \in Profiles : \A j \in Jobs : lock[q] = j ~> lock[q] # j

\* A submitted job is eventually done, failed or cancelled, and removed from
\* every structure that counts work in flight.
JobsEnd == \A j \in Jobs : jobState[j] = "queued" ~>
             jobState[j] \in FinalStates /\ j \notin running \union active \union Waiting

\* redis-store.js:426, "only ONE reaper wins and finalizes the job": a job that
\* has left the queue and that nobody works on is in a final state.
Settled(j) ==
    \/ jobState[j] \in FinalStates \union {"absent"}
    \/ j \in Waiting \union running \/ Owned(j) \/ update[j] # NoUpdate
    \/ \E p \in Pods : reap[p].job = j \/ (sweep[p].job = j /\ sweep[p].pc # "next")
ReapedIsFinal == \A j \in Jobs : Settled(j)
=============================================================================
