------------------------------ MODULE JobQueue ------------------------------
(***************************************************************************)
(* The in-memory scrape queue of a single engine process                   *)
(* (src/engine/queue.js), the default behind job-queue.js.  JavaScript     *)
(* runs each call to its end before anything else happens, and every call  *)
(* that frees a slot or adds a job ends in _tick: one action is one such   *)
(* call with its tick.  What interleaves is the scrapers' callbacks, the   *)
(* operators' requests and SIGTERM.                                        *)
(***************************************************************************)
EXTENDS Integers, FiniteSets, SequencesExt

CONSTANTS
    Jobs,           \* job identifiers, each submitted at most once (uuid)
    Profiles,       \* GoLogin profiles
    Users,          \* operators
    ProfileOf,      \* job -> profile
    UserOf,         \* job -> operator
    MaxConcurrent,  \* MAX_CONCURRENT_SCRAPES
    MaxBatch        \* bound: jobs submitted in one call

ASSUME JobsAssumption == ProfileOf \in [Jobs -> Profiles] /\ UserOf \in [Jobs -> Users]
ASSUME BoundsAssumption == MaxConcurrent \in Nat \ {0} /\ MaxBatch \in Nat \ {0}

VARIABLES
    state,      \* job.state; "limited" is an error whose text names the rate limit,
                \* "lost" a job the process forgot when it exited
    queue,      \* this.queue
    running,    \* the keys of this.running
    paused,     \* the running scrapers with paused set
    stopping,   \* the running scrapers with stopped set
    mode        \* "up", "draining" (SIGTERM received) or "gone"

vars == <<state, queue, running, paused, stopping, mode>>

JobStates == {"absent", "queued", "running", "done", "error", "limited", "cancelled", "lost"}

TypeOK ==
    /\ state \in [Jobs -> JobStates]
    /\ queue \in Seq(Jobs)
    /\ running = {j \in Jobs : state[j] = "running"}
    /\ ToSet(queue) = {j \in Jobs : state[j] = "queued"}
    /\ paused \subseteq running
    /\ stopping \subseteq running
    /\ mode \in {"up", "draining", "gone"}

Init ==
    /\ state = [j \in Jobs |-> "absent"]
    /\ queue = <<>>
    /\ running = {}
    /\ paused = {}
    /\ stopping = {}
    /\ mode = "up"

-----------------------------------------------------------------------------
(* _tick: the jobs it takes from a queue q while the jobs of run run.      *)

\* The jobs of a queue outside S, in their order (Array.filter, splice).
Without(q, S) ==
    LET kept[n \in 0 .. Len(q)] ==
          IF n = 0 THEN <<>>
          ELSE IF q[n] \in S THEN kept[n - 1] ELSE Append(kept[n - 1], q[n])
    IN  kept[Len(q)]

ProfilesOf(S) == {ProfileOf[j] : j \in S}

\* Mutant: the profiles picked in this very tick are not remembered.
Startable_NoPicked(q, run) == {i \in DOMAIN q : ProfileOf[q[i]] \notin ProfilesOf(run)}

\* Mutant: the queue is walked from its end.
Startable_Newest(q, run) ==
    {i \in DOMAIN q : /\ ProfileOf[q[i]] \notin ProfilesOf(run)
                      /\ \A h \in DOMAIN q : h > i => ProfileOf[q[h]] # ProfileOf[q[i]]}

\* The first job of every profile that drives no browser.
Startable(q, run) ==
    {i \in DOMAIN q : /\ ProfileOf[q[i]] \notin ProfilesOf(run)
                      /\ \A h \in 1 .. i - 1 : ProfileOf[q[h]] # ProfileOf[q[i]]}

\* The budget goes to the oldest of them; a draining process starts none.
Started(q, run) ==
    LET able  == Startable(q, run)
        space == MaxConcurrent - Cardinality(run)
    IN  IF mode # "up" THEN {}
        ELSE {q[i] : i \in {c \in able : Cardinality({h \in able : h < c}) < space}}

\* The end of a call: st, q and run are what it left behind, then _tick runs.
Tick(st, q, run) ==
    LET started == Started(q, run) IN
    /\ state' = [j \in Jobs |-> IF j \in started THEN "running" ELSE st[j]]
    /\ queue' = Without(q, started)
    /\ running' = run \union started

Cancelled(st, S) == [j \in Jobs |-> IF j \in S /\ st[j] = "queued" THEN "cancelled" ELSE st[j]]

OfUser(u) == {j \in Jobs : UserOf[j] = u}
OfProfile(p) == {j \in Jobs : ProfileOf[j] = p}
Selections == {OfUser(u) : u \in Users} \union {OfProfile(p) : p \in Profiles}

-----------------------------------------------------------------------------
Batches == {b \in UNION {[1 .. n -> Jobs] : n \in 1 .. MaxBatch} :
              /\ \A i, k \in DOMAIN b : b[i] = b[k] => i = k
              /\ \A i \in DOMAIN b : /\ UserOf[b[i]] = UserOf[b[1]]
                                     /\ ProfileOf[b[i]] = ProfileOf[b[1]]}

\* addSingle and addBatch: one operator's jobs for one profile, then one tick,
\* which a draining process skips.
Add(b) ==
    /\ mode # "gone"
    /\ \A i \in DOMAIN b : state[b[i]] = "absent"
    /\ Tick([j \in Jobs |-> IF j \in ToSet(b) THEN "queued" ELSE state[j]],
            queue \o b, running)
    /\ UNCHANGED <<paused, stopping, mode>>

\* Mutant: the tick comes before the cascade.
Finish_TickFirst(j, how) ==
    /\ j \in running
    /\ LET ended == [state EXCEPT ![j] = how]
           rest == running \ {j}
           started == Started(queue, rest)
           cut == IF how = "limited" THEN OfUser(UserOf[j]) \ started ELSE {}
       IN /\ state' = [k \in Jobs |-> IF k \in started THEN "running"
                                      ELSE Cancelled(ended, cut)[k]]
          /\ queue' = Without(queue, cut \union started)
          /\ running' = rest \union started
    /\ paused' = paused \ {j}
    /\ stopping' = stopping \ {j}
    /\ UNCHANGED mode

\* Mutant: the rate-limit cascade returns without a tick.
Finish_CascadeReturns(j, how) ==
    /\ j \in running
    /\ LET ended == [state EXCEPT ![j] = how] IN
       IF how = "limited"
       THEN /\ state' = Cancelled(ended, OfUser(UserOf[j]))
            /\ queue' = Without(queue, OfUser(UserOf[j]))
            /\ running' = running \ {j}
       ELSE Tick(ended, queue, running \ {j})
    /\ paused' = paused \ {j}
    /\ stopping' = stopping \ {j}
    /\ UNCHANGED mode

\* Mutant: the tick at the end is forgotten.
Finish_NoTick(j, how) ==
    /\ j \in running
    /\ state' = [state EXCEPT ![j] = how]
    /\ running' = running \ {j}
    /\ paused' = paused \ {j}
    /\ stopping' = stopping \ {j}
    /\ UNCHANGED <<queue, mode>>

\* The end of _runJob: a rate-limited scrape cancels its operator's queued jobs
\* before the tick can start one of them.
Finish(j, how) ==
    /\ j \in running
    /\ LET ended == [state EXCEPT ![j] = how]
           cut   == IF how = "limited" THEN OfUser(UserOf[j]) ELSE {}
       IN Tick(Cancelled(ended, cut), Without(queue, cut), running \ {j})
    /\ paused' = paused \ {j}
    /\ stopping' = stopping \ {j}
    /\ UNCHANGED mode

\* "sheet-permission-error" while the scrape goes on: the operator's queued jobs
\* go, no slot is freed, no tick.
SheetError(j) ==
    /\ j \in running
    /\ state' = Cancelled(state, OfUser(UserOf[j]))
    /\ queue' = Without(queue, OfUser(UserOf[j]))
    /\ UNCHANGED <<running, paused, stopping, mode>>

PauseFor(S) ==
    /\ paused' = paused \union (running \intersect S)
    /\ UNCHANGED <<state, queue, running, stopping, mode>>

ResumeFor(S) ==
    /\ paused' = paused \ S
    /\ UNCHANGED <<state, queue, running, stopping, mode>>

\* stopForUser and stopForProfile.
StopFor(S) ==
    /\ stopping' = stopping \union (running \intersect S)
    /\ state' = Cancelled(state, S)
    /\ queue' = Without(queue, S)
    /\ UNCHANGED <<running, paused, mode>>

DrainStart ==
    /\ mode = "up"
    /\ mode' = "draining"
    /\ UNCHANGED <<state, queue, running, paused, stopping>>

\* The process exits when its scrapers are done or the drain's deadline is over;
\* the queue lives in memory only.
Exit ==
    /\ mode = "draining"
    /\ mode' = "gone"
    /\ state' = [j \in Jobs |-> IF state[j] \in {"queued", "running"} THEN "lost" ELSE state[j]]
    /\ queue' = <<>>
    /\ running' = {}
    /\ paused' = {}
    /\ stopping' = {}

Ends == {"done", "error", "limited"}

Next ==
    \/ \E b \in Batches : Add(b)
    \/ \E j \in Jobs : SheetError(j) \/ \E how \in Ends : Finish(j, how)
    \/ \E S \in Selections : PauseFor(S) \/ ResumeFor(S) \/ StopFor(S)
    \/ DrainStart
    \/ Exit

Spec == Init /\ [][Next]_vars

\* A scrape ends by itself unless it is paused, and a stopped one ends even so
\* (waitWhilePaused); the drain has a deadline.  Nobody has to resume or stop.
Halted(j) == j \in paused \ stopping
Fairness ==
    /\ \A j \in Jobs : WF_vars(~Halted(j) /\ \E how \in Ends : Finish(j, how))
    /\ WF_vars(Exit)

FairSpec == Spec /\ Fairness

-----------------------------------------------------------------------------
(* Properties.                                                             *)

\* queue.js:177-179, "Excess jobs stay queued and start as running ones finish":
\* no call returns with a free slot while the job of an idle profile waits.
NoIdleSlot ==
    mode = "up" /\ Cardinality(running) < MaxConcurrent
        => ProfilesOf(ToSet(queue)) \subseteq ProfilesOf(running)

\* queue.js:183-185: the jobs of a profile start in the order of the queue, also
\* when cancels and cascades take jobs out of its middle.
ProfileFIFO ==
    [][\A a, b \in DOMAIN queue :
         /\ a < b
         /\ ProfileOf[queue[a]] = ProfileOf[queue[b]]
         /\ state'[queue[b]] = "running"
         => state'[queue[a]] \notin {"queued", "running"}]_vars

\* queue.js:274-291: when a scrape ends rate limited, its operator's queued jobs
\* are cancelled, and the tick of the same call starts none of them.
RateLimitCascades ==
    [][\A j, k \in Jobs :
         /\ state[j] = "running" /\ state'[j] = "limited"
         /\ UserOf[k] = UserOf[j] /\ state[k] = "queued"
         => state'[k] = "cancelled"]_vars

\* The status of a job as ProfileQueue sees it.
JobStatus == [j \in Jobs |->
    CASE state[j] = "absent" -> "new"
      [] state[j] \in {"queued", "running"} -> state[j]
      [] OTHER -> "ended"]

Abstract == INSTANCE ProfileQueue WITH status <- JobStatus

\* The in-memory queue keeps the promise of ProfileQueue, the same one as the
\* distributed queue: job-queue.js:6, "Both expose the same interface".
ImplementsProfileQueue == Abstract!Spec

\* A submitted job comes to an end, unless a paused scraper holds a slot or a
\* profile (queue.js never times a pause out).
JobsEnd ==
    \A j \in Jobs : state[j] \in {"queued", "running"} ~>
        state[j] \notin {"queued", "running"} \/ \E k \in Jobs : Halted(k)
=============================================================================
