---------------------------- MODULE DesktopSend -----------------------------
(* The send loop of the desktop app (startCampaign) in the connect modes:  *)
(* workers take turns with the accounts of a queue, a turn opens a browser *)
(* in one of the slots and works off a batch of leads, and results go to   *)
(* state.json and, by way of an outbox on disk, to the sheet.              *)
(*                                                                         *)
(* Grain.  The code runs in one process; a step is what it does between    *)
(* two awaits that matter to the others.  An account cools down between    *)
(* its turns for as long as TLC likes, and so the queue is a set.          *)
(*                                                                         *)
(* Scope.  One campaign, its rows in one sheet, one day.  A run replaced   *)
(* by restoreCampaign, rows reloaded on resume, accounts added or removed, *)
(* the checks of acceptances and the pauses between leads are left out, as *)
(* are a browser that outlives the close of its session, an account that   *)
(* parks after a streak of skips, and one restored by the shared sheet.    *)
(***************************************************************************)
EXTENDS Integers, SequencesExt, FiniteSets

CONSTANTS
    Workers,      \* concurrency
    Accounts, Leads, NoAccount, NoLead,
    BatchSize,    \* BATCH_SIZE
    MaxRetries,   \* MAX_RETRIES
    DailyLimit,   \* dailyLimit
    MaxBrowsers,  \* MAX_CONCURRENT_PROFILES
    MaxStalls,    \* maxStalledTurns
    Borrowed,     \* a campaign may start while the follow-up runner has a browser
    MaxTrouble,   \* bound: crashes, timeouts, dead pages, early starts
    MaxOps        \* bound: what the operator does

ASSUME BoundsAssumption ==
    /\ {BatchSize, MaxRetries, DailyLimit, MaxBrowsers, MaxStalls} \subseteq Nat \ {0}
    /\ MaxTrouble \in Nat /\ MaxOps \in Nat /\ Borrowed \in BOOLEAN
    /\ NoAccount \notin Accounts /\ NoLead \notin Leads
    /\ IsFiniteSet(Workers) /\ IsFiniteSet(Leads)

VARIABLES
    run,      \* campaign.running, _abort, pause flags, leadsExhausted
    todo,     \* targets from leadIndex on
    queue,    \* profileQueue
    idle,     \* accounts that may not run: weeklyLimited, _skippedProfiles
    tally,    \* campaignSendCounts
    stalls,   \* the loop guard's count
    worker,   \* what each worker is about
    sessions, \* accounts whose browser is open
    slots,    \* browser-semaphore: _count, _max, _waiters
    borrower, \* the follow-up runner has a browser
    memory,   \* state.json: processed; other actions than these count for nothing
    outbox,   \* pending-sheet-writes.json, for each lead
    sheet,    \* Stage of each row
    invited,  \* LinkedIn: invitations, with the account they are from
    adrift,   \* sends nobody waits for that may still land
    stamped,  \* history: what was last put in the outbox for the row of a lead
    exposed,  \* history: leads in trouble: abandoned, cut off, their row not written or not in time
    trouble, ops

plan  == <<todo, queue, idle, tally, stalls>>
disk  == <<memory, outbox, stamped>>
world == <<sheet, invited, adrift>>
hist  == <<exposed, trouble, ops>>
vars  == <<run, plan, worker, sessions, slots, borrower, disk, world, hist>>

Outcomes == {"sent", "skipped"}
Results  == Outcomes \union {"pending", "left", "no-notes", "capped"}
Unknown  == [account |-> NoAccount, action |-> "none"]
Resting  == [pc |-> "off", account |-> NoAccount, lead |-> NoLead, tries |-> 0, left |-> 0,
             moved |-> FALSE, result |-> "left"]

TypeOK ==
    /\ run \in [on: BOOLEAN, abort: BOOLEAN, pause: {"no", "asked", "yes"}, exhausted: BOOLEAN]
    /\ todo \subseteq Leads /\ queue \subseteq Accounts
    /\ idle \in [parked: SUBSET Accounts, skipped: SUBSET Accounts]
    /\ tally \in [Accounts -> 0 .. DailyLimit]
    /\ stalls \in [Accounts -> 0 .. MaxStalls]
    /\ worker \in [Workers ->
         [pc: {"off", "idle", "paused", "acquire", "waiting", "launch", "turn", "send",
               "record", "stamp", "close"},
          account: Accounts \union {NoAccount}, lead: Leads \union {NoLead},
          tries: 0 .. MaxRetries, left: 0 .. BatchSize, moved: BOOLEAN, result: Results]]
    /\ sessions \subseteq Accounts
    /\ slots \in [count: 0 .. MaxBrowsers, max: 1 .. MaxBrowsers, waiting: Seq(Workers)]
    /\ borrower \in BOOLEAN
    /\ memory \in [Leads -> [account: Accounts \union {NoAccount},
                             action: {"none", "_in_progress", "sent"}]]
    /\ outbox \in [Leads -> Seq(Outcomes)]
    /\ sheet \in [Leads -> Outcomes \union {"blank"}]
    /\ stamped \in [Leads -> Outcomes \union {"blank"}]
    /\ invited \subseteq Accounts \X Leads /\ adrift \subseteq Accounts \X Leads
    /\ exposed \subseteq Leads
    /\ trouble \in 0 .. MaxTrouble /\ ops \in 0 .. MaxOps

Stopped   == [on |-> FALSE, abort |-> FALSE, pause |-> "no", exhausted |-> FALSE]
FreeSlots == [count |-> 0, max |-> MaxBrowsers, waiting |-> <<>>]
AllRun    == [parked |-> {}, skipped |-> {}]

Init ==
    /\ run = Stopped
    /\ todo = {} /\ queue = {} /\ idle = AllRun
    /\ tally = [a \in Accounts |-> 0] /\ stalls = [a \in Accounts |-> 0]
    /\ worker = [w \in Workers |-> Resting]
    /\ sessions = {} /\ slots = FreeSlots /\ borrower = FALSE
    /\ memory = [l \in Leads |-> Unknown]
    /\ outbox = [l \in Leads |-> <<>>] /\ stamped = [l \in Leads |-> "blank"]
    /\ sheet = [l \in Leads |-> "blank"]
    /\ invited = {} /\ adrift = {} /\ exposed = {}
    /\ trouble = 0 /\ ops = 0

-----------------------------------------------------------------------------
(* Helpers.                                                                *)

Trouble(leads) ==
    /\ trouble < MaxTrouble
    /\ trouble' = trouble + 1
    /\ exposed' = exposed \union leads
    /\ UNCHANGED ops

Operates ==
    /\ ops < MaxOps
    /\ ops' = ops + 1
    /\ UNCHANGED <<exposed, trouble>>

At(w, pc) == worker[w].pc = pc

\* release: the slot is free, or is the next waiter's.
Released ==
    LET free == IF slots.count > 0 THEN slots.count - 1 ELSE 0 IN
    IF slots.waiting # <<>> /\ free < slots.max
    THEN [slots EXCEPT !.count = free + 1, !.waiting = Tail(@)]
    ELSE [slots EXCEPT !.count = free]

Woken(s, w) == \E i \in DOMAIN slots.waiting : slots.waiting[i] = w
               /\ \A j \in DOMAIN s.waiting : s.waiting[j] # w

\* Who waited and got a slot goes on to launch.
WakeUp(s, ws) == [w \in Workers |-> IF Woken(s, w) THEN [ws[w] EXCEPT !.pc = "launch"] ELSE ws[w]]

BeingRun == {worker[w].account : w \in Workers} \ {NoAccount}

\* rotationAccountFinished
Finished(a, i) == a \in i.parked \union i.skipped

Capped(a) == tally[a] >= DailyLimit

-----------------------------------------------------------------------------
(* The run.                                                                *)

SentToday(a) == Cardinality({l \in Leads : memory[l] = [account |-> a, action |-> "sent"]})

\* Mutant: the counters of the day start from zero.
Seeded_Zero(a) == 0

\* The counters are seeded from what state.json remembers of the day.
Seeded(a) == IF SentToday(a) > DailyLimit THEN DailyLimit ELSE SentToday(a)

Unsynced == {l \in Leads : outbox[l] # <<>>}

\* The rows whose stage is blank; the sheet does not know what waits in the outbox.
StartCampaign ==
    LET blank == {l \in Leads : sheet[l] = "blank"} IN
    /\ ~run.on /\ ops < MaxOps /\ (borrower => Borrowed)
    /\ ops' = ops + 1
    /\ run' = [Stopped EXCEPT !.on = TRUE]
    /\ todo' = blank /\ queue' = Accounts /\ idle' = AllRun
    /\ tally' = [a \in Accounts |-> Seeded(a)]
    /\ stalls' = [a \in Accounts |-> 0]
    /\ worker' = [w \in Workers |-> [Resting EXCEPT !.pc = "idle"]]
    /\ slots' = FreeSlots
    /\ memory' = [l \in Leads |->
                    IF memory[l].action = "_in_progress" THEN Unknown ELSE memory[l]]
    /\ IF blank \intersect Unsynced = {} THEN UNCHANGED <<exposed, trouble>>
       ELSE /\ trouble < MaxTrouble /\ trouble' = trouble + 1
            /\ exposed' = exposed \union (blank \intersect Unsynced)
    /\ UNCHANGED <<sessions, borrower, outbox, stamped, world>>

\* A worker leaves when the run is over or no account of the queue will run again.
WorkerExit(w) ==
    /\ At(w, "idle")
    /\ \/ run.abort \/ run.exhausted
       \/ /\ run.pause = "no" /\ BeingRun = {}
          /\ \A a \in queue : Finished(a, idle) \/ Capped(a)
    /\ worker' = [worker EXCEPT ![w] = Resting]
    /\ UNCHANGED <<run, plan, sessions, slots, borrower, disk, world, hist>>

Finish ==
    /\ run.on /\ \A w \in Workers : At(w, "off")
    /\ run' = [run EXCEPT !.on = FALSE, !.abort = FALSE]
    /\ UNCHANGED <<plan, worker, sessions, slots, borrower, disk, world, hist>>

\* awaitUnpause
Pausing(w) ==
    /\ worker[w].pc \in {"idle", "turn"} /\ run.pause # "no" /\ ~run.abort
    /\ run' = [run EXCEPT !.pause = "yes"]
    /\ worker' = [worker EXCEPT ![w].pc = "paused"]
    /\ UNCHANGED <<plan, sessions, slots, borrower, disk, world, hist>>

\* It clears both flags, a request made since included.
Unpausing(w) ==
    /\ At(w, "paused") /\ (run.pause # "yes" \/ run.abort)
    /\ run' = [run EXCEPT !.pause = "no"]
    /\ worker' = [worker EXCEPT ![w].pc =
                    IF worker[w].account = NoAccount THEN "idle" ELSE "turn"]
    /\ UNCHANGED <<plan, sessions, slots, borrower, disk, world, hist>>

-----------------------------------------------------------------------------
(* A turn.                                                                 *)

\* pickNextProfile, once the account has cooled down; the worker sets the cap of the
\* semaphore first.
PickNextProfile(w, a) ==
    /\ At(w, "idle") /\ ~run.abort /\ ~run.exhausted /\ run.pause = "no"
    /\ a \in queue \ BeingRun
    /\ ~Finished(a, idle) /\ ~Capped(a)
    /\ queue' = queue \ {a}
    /\ worker' = [worker EXCEPT ![w] = [Resting EXCEPT !.pc = "acquire", !.account = a]]
    /\ UNCHANGED <<run, todo, idle, tally, stalls, sessions, slots, borrower, disk, world, hist>>

\* The resource monitor throttles, or no longer does.
SetMax(w, n) ==
    /\ At(w, "idle") /\ ~run.abort /\ n # slots.max /\ n \in {1, MaxBrowsers}
    /\ LET free == IF n > slots.count THEN n - slots.count ELSE 0
           grants == IF Len(slots.waiting) < free THEN Len(slots.waiting) ELSE free
           granted == [count |-> slots.count + grants, max |-> n,
                       waiting |-> SubSeq(slots.waiting, grants + 1, Len(slots.waiting))]
       IN /\ slots' = granted
          /\ worker' = WakeUp(granted, worker)
    /\ UNCHANGED <<run, plan, sessions, borrower, disk, world, hist>>

\* loopGuard.record: turns of an account, one after another, that got nowhere;
\* counted up to the number that pauses the campaign.
Recorded(w, i) ==
    LET a == worker[w].account IN
    IF worker[w].moved \/ run.abort \/ run.exhausted \/ run.pause # "no" \/ Finished(a, i)
    THEN 0 ELSE IF stalls[a] < MaxStalls THEN stalls[a] + 1 ELSE MaxStalls

\* The end of a turn: the account queues again; a worker that spins pauses the campaign.
EndTurn(w, i, ws) ==
    LET a == worker[w].account
        n == Recorded(w, i)
    IN
    /\ worker' = [ws EXCEPT ![w] = [Resting EXCEPT !.pc = "idle"]]
    /\ idle' = i
    /\ stalls' = [stalls EXCEPT ![a] = n]
    /\ run' = IF n >= MaxStalls /\ run.pause = "no" THEN [run EXCEPT !.pause = "asked"] ELSE run
    /\ queue' = IF Finished(a, i) \/ run.abort \/ run.exhausted THEN queue
                ELSE queue \union {a}
    /\ UNCHANGED <<todo, tally>>

\* The shared sheet of operations lists the account as restricted.
Restricted(w) ==
    /\ At(w, "acquire") /\ ~run.abort
    /\ EndTurn(w, [idle EXCEPT !.skipped = @ \union {worker[w].account}], worker)
    /\ UNCHANGED <<sessions, slots, borrower, disk, world, hist>>

Acquire(w) ==
    /\ At(w, "acquire") /\ ~run.abort
    /\ IF slots.count < slots.max
       THEN /\ slots' = [slots EXCEPT !.count = @ + 1]
            /\ worker' = [worker EXCEPT ![w].pc = "launch"]
       ELSE /\ slots' = [slots EXCEPT !.waiting = Append(@, w)]
            /\ worker' = [worker EXCEPT ![w].pc = "waiting"]
    /\ UNCHANGED <<run, plan, sessions, borrower, disk, world, hist>>

\* A stopped campaign opens no browser; who waits for a slot is rejected.
GiveUp(w) ==
    /\ run.abort
    /\ \/ At(w, "acquire") /\ UNCHANGED slots
       \/ /\ At(w, "waiting")
          /\ \E i \in DOMAIN slots.waiting :
                slots.waiting[i] = w /\ slots' = [slots EXCEPT !.waiting = RemoveAt(@, i)]
    /\ EndTurn(w, idle, worker)
    /\ UNCHANGED <<sessions, borrower, disk, world, hist>>

Launch(w) ==
    /\ At(w, "launch") /\ ~run.abort
    /\ sessions' = sessions \union {worker[w].account}
    /\ worker' = [worker EXCEPT ![w].pc = "turn", ![w].left = BatchSize]
    /\ UNCHANGED <<run, plan, slots, borrower, disk, world, hist>>

\* The browser does not open, or the campaign stopped meanwhile, or the
\* session has expired, which parks the account.
LaunchFails(w, i) ==
    /\ At(w, "launch")
    /\ slots' = Released
    /\ EndTurn(w, i, WakeUp(Released, worker))
    /\ UNCHANGED <<sessions, borrower, disk, world, hist>>

NotLaunched(w) ==
    \/ LaunchFails(w, idle)
    \/ LaunchFails(w, [idle EXCEPT !.parked = @ \union {worker[w].account}])

Goes(w) ==
    LET a == worker[w].account IN
    worker[w].left > 0 /\ ~run.abort /\ ~Finished(a, idle) /\ ~Capped(a)

\* Mutant: the index moves on only when the lead is done.
Taken_Later(l) == todo

Taken(l) == todo \ {l}

TakeLead(w, l) ==
    /\ At(w, "turn") /\ Goes(w) /\ run.pause = "no" /\ l \in todo
    /\ todo' = Taken(l)
    /\ memory' = [memory EXCEPT ![l] = [account |-> worker[w].account, action |-> "_in_progress"]]
    /\ worker' = [worker EXCEPT ![w].pc = "send", ![w].lead = l, ![w].tries = 1,
                                ![w].left = @ - 1, ![w].moved = TRUE]
    /\ UNCHANGED <<run, queue, idle, tally, stalls, sessions, slots, borrower, outbox, stamped,
                   world, hist>>

LeadsExhausted(w) ==
    /\ At(w, "turn") /\ Goes(w) /\ run.pause = "no" /\ todo = {}
    /\ run' = [run EXCEPT !.exhausted = TRUE]
    /\ worker' = [worker EXCEPT ![w].pc = "close"]
    /\ UNCHANGED <<plan, sessions, slots, borrower, disk, world, hist>>

TurnOver(w) ==
    /\ At(w, "turn") /\ ~Goes(w)
    /\ worker' = [worker EXCEPT ![w].pc = "close"]
    /\ UNCHANGED <<run, plan, sessions, slots, borrower, disk, world, hist>>

\* Mutant: the slot is given back although the session is gone.
CloseSession_Twice(a) ==
    /\ sessions' = sessions \ {a}
    /\ slots' = Released
    /\ adrift' = {s \in adrift : s[1] # a}

\* closeSession: the pages go, and what still ran on them.
CloseSession(a) ==
    /\ sessions' = sessions \ {a}
    /\ slots' = IF a \in sessions THEN Released ELSE slots
    /\ adrift' = {s \in adrift : s[1] # a}

Close(w) ==
    /\ At(w, "close")
    /\ CloseSession(worker[w].account)
    /\ EndTurn(w, idle, WakeUp(slots', worker))
    /\ UNCHANGED <<borrower, disk, sheet, invited, hist>>

-----------------------------------------------------------------------------
(* A lead.                                                                 *)

InHand(w) == <<worker[w].account, worker[w].lead>>

Result(w, result) == worker' = [worker EXCEPT ![w].pc = "record", ![w].result = result]

\* The page no longer answers: the session is closed, and the turn is over.
PageWedged(w) ==
    /\ At(w, "send") /\ worker[w].tries = 1
    /\ Trouble({worker[w].lead})
    /\ CloseSession(worker[w].account)
    /\ worker' = WakeUp(slots', [worker EXCEPT ![w].pc = "close", ![w].lead = NoLead])
    /\ UNCHANGED <<run, plan, borrower, disk, sheet, invited>>

\* The invitation goes out, and the profile shows it as pending.
Invite(w) ==
    /\ At(w, "send") /\ InHand(w) \notin invited
    /\ invited' = invited \union {InHand(w)}
    /\ Result(w, "sent")
    /\ UNCHANGED <<run, plan, sessions, slots, borrower, disk, sheet, adrift, hist>>

\* SEND_NOT_CONFIRMED: it goes out, but the profile does not show it in time, and the lead
\* is taken for a skip.  (If LinkedIn dropped it the lead is Refused.)
Unconfirmed(w) ==
    /\ At(w, "send") /\ InHand(w) \notin invited
    /\ invited' = invited \union {InHand(w)}
    /\ Result(w, "skipped")
    /\ UNCHANGED <<run, plan, sessions, slots, borrower, disk, sheet, adrift, hist>>

\* Nothing is sent: not this person, no note left, the week's limit, any other refusal, or
\* an invitation that is pending already, of an earlier attempt or of another day.
Refused(w, result) ==
    /\ At(w, "send")
    /\ Result(w, result)
    /\ UNCHANGED <<run, plan, sessions, slots, borrower, disk, world, hist>>

RetryOrSkip(w) ==
    IF worker[w].tries < MaxRetries /\ ~run.abort
    THEN worker' = [worker EXCEPT ![w].tries = @ + 1]
    ELSE Result(w, "skipped")

Transient(w) ==
    /\ At(w, "send")
    /\ RetryOrSkip(w)
    /\ UNCHANGED <<run, plan, sessions, slots, borrower, disk, world, hist>>

\* withWatchdog: nobody waits any more, but the send goes on.  An error of the page after
\* the click is alike: the invitation lands, and the loop does not know.
Watchdog(w) ==
    /\ At(w, "send")
    /\ Trouble({worker[w].lead})
    /\ adrift' = adrift \union {InHand(w)}
    /\ RetryOrSkip(w)
    /\ UNCHANGED <<run, plan, sessions, slots, borrower, disk, sheet, invited>>

AdriftLands(s) ==
    /\ s \in adrift
    /\ adrift' = adrift \ {s}
    /\ invited' = invited \union {s}
    /\ UNCHANGED <<run, plan, worker, sessions, slots, borrower, disk, sheet, hist>>

Parked(w) ==
    IF worker[w].result \in {"no-notes", "capped"}
    THEN [idle EXCEPT !.parked = @ \union {worker[w].account}] ELSE idle

\* state.json and the counters, before the sheet.  Only a confirmed send
\* counts: already_processed, for one, does not.
Record(w) ==
    LET a == worker[w].account
        l == worker[w].lead
        sent == worker[w].result = "sent"
    IN
    /\ At(w, "record")
    /\ memory' = [memory EXCEPT ![l] =
                    CASE sent -> [account |-> a, action |-> "sent"]
                      [] worker[w].result = "capped" -> @
                      [] OTHER -> Unknown]
    /\ tally' = IF sent /\ ~Capped(a) THEN [tally EXCEPT ![a] = @ + 1] ELSE tally
    /\ idle' = Parked(w)
    /\ worker' = [worker EXCEPT ![w].pc = "stamp"]
    /\ UNCHANGED <<run, todo, queue, stalls, sessions, slots, borrower, outbox, stamped, world,
                   hist>>

Stamps(w) == At(w, "stamp") /\ worker' = [worker EXCEPT ![w].pc = "turn", ![w].lead = NoLead,
                                                        ![w].result = "left"]

\* trackedSheetWrite: the outcome is on disk before it is sent to the sheet.  A
\* lead nobody decided on keeps its blank stage.
Stamp(w) ==
    LET l == worker[w].lead
        outcome == IF worker[w].result \in {"sent", "pending"} THEN "sent" ELSE "skipped"
    IN
    /\ Stamps(w)
    /\ IF worker[w].result \in {"left", "no-notes"} THEN UNCHANGED <<outbox, stamped>>
       ELSE /\ outbox' = [outbox EXCEPT ![l] = Append(@, outcome)]
            /\ stamped' = [stamped EXCEPT ![l] = outcome]
    /\ UNCHANGED <<run, plan, sessions, slots, borrower, memory, world, hist>>

\* The outbox cannot be saved: the error is logged, and the outcome is lost.
StampFails(w) ==
    /\ Stamps(w)
    /\ Trouble({worker[w].lead})
    /\ UNCHANGED <<run, plan, sessions, slots, borrower, disk, world>>

-----------------------------------------------------------------------------
(* The outbox.                                                             *)

\* Mutant: the newest write goes first.
NextWrite_Newest(l) ==
    [write |-> outbox[l][Len(outbox[l])], rest |-> SubSeq(outbox[l], 1, Len(outbox[l]) - 1)]

\* The writes of a row go in the order they were made.
NextWrite(l) == [write |-> Head(outbox[l]), rest |-> Tail(outbox[l])]

Flush(l) ==
    /\ outbox[l] # <<>>
    /\ sheet' = [sheet EXCEPT ![l] = NextWrite(l).write]
    /\ outbox' = [outbox EXCEPT ![l] = NextWrite(l).rest]
    /\ UNCHANGED <<run, plan, worker, sessions, slots, borrower, memory, stamped, invited,
                   adrift, hist>>

\* The answer is lost: the write stays and is made again.
FlushUnconfirmed(l) ==
    /\ outbox[l] # <<>>
    /\ Trouble({})
    /\ sheet' = [sheet EXCEPT ![l] = NextWrite(l).write]
    /\ UNCHANGED <<run, plan, worker, sessions, slots, borrower, disk, invited, adrift>>

-----------------------------------------------------------------------------
(* The operator, the runner and the process.                               *)

Stop ==
    /\ run.on /\ ~run.abort /\ Operates
    /\ run' = [run EXCEPT !.abort = TRUE, !.pause = "no"]
    /\ UNCHANGED <<plan, worker, sessions, slots, borrower, disk, world>>

Pause ==
    /\ run.on /\ run.pause = "no" /\ Operates
    /\ run' = [run EXCEPT !.pause = "asked"]
    /\ UNCHANGED <<plan, worker, sessions, slots, borrower, disk, world>>

Resume ==
    /\ run.on /\ run.pause # "no" /\ Operates
    /\ run' = [run EXCEPT !.pause = "no"]
    /\ stalls' = [a \in Accounts |-> 0]
    /\ UNCHANGED <<todo, queue, idle, tally, worker, sessions, slots, borrower, disk, world>>

\* A check by hand pauses the campaign and abandons the lead in hand.
Preempt(w) ==
    /\ run.on /\ run.pause = "no" /\ ~run.abort /\ At(w, "send")
    /\ ops < MaxOps /\ ops' = ops + 1
    /\ exposed' = exposed \union {worker[w].lead}
    /\ run' = [run EXCEPT !.pause = "asked"]
    /\ adrift' = adrift \union {InHand(w)}
    /\ worker' = [worker EXCEPT ![w].pc = "turn", ![w].lead = NoLead]
    /\ UNCHANGED <<plan, sessions, slots, borrower, disk, sheet, invited, trouble>>

Bench(a) ==
    /\ run.on /\ a \notin idle.skipped /\ Operates
    /\ idle' = [idle EXCEPT !.skipped = @ \union {a}]
    /\ UNCHANGED <<run, todo, queue, tally, stalls, worker, sessions, slots, borrower, disk, world>>

\* Mutant: the account is fit again, but in no queue.
Requeued_Not(a) == queue

\* shouldRequeue
Requeued(a) == IF a \in BeingRun THEN queue ELSE queue \union {a}

\* Back from the bench, or tried again after it was parked.
Unbench(a) ==
    /\ run.on /\ Finished(a, idle) /\ Operates
    /\ idle' = [idle EXCEPT !.skipped = @ \ {a}, !.parked = @ \ {a}]
    /\ queue' = Requeued(a)
    /\ UNCHANGED <<run, todo, tally, stalls, worker, sessions, slots, borrower, disk, world>>

RetryParked(a) ==
    /\ run.on /\ a \in idle.parked /\ Operates
    /\ idle' = [idle EXCEPT !.parked = @ \ {a}]
    /\ queue' = Requeued(a)
    /\ UNCHANGED <<run, todo, tally, stalls, worker, sessions, slots, borrower, disk, world>>

\* The follow-up runner opens a browser when nothing else runs.
Borrow ==
    /\ ~run.on /\ ~borrower /\ slots.count = 0
    /\ borrower' = TRUE
    /\ slots' = [slots EXCEPT !.count = 1]
    /\ UNCHANGED <<run, plan, worker, sessions, disk, world, hist>>

GiveBack ==
    /\ borrower
    /\ borrower' = FALSE
    /\ slots' = Released
    /\ worker' = WakeUp(Released, worker)
    /\ UNCHANGED <<run, plan, sessions, disk, world, hist>>

\* The app dies and is started again.
Crash ==
    /\ run.on
    /\ Trouble({worker[w].lead : w \in Workers} \ {NoLead})
    /\ run' = Stopped
    /\ todo' = {} /\ queue' = {} /\ idle' = AllRun
    /\ tally' = [a \in Accounts |-> 0] /\ stalls' = [a \in Accounts |-> 0]
    /\ worker' = [w \in Workers |-> Resting]
    /\ sessions' = {} /\ slots' = FreeSlots /\ borrower' = FALSE
    /\ adrift' = {}
    /\ UNCHANGED <<disk, sheet, invited>>

Worker(w) ==
    \/ WorkerExit(w) \/ Pausing(w) \/ Unpausing(w)
    \/ \E a \in Accounts : PickNextProfile(w, a)
    \/ Restricted(w) \/ Acquire(w) \/ GiveUp(w) \/ Launch(w) \/ NotLaunched(w)
    \/ \E l \in Leads : TakeLead(w, l)
    \/ LeadsExhausted(w) \/ TurnOver(w) \/ Close(w)
    \/ PageWedged(w) \/ Invite(w) \/ Unconfirmed(w) \/ Transient(w) \/ Watchdog(w)
    \/ \E result \in Results \ {"sent"} : Refused(w, result)
    \/ Record(w) \/ Stamp(w) \/ StampFails(w)

Operator ==
    \/ Stop \/ Pause \/ Resume
    \/ \E w \in Workers : Preempt(w)
    \/ \E a \in Accounts : Bench(a) \/ Unbench(a) \/ RetryParked(a)

Next ==
    \/ StartCampaign \/ Finish
    \/ \E w \in Workers : Worker(w) \/ \E n \in 1 .. MaxBrowsers : SetMax(w, n)
    \/ \E s \in Accounts \X Leads : AdriftLands(s)
    \/ \E l \in Leads : Flush(l) \/ FlushUnconfirmed(l)
    \/ Operator
    \/ Borrow \/ GiveBack \/ Crash

Spec == Init /\ [][Next]_vars

-----------------------------------------------------------------------------
(* Properties.                                                             *)

\* No two accounts invite one lead, but for leads in trouble: the workers draw
\* from one list, and over runs the sheet tells what is done.
LeadOnce ==
    \A l \in Leads \ exposed : Cardinality({a \in Accounts : <<a, l>> \in invited}) <= 1

\* Over all runs of the day the sends of an account that LinkedIn confirmed stay within
\* its limit, however runs are stopped and started: "it cumulatively caps daily activity".
\* Two kinds of invitation escape the count and are left out here: one that went out
\* unconfirmed, which the campaign stamps as a skip, and one of a lead in trouble.
DailyCap ==
    \A a \in Accounts :
        Cardinality({l \in Leads \ exposed : <<a, l>> \in invited /\ stamped[l] # "skipped"})
            <= DailyLimit

\* When the outbox of a row is empty the sheet says what was last meant for it:
\* no late, repeated or reordered write has overtaken it, a restart included.
SheetAgrees == \A l \in Leads : outbox[l] = <<>> => sheet[l] = stamped[l]

\* The semaphore counts the browsers that are open or being opened, however a
\* turn ends, a wait is given up or the limit is lowered.
SlotsMatch ==
    ~Borrowed =>
        slots.count = Cardinality(sessions) + Cardinality({w \in Workers : At(w, "launch")})
                      + (IF borrower THEN 1 ELSE 0)

\* While a campaign runs and has leads no account gets lost: it is queued, at
\* work, parked or benched.
NoAccountLost ==
    run.on /\ ~run.abort /\ ~run.exhausted =>
        Accounts = queue \union BeingRun \union idle.parked \union idle.skipped
=============================================================================
