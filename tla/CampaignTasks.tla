--------------------------- MODULE CampaignTasks ---------------------------
(***************************************************************************)
(* What happens to a cloud campaign after its invitations: the durable     *)
(* tasks of one campaign (campaign_tasks), the scheduler that claims and   *)
(* settles them in every campaign pod (campaign-scheduler.js), the         *)
(* handlers for acceptance checks, reply checks, follow-ups and accepted   *)
(* invitations (campaign-runtime.js), the introductions an acceptance      *)
(* check sends (campaign-autointro.js), and the operator's requests.       *)
(*                                                                         *)
(* Grain.  One action is one store call or one act on LinkedIn, with the   *)
(* JavaScript around it.  Exceptions: the tasks armed by                   *)
(* transitionToMonitoring are one action, the rows of the introductions    *)
(* are read with the gate before them, and the stamp and the mark of an    *)
(* introduction found in an existing thread are one action.                *)
(*                                                                         *)
(* Scope.  Mode connect_and_introduce.  Which leads an acceptance check    *)
(* recognises is Acceptance's subject, and a reply check only reads.  Time *)
(* is left open: a waiting task becomes due at any moment, and a sweep     *)
(* finds its window over or not.  The sending phase appears as the turns   *)
(* that hold accounts and as the pass that ends it.                        *)
(***************************************************************************)
EXTENDS Integers, FiniteSets

CONSTANTS
    Pods,              \* campaign-worker pods: one scheduler each
    Accounts,          \* every account the campaign's sheet names
    CampaignAccounts,  \* profile_ids
    Primary,           \* the account the primary runs on: sends follow-ups, accepts
    Leads,
    AccountOf,         \* lead -> the campaign account that invited it
    FollowUps,         \* followUpEnabled
    TracksReplies,     \* a reply check is armed (every mode that sends a message)
    AutoAccept,        \* autoAcceptPrimary
    OthersActive,      \* other campaigns keep the deployment from scaling to zero
    SlowFollowUps,     \* the handler of one task may outlast its claim (10 min)
    MaxLapses,         \* bound: locks that lapse under a handler, per account
    MaxOps,            \* bound: requests of the operator
    MaxTurns,          \* bound: turns that take an account
    MaxFaults,         \* bound: killed pods and failed writes
    MaxEvents,         \* bound: requests, turns, faults and lapsed accounts together
    NoPod, NoAccount, NoLead, NoTask, Frontend

ASSUME AccountsAssumption ==
    /\ CampaignAccounts \subseteq Accounts
    /\ Primary \in Accounts
    /\ AccountOf \in [Leads -> CampaignAccounts]
ASSUME NonesAssumption ==
    /\ NoPod \notin Pods /\ Frontend \notin Pods \union {NoPod}
    /\ NoAccount \notin Accounts /\ NoLead \notin Leads
ASSUME FlagsAssumption ==
    /\ FollowUps \in BOOLEAN /\ TracksReplies \in BOOLEAN /\ AutoAccept \in BOOLEAN
    /\ OthersActive \in BOOLEAN /\ SlowFollowUps \in BOOLEAN
ASSUME BoundsAssumption ==
    /\ MaxOps \in Nat /\ MaxTurns \in Nat /\ MaxFaults \in Nat /\ MaxEvents \in Nat
    /\ MaxLapses \in Nat
ASSUME PodsAssumption == IsFiniteSet(Pods)

VARIABLES
    status,    \* campaigns.status
    auto,      \* campaigns.auto_checks_enabled
    ending,    \* who is between the two halves of transitionToMonitoring
    row,       \* campaign_tasks: the state of each task's row
    scope,     \* the monitor task's payload: its own accounts, or all the sheet names
    lock,      \* sn:proflock:<account>
    up,        \* the pods that run
    turn,      \* the account a worker's turn drives, per pod
    job,       \* the handler a pod's scheduler runs
    primary,   \* campaign_primary_conn, per account
    stage,     \* a lead's progress: LinkedIn's, then leads.* as stamped
    marked,    \* cmp:sent:<campaign>:<action>, the durable marks
    intros,    \* LinkedIn: introductions a lead got
    fus,       \* LinkedIn: follow-ups a lead got
    late,      \* history: acceptance checks begun since the campaign was stopped
    revived,   \* history: requests that revived the monitor task
    lapses,    \* history: locks of an account that lapsed under a working handler
    ops, turns, faults  \* bounds

campVars == <<status, auto, ending>>
taskVars == <<row, scope>>
leadVars == <<primary, stage, marked, intros, fus>>
histVars == <<late, revived, lapses>>
bounds   == <<ops, turns, faults>>
vars     == <<campVars, taskVars, lock, up, turn, job, leadVars, histVars, bounds>>

Monitor    == <<"monitor", NoTask>>
Reply      == <<"reply", NoTask>>
Accept(a)  == <<"accept", a>>
Follow(l)  == <<"follow_up", l>>
Reapable   == {Accept(a) : a \in CampaignAccounts} \union {Follow(l) : l \in Leads}
Tasks      == {Monitor, Reply} \union Reapable

\* Holding: the steps between acquireAccount and releaseAccount.
Holding == {"check", "gate", "pick", "send", "stamp", "note", "queue", "act", "close"}
PCs     == Holding \union {"idle", "begin", "next", "tail", "expire", "guard", "take", "mark", "settle"}

Idle == [pc |-> "idle", task |-> <<NoTask, NoTask>>, todo |-> {}, acct |-> NoAccount,
         work |-> {}, lead |-> NoLead, wide |-> FALSE, res |-> "done"]

TypeOK ==
    /\ status \in {"running", "monitoring", "paused", "cancelled", "done"}
    /\ auto \in BOOLEAN
    /\ ending \in Pods \union {Frontend, NoPod}
    /\ row \in [Tasks -> {"none", "waiting", "due", "claimed", "overdue", "done", "error"}]
    /\ scope \in {"campaign", "all"}
    /\ lock \in [Accounts -> Pods \union {NoPod}]
    /\ up \in [Pods -> BOOLEAN]
    /\ turn \in [Pods -> Accounts \union {NoAccount}]
    /\ job \in [Pods -> [pc: PCs, task: Tasks \union {<<NoTask, NoTask>>},
                          todo: SUBSET Accounts, acct: Accounts \union {NoAccount},
                          work: SUBSET Leads, lead: Leads \union {NoLead}, wide: BOOLEAN,
                          res: {"done", "error", "waiting"}]]
    /\ primary \in [CampaignAccounts -> {"unread", "invited", "connected"}]
    /\ stage \in [Leads -> {"invited", "accepted", "stamped", "introduced", "closed"}]
    /\ marked \subseteq {"intro", "follow_up"} \X Leads
    /\ intros \in [Leads -> Nat] /\ fus \in [Leads -> Nat]
    /\ late \in Nat /\ revived \in 0 .. MaxOps /\ lapses \in [Accounts -> Nat]
    /\ ops \in 0 .. MaxOps /\ turns \in 0 .. MaxTurns /\ faults \in 0 .. MaxFaults

Init ==
    /\ status = "running"
    /\ auto = TRUE
    /\ ending = NoPod
    /\ row = [t \in Tasks |-> "none"]
    /\ scope = "campaign"
    /\ lock = [a \in Accounts |-> NoPod]
    /\ up = [p \in Pods |-> TRUE]
    /\ turn = [p \in Pods |-> NoAccount]
    /\ job = [p \in Pods |-> Idle]
    /\ primary = [a \in CampaignAccounts |-> "unread"]
    /\ stage = [l \in Leads |-> "invited"]
    /\ marked = {}
    /\ intros = [l \in Leads |-> 0]
    /\ fus = [l \in Leads |-> 0]
    /\ late = 0 /\ revived = 0 /\ lapses = [a \in Accounts |-> 0]
    /\ ops = 0 /\ turns = 0 /\ faults = 0

-----------------------------------------------------------------------------
(* The end of sending, and the operator.                                   *)

Lapsed    == {a \in Accounts : lapses[a] > 0}
MayHappen == ops + turns + faults + Cardinality(Lapsed) < MaxEvents
Operate   == MayHappen /\ ops < MaxOps /\ ops' = ops + 1
Fault     == MayHappen /\ faults < MaxFaults /\ faults' = faults + 1

\* createTask with a dedupe key: ON CONFLICT DO NOTHING.
CreateTasks(ts) ==
    row' = [t \in Tasks |-> IF t \in ts /\ row[t] = "none" THEN "waiting" ELSE row[t]]

\* armMonitorTask: creates the row or revives it, whoever has claimed it.
ArmMonitor(state, accounts) ==
    /\ row' = [row EXCEPT ![Monitor] = state]
    /\ scope' = accounts
    /\ revived' = revived + 1

\* transitionToMonitoring: the tasks and the switch first, the status after them.
ArmTransition(who) ==
    /\ ending = NoPod
    /\ ending' = who
    /\ auto' = TRUE
    /\ CreateTasks(IF TracksReplies THEN {Monitor, Reply} ELSE {Monitor})
    /\ UNCHANGED <<status, scope, lock, up, turn, job, leadVars, histVars, turns, faults>>

PassEnds(p) ==
    /\ up[p]
    /\ status = "running"
    /\ ArmTransition(p)
    /\ UNCHANGED ops

\* stop?keepMonitoring=1
KeepMonitoring ==
    /\ Operate
    /\ ArmTransition(Frontend)

FinishTransition ==
    /\ ending # NoPod
    /\ ending' = NoPod
    /\ status' = "monitoring"
    /\ UNCHANGED <<auto, taskVars, lock, up, turn, job, leadVars, histVars, bounds>>

\* stop and stop?pause=1
Stop ==
    /\ Operate
    /\ status' \in {"cancelled", "paused"}
    /\ late' = 0
    /\ UNCHANGED <<auto, ending, taskVars, lock, up, turn, job, leadVars, revived, lapses, turns, faults>>

\* resume acts on a paused campaign, restart on any that neither runs nor monitors.
Resume ==
    /\ Operate
    /\ status \in {"paused", "cancelled", "done"}
    /\ status' = "running"
    /\ UNCHANGED <<auto, ending, taskVars, lock, up, turn, job, leadVars, histVars, turns, faults>>

CheckNow ==
    /\ Operate
    /\ status \in {"monitoring", "running", "cancelled"}
    /\ \E accounts \in {"campaign", "all"} : ArmMonitor("due", accounts)
    /\ UNCHANGED <<campVars, lock, up, turn, job, leadVars, late, lapses, turns, faults>>

AutoChecks(enabled) ==
    /\ Operate
    /\ auto' = enabled
    /\ IF enabled /\ status = "monitoring"
       THEN ArmMonitor("waiting", "campaign")
       ELSE UNCHANGED <<taskVars, revived>>
    /\ UNCHANGED <<status, ending, lock, up, turn, job, leadVars, late, lapses, turns, faults>>

-----------------------------------------------------------------------------
(* The scheduler of a pod.                                                 *)

Step(p, to) == job' = [job EXCEPT ![p].pc = to]
Finish(p, result) == job' = [job EXCEPT ![p] = [Idle EXCEPT !.pc = "settle", !.task = job[p].task,
                                                            !.res = result]]

\* Its time has come.
BecomeDue(t) ==
    /\ row[t] = "waiting"
    /\ row' = [row EXCEPT ![t] = "due"]
    /\ UNCHANGED <<campVars, scope, lock, up, turn, job, leadVars, histVars, bounds>>

ClaimNextDueTask(p, t) ==
    /\ up[p]
    /\ job[p].pc = "idle"
    /\ row[t] = "due"
    /\ row' = [row EXCEPT ![t] = "claimed"]
    /\ job' = [job EXCEPT ![p] = [Idle EXCEPT
           !.task = t,
           !.pc = CASE t[1] \in {"monitor", "reply"} -> "begin"
                    [] t[1] = "follow_up" -> "guard"
                    [] t[1] = "accept" -> "take",
           !.lead = IF t[1] = "follow_up" THEN t[2] ELSE NoLead,
           !.wide = t = Monitor /\ scope = "all"]]
    /\ UNCHANGED <<campVars, scope, lock, up, turn, leadVars, histVars, bounds>>

\* markTask or rescheduleTask: by id, whatever became of the claim.
Settle(p) ==
    /\ job[p].pc = "settle"
    /\ row' = [row EXCEPT ![job[p].task] = job[p].res]
    /\ job' = [job EXCEPT ![p] = Idle]
    /\ UNCHANGED <<campVars, scope, lock, up, turn, leadVars, histVars, bounds>>

Running(t) == \E p \in Pods : job[p].task = t

\* Ten minutes have passed since the claim.
ClaimAges(t) ==
    /\ row[t] = "claimed"
    /\ SlowFollowUps \/ ~Running(t)
    /\ row' = [row EXCEPT ![t] = "overdue"]
    /\ UNCHANGED <<campVars, scope, lock, up, turn, job, leadVars, histVars, bounds>>

\* Mutant: the age of the claim is not asked for.
ReapOrphanedTasks_AnyClaim(p) ==
    /\ up[p]
    /\ job[p].pc = "idle"
    /\ \E t \in Reapable : row[t] \in {"claimed", "overdue"}
    /\ row' = [t \in Tasks |-> IF t \in Reapable /\ row[t] \in {"claimed", "overdue"} THEN "due" ELSE row[t]]
    /\ UNCHANGED <<campVars, scope, lock, up, turn, job, leadVars, histVars, bounds>>

\* Mutant: follow-ups are not among the reaped types.
ReapOrphanedTasks_AcceptOnly(p) ==
    /\ up[p]
    /\ job[p].pc = "idle"
    /\ \E t \in Reapable : t[1] = "accept" /\ row[t] = "overdue"
    /\ row' = [t \in Tasks |-> IF t \in Reapable /\ t[1] = "accept" /\ row[t] = "overdue" THEN "due" ELSE row[t]]
    /\ UNCHANGED <<campVars, scope, lock, up, turn, job, leadVars, histVars, bounds>>

ReapOrphanedTasks(p) ==
    /\ up[p]
    /\ job[p].pc = "idle"
    /\ \E t \in Reapable : row[t] = "overdue"
    /\ row' = [t \in Tasks |-> IF t \in Reapable /\ row[t] = "overdue" THEN "due" ELSE row[t]]
    /\ UNCHANGED <<campVars, scope, lock, up, turn, job, leadVars, histVars, bounds>>

-----------------------------------------------------------------------------
(* The acceptance check: handleMonitor, runAutoIntros.                     *)

BeginMonitor(p) ==
    /\ job[p].pc = "begin" /\ job[p].task = Monitor
    /\ IF status \in {"paused", "done"}
       THEN Finish(p, "done") /\ UNCHANGED late
       ELSE /\ job' = [job EXCEPT ![p].pc = "next",
                   ![p].todo = IF job[p].wide THEN Accounts ELSE CampaignAccounts]
            /\ late' = IF status = "cancelled" THEN late + 1 ELSE late
    /\ UNCHANGED <<campVars, taskVars, lock, up, turn, leadVars, revived, lapses, bounds>>

\* Mutant: the account is swept whether its lock was taken or not.
NextAccount_NoLock(p, a) ==
    /\ job[p].pc = "next"
    /\ a \in job[p].todo
    /\ IF TRUE
       THEN /\ lock' = [lock EXCEPT ![a] = p]
            /\ job' = [job EXCEPT ![p].pc = IF job[p].task = Monitor THEN "check" ELSE "close",
                                  ![p].todo = @ \ {a}, ![p].acct = a]
       ELSE /\ job' = [job EXCEPT ![p].todo = @ \ {a}]
            /\ UNCHANGED lock
    /\ UNCHANGED <<campVars, taskVars, up, turn, leadVars, histVars, bounds>>

\* An account somebody works on is left to the next sweep.
NextAccount(p, a) ==
    /\ job[p].pc = "next"
    /\ a \in job[p].todo
    /\ IF lock[a] = NoPod
       THEN /\ lock' = [lock EXCEPT ![a] = p]
            /\ job' = [job EXCEPT ![p].pc = IF job[p].task = Monitor THEN "check" ELSE "close",
                                  ![p].todo = @ \ {a}, ![p].acct = a]
       ELSE /\ job' = [job EXCEPT ![p].todo = @ \ {a}]
            /\ UNCHANGED lock
    /\ UNCHANGED <<campVars, taskVars, up, turn, leadVars, histVars, bounds>>

NoAccountLeft(p) ==
    /\ job[p].pc = "next"
    /\ job[p].todo = {}
    /\ Step(p, "tail")
    /\ UNCHANGED <<campVars, taskVars, lock, up, turn, leadVars, histVars, bounds>>

\* Stamps who accepted; work is these and the accepted of earlier sweeps whose slot is open.
RunBulkCheck(p) ==
    LET a == job[p].acct
        accepted == {l \in Leads : AccountOf[l] = a /\ stage[l] = "accepted"}
        open     == {l \in Leads : AccountOf[l] = a /\ stage[l] \in {"accepted", "stamped"}}
    IN
    /\ job[p].pc = "check"
    /\ stage' = [l \in Leads |-> IF l \in accepted THEN "stamped" ELSE stage[l]]
    /\ job' = [job EXCEPT ![p].pc = IF open = {} THEN "close" ELSE "gate", ![p].work = open]
    /\ UNCHANGED <<campVars, taskVars, lock, up, turn, primary, marked, intros, fus, histVars, bounds>>

\* No session, no connections read, or a throw before the introductions.
CheckFails(p) ==
    /\ job[p].pc = "check"
    /\ Step(p, "close")
    /\ UNCHANGED <<campVars, taskVars, lock, up, turn, leadVars, histVars, bounds>>

\* The account must be connected to the primary; a failure of this check is no obstacle.
\* Then the rows are read once: later steps see the slots as they were here.
PrimaryGate(p) ==
    LET a == job[p].acct IN
    /\ job[p].pc = "gate"
    /\ \/ /\ job' = [job EXCEPT ![p].pc = "pick",
                              ![p].work = {l \in @ : stage[l] \in {"accepted", "stamped"}}]
          /\ primary' \in IF primary[a] = "connected" THEN {primary}
                         ELSE {primary, [primary EXCEPT ![a] = "connected"]}
          /\ UNCHANGED row
       \/ /\ primary[a] # "connected"
          /\ primary' = [primary EXCEPT ![a] = "invited"]
          /\ IF primary[a] = "unread" /\ AutoAccept
             THEN CreateTasks({Accept(a)}) ELSE UNCHANGED row
          /\ job' = [job EXCEPT ![p].pc = "close", ![p].work = {}]
    /\ UNCHANGED <<campVars, scope, lock, up, turn, stage, marked, intros, fus, histVars, bounds>>

\* Of the lead's present state only the durable mark is asked for.
PickLead(p, l) ==
    /\ job[p].pc = "pick"
    /\ l \in job[p].work
    /\ IF <<"intro", l>> \in marked
       THEN job' = [job EXCEPT ![p].work = @ \ {l}]
       ELSE job' = [job EXCEPT ![p].pc = "send", ![p].work = @ \ {l}, ![p].lead = l]
    /\ UNCHANGED <<campVars, taskVars, lock, up, turn, leadVars, histVars, bounds>>

NoLeadLeft(p) ==
    /\ job[p].pc = "pick"
    /\ job[p].work = {}
    /\ Step(p, "close")
    /\ UNCHANGED <<campVars, taskVars, lock, up, turn, leadVars, histVars, bounds>>

SendIntro(p) ==
    /\ job[p].pc = "send"
    /\ intros' = [intros EXCEPT ![job[p].lead] = @ + 1]
    /\ Step(p, "stamp")
    /\ UNCHANGED <<campVars, taskVars, lock, up, turn, primary, stage, marked, fus, histVars, bounds>>

\* The lead's slot takes the failure, whatever it holds by now.
SendFails(p) ==
    /\ job[p].pc = "send"
    /\ stage' = [stage EXCEPT ![job[p].lead] = "closed"]
    /\ job' = [job EXCEPT ![p].pc = "pick", ![p].lead = NoLead]
    /\ UNCHANGED <<campVars, taskVars, lock, up, turn, primary, marked, intros, fus, histVars, bounds>>

\* The thread exists: stamped and marked like a send, and no follow-up.
AlreadyMade(p) ==
    LET l == job[p].lead IN
    /\ job[p].pc = "send"
    /\ intros[l] > 0
    /\ stage' = [stage EXCEPT ![l] = "introduced"]
    /\ marked' = marked \union {<<"intro", l>>}
    /\ job' = [job EXCEPT ![p].pc = "pick", ![p].lead = NoLead]
    /\ UNCHANGED <<campVars, taskVars, lock, up, turn, primary, intros, fus, histVars, bounds>>

\* The browser is gone: the lead in hand and all that were to follow are skipped, by their
\* slots as they were read.
BrowserDies(p) ==
    /\ job[p].pc \in {"pick", "send"}
    /\ stage' = [l \in Leads |-> IF l \in job[p].work \union {job[p].lead} THEN "closed" ELSE stage[l]]
    /\ job' = [job EXCEPT ![p].pc = "close", ![p].lead = NoLead, ![p].work = {}]
    /\ UNCHANGED <<campVars, taskVars, lock, up, turn, primary, marked, intros, fus, histVars, bounds>>

StampIntro(p) ==
    /\ job[p].pc = "stamp"
    /\ stage' = [stage EXCEPT ![job[p].lead] = "introduced"]
    /\ Step(p, "note")
    /\ UNCHANGED <<campVars, taskVars, lock, up, turn, primary, marked, intros, fus, histVars, bounds>>

MarkIntro(p) ==
    /\ job[p].pc = "note"
    /\ marked' = marked \union {<<"intro", job[p].lead>>}
    /\ IF FollowUps THEN Step(p, "queue")
       ELSE job' = [job EXCEPT ![p].pc = "pick", ![p].lead = NoLead]
    /\ UNCHANGED <<campVars, taskVars, lock, up, turn, primary, stage, intros, fus, histVars, bounds>>

\* A store call throws: what it should have kept is lost, and the account is left.
StoreFails(p) ==
    /\ Fault
    /\ job[p].pc \in {"stamp", "note", "queue"}
    /\ job' = [job EXCEPT ![p].pc = "close", ![p].lead = NoLead, ![p].work = {}]
    /\ UNCHANGED <<campVars, taskVars, lock, up, turn, leadVars, histVars, ops, turns>>

QueueFollowUp(p) ==
    /\ job[p].pc = "queue"
    /\ CreateTasks({Follow(job[p].lead)})
    /\ job' = [job EXCEPT ![p].pc = "pick", ![p].lead = NoLead]
    /\ UNCHANGED <<campVars, scope, lock, up, turn, leadVars, histVars, bounds>>

\* The finally block; releaseAccount compares the lock with the pod, not the claim.
Close(p) ==
    LET a == job[p].acct IN
    /\ job[p].pc = "close"
    /\ lock' = IF lock[a] = p THEN [lock EXCEPT ![a] = NoPod] ELSE lock
    /\ CASE job[p].task \in {Monitor, Reply} ->
                job' = [job EXCEPT ![p].pc = "next", ![p].acct = NoAccount]
         [] job[p].task[1] = "follow_up" /\ job[p].res = "done" ->
                job' = [job EXCEPT ![p].pc = "mark", ![p].acct = NoAccount]
         [] OTHER -> Finish(p, job[p].res)
    /\ UNCHANGED <<campVars, taskVars, up, turn, leadVars, histVars, bounds>>

\* Mutant: a stopped campaign is rescheduled like a monitored one.
MonitorTail_NoOneShot(p) ==
    /\ job[p].pc = "tail" /\ job[p].task = Monitor
    /\ IF status = "running" THEN Finish(p, "done")
       ELSE \E expired \in BOOLEAN :
              IF expired THEN Step(p, "expire")
              ELSE Finish(p, IF auto THEN "waiting" ELSE "done")
    /\ scope' = IF job'[p].res = "waiting" /\ job[p].wide THEN "campaign" ELSE scope
    /\ UNCHANGED <<campVars, row, lock, up, turn, leadVars, histVars, bounds>>

\* A sweep of a running or stopped campaign is a one-shot; the status is read again.
MonitorTail(p) ==
    /\ job[p].pc = "tail" /\ job[p].task = Monitor
    /\ IF status \in {"running", "cancelled"} THEN Finish(p, "done")
       ELSE \E expired \in BOOLEAN :
              IF expired THEN Step(p, "expire")
              ELSE Finish(p, IF auto THEN "waiting" ELSE "done")
    /\ scope' = IF job'[p].res = "waiting" /\ job[p].wide THEN "campaign" ELSE scope
    /\ UNCHANGED <<campVars, row, lock, up, turn, leadVars, histVars, bounds>>

ExpireMonitoring(p) ==
    /\ job[p].pc = "expire"
    /\ status' = "done"
    /\ Finish(p, "done")
    /\ UNCHANGED <<auto, ending, taskVars, lock, up, turn, leadVars, histVars, bounds>>

-----------------------------------------------------------------------------
(* The reply check, the follow-up and the accepted invitation.             *)

BeginReply(p) ==
    /\ job[p].pc = "begin" /\ job[p].task = Reply
    /\ IF status \in {"paused", "cancelled"} THEN Finish(p, "done")
       ELSE job' = [job EXCEPT ![p].pc = "next", ![p].todo = CampaignAccounts]
    /\ UNCHANGED <<campVars, taskVars, lock, up, turn, leadVars, histVars, bounds>>

ReplyTail(p) ==
    /\ job[p].pc = "tail" /\ job[p].task = Reply
    /\ \E over \in BOOLEAN : Finish(p, IF over THEN "done" ELSE "waiting")
    /\ UNCHANGED <<campVars, taskVars, lock, up, turn, leadVars, histVars, bounds>>

WasActionSent(p) ==
    /\ job[p].pc = "guard"
    /\ IF <<"follow_up", job[p].lead>> \in marked THEN Finish(p, "done") ELSE Step(p, "take")
    /\ UNCHANGED <<campVars, taskVars, lock, up, turn, leadVars, histVars, bounds>>

\* Mutant: the session is opened whether the lock was taken or not.
TakePrimary_NoLock(p) ==
    /\ job[p].pc = "take"
    /\ IF TRUE
       THEN /\ lock' = [lock EXCEPT ![Primary] = p]
            /\ job' = [job EXCEPT ![p].pc = "act", ![p].acct = Primary]
       ELSE Finish(p, "waiting") /\ UNCHANGED lock
    /\ UNCHANGED <<campVars, taskVars, up, turn, leadVars, histVars, bounds>>

\* withAccountSession on the primary's account; a busy one is tried again later.
TakePrimary(p) ==
    /\ job[p].pc = "take"
    /\ IF lock[Primary] = NoPod
       THEN /\ lock' = [lock EXCEPT ![Primary] = p]
            /\ job' = [job EXCEPT ![p].pc = "act", ![p].acct = Primary]
       ELSE Finish(p, "waiting") /\ UNCHANGED lock
    /\ UNCHANGED <<campVars, taskVars, up, turn, leadVars, histVars, bounds>>

Act(p) ==
    /\ job[p].pc = "act"
    /\ fus' = IF job[p].lead = NoLead THEN fus ELSE [fus EXCEPT ![job[p].lead] = @ + 1]
    /\ Step(p, "close")
    /\ UNCHANGED <<campVars, taskVars, lock, up, turn, primary, stage, marked, intros, histVars, bounds>>

ActFails(p) ==
    /\ job[p].pc = "act"
    /\ job' = [job EXCEPT ![p].pc = "close", ![p].res = "error"]
    /\ UNCHANGED <<campVars, taskVars, lock, up, turn, leadVars, histVars, bounds>>

MarkFollowUp(p) ==
    /\ job[p].pc = "mark"
    /\ marked' = marked \union {<<"follow_up", job[p].lead>>}
    /\ Finish(p, "done")
    /\ UNCHANGED <<campVars, taskVars, lock, up, turn, primary, stage, intros, fus, histVars, bounds>>

-----------------------------------------------------------------------------
(* The rest of the world.                                                  *)

\* LinkedIn: the lead accepts the invitation.
AcceptsInvitation(l) ==
    /\ stage[l] = "invited"
    /\ stage' = [stage EXCEPT ![l] = "accepted"]
    /\ UNCHANGED <<campVars, taskVars, lock, up, turn, job, primary, marked, intros, fus, histVars, bounds>>

\* A turn of this campaign or another, or a scrape, on the account; it renews the lock.
TurnTakes(p, a) ==
    /\ MayHappen /\ turns < MaxTurns
    /\ turns' = turns + 1
    /\ up[p]
    /\ turn[p] = NoAccount
    /\ lock[a] = NoPod
    /\ lock' = [lock EXCEPT ![a] = p]
    /\ turn' = [turn EXCEPT ![p] = a]
    /\ UNCHANGED <<campVars, taskVars, up, job, leadVars, histVars, ops, faults>>

TurnLeaves(p) ==
    LET a == turn[p] IN
    /\ a # NoAccount
    /\ lock' = IF lock[a] = p THEN [lock EXCEPT ![a] = NoPod] ELSE lock
    /\ turn' = [turn EXCEPT ![p] = NoAccount]
    /\ UNCHANGED <<campVars, taskVars, up, job, leadVars, histVars, bounds>>

\* Who drives an account in a browser.
Handlers(a) == {p \in Pods : job[p].acct = a}
Turns(a)    == {p \in Pods : turn[p] = a}

\* 120 s after its holder is gone; a turn renews its lock, a handler does not.
LockExpires(a) ==
    /\ lock[a] # NoPod
    /\ lock[a] \notin Turns(a) \union Handlers(a)
    /\ lock' = [lock EXCEPT ![a] = NoPod]
    /\ UNCHANGED <<campVars, taskVars, up, turn, job, leadVars, histVars, bounds>>

\* 120 s, and the handler that took the lock still works on the account.
LockLapses(a) ==
    /\ MayHappen /\ lapses[a] < MaxLapses
    /\ lock[a] \in Handlers(a) \ Turns(a)
    /\ lock' = [lock EXCEPT ![a] = NoPod]
    /\ lapses' = [lapses EXCEPT ![a] = @ + 1]
    /\ UNCHANGED <<campVars, taskVars, up, turn, job, leadVars, late, revived, bounds>>

PodStops(p) ==
    /\ up[p]
    /\ up' = [up EXCEPT ![p] = FALSE]
    /\ job' = [job EXCEPT ![p] = Idle]
    /\ turn' = [turn EXCEPT ![p] = NoAccount]
    /\ ending' = IF ending = p THEN NoPod ELSE ending
    /\ UNCHANGED <<status, auto, taskVars, lock, leadVars, histVars, ops, turns>>

Kill(p) == Fault /\ PodStops(p)

\* The scaler counts queued, running and monitoring campaigns; no minimum of pods.
NeedsPods == OthersActive \/ status \in {"running", "monitoring"}

ScaleDown(p) ==
    /\ ~NeedsPods
    /\ job[p] = Idle /\ turn[p] = NoAccount
    /\ PodStops(p)
    /\ UNCHANGED faults

PodStarts(p) ==
    /\ ~up[p]
    /\ NeedsPods
    /\ up' = [up EXCEPT ![p] = TRUE]
    /\ UNCHANGED <<campVars, taskVars, lock, turn, job, leadVars, histVars, bounds>>

-----------------------------------------------------------------------------
Scheduler(p) ==
    \/ \E t \in Tasks : ClaimNextDueTask(p, t)
    \/ ReapOrphanedTasks(p) \/ Settle(p)

Handler(p) ==
    \/ BeginMonitor(p) \/ NoAccountLeft(p) \/ RunBulkCheck(p) \/ CheckFails(p) \/ PrimaryGate(p)
    \/ \E a \in Accounts : NextAccount(p, a)
    \/ \E l \in Leads : PickLead(p, l)
    \/ NoLeadLeft(p) \/ SendIntro(p) \/ SendFails(p) \/ AlreadyMade(p) \/ BrowserDies(p)
    \/ StampIntro(p) \/ MarkIntro(p) \/ QueueFollowUp(p) \/ Close(p) \/ MonitorTail(p) \/ ExpireMonitoring(p)
    \/ BeginReply(p) \/ ReplyTail(p)
    \/ WasActionSent(p) \/ TakePrimary(p) \/ Act(p) \/ ActFails(p) \/ MarkFollowUp(p)

Operator ==
    \/ KeepMonitoring \/ Stop \/ Resume \/ CheckNow
    \/ \E enabled \in BOOLEAN : AutoChecks(enabled)

World ==
    \/ \E l \in Leads : AcceptsInvitation(l)
    \/ \E t \in Tasks : BecomeDue(t) \/ ClaimAges(t)
    \/ \E a \in Accounts : LockExpires(a) \/ LockLapses(a)
    \/ \E p \in Pods : \/ Kill(p) \/ ScaleDown(p) \/ PodStarts(p) \/ StoreFails(p)
                       \/ TurnLeaves(p) \/ \E a \in Accounts : TurnTakes(p, a)

Next ==
    \/ \E p \in Pods : Scheduler(p) \/ Handler(p) \/ PassEnds(p)
    \/ FinishTransition
    \/ Operator
    \/ World

Spec == Init /\ [][Next]_vars

\* Timers fire, started JavaScript goes on, every tick reaps first and then claims the
\* tasks in the order they came due, and Kubernetes starts a pod that is wanted.
Fairness ==
    /\ \A t \in Tasks : WF_vars(BecomeDue(t)) /\ WF_vars(ClaimAges(t))
    /\ \A a \in Accounts : WF_vars(LockExpires(a))
    /\ \A p \in Pods :
         /\ WF_vars(Handler(p)) /\ WF_vars(Settle(p)) /\ WF_vars(TurnLeaves(p))
         /\ WF_vars(PodStarts(p))
         /\ SF_vars(ReapOrphanedTasks(p))
         /\ \A t \in Tasks : SF_vars(ClaimNextDueTask(p, t))

FairSpec == Spec /\ Fairness

-----------------------------------------------------------------------------
(* Properties.                                                             *)

\* At most one turn or handler, of any pod, drives an account, and one more for each lock
\* of the account that lapsed under a handler at work: a lapse lets in one newcomer, and
\* neither the release by a handler that no longer owns the lock, nor a pod that dies with
\* its lock, lets in another.
AccountExclusive ==
    \A a \in Accounts : Cardinality(Handlers(a)) + Cardinality(Turns(a)) <= 1 + lapses[a]

\* Sweeps that overlap, because check-now revives a claimed task and a lock lapsed, or
\* that follow one another introduce a lead once, and once more for each killed pod and
\* failed write and for each lapse of the lead's account.
IntroBudget == \A l \in Leads : intros[l] <= 1 + faults + lapses[AccountOf[l]]

\* A follow-up is sent once, and once more for each crash between the message and its
\* mark: a task is reaped only when nobody works on it.
FollowUpBudget == \A l \in Leads : fus[l] <= 1 + faults

\* Checking goes on at most once for a stopped campaign: the waiting task is the last,
\* unless check-now or the switch of automatic checks revives it.
OneSweepAfterStop == late <= 1 + revived

\* A follow-up or an accept task that exists is finished, although its pod dies with it.
TasksFinish == \A t \in Reapable : row[t] # "none" ~> row[t] \in {"done", "error"}

=============================================================================
