---------------------------- MODULE CampaignSend ----------------------------
(***************************************************************************)
(* The sending phase of the cloud campaigns: a pass of processCampaign     *)
(* (campaign-runtime.js) runs turns of CampaignWorker (campaign-worker.js) *)
(* over the shared store (campaign-store.js), while operators start, stop, *)
(* resume and restart campaigns (campaign-api.js).  Passes run in several  *)
(* pods, two campaigns share accounts, a pass may be abandoned by its pod  *)
(* and go on in the background, and a pod may exit at any moment.          *)
(*                                                                         *)
(* Grain.  One action is one store call with the JavaScript around it, or  *)
(* one request of the operator, except for POST /start, whose three        *)
(* statements are three actions.  Giving a lead back and parking its       *)
(* account are one action, and so are an action on the page and the refund *)
(* of its credit: in between, only the scan of another pass can see a      *)
(* difference, and it cannot take the account, which is locked.            *)
(*                                                                         *)
(* Scope.  Send modes, within one day.  The tasks that transitionTo-       *)
(* Monitoring arms, and the handlers and scrapes that share the account    *)
(* locks, are not here.  cmp:park and cmp:turncd are one flag, "resting":  *)
(* both keep an account out of the selection until they expire, for        *)
(* different lengths of time.  Where a scan starts is left open.           *)
(***************************************************************************)
EXTENDS Integers, FiniteSets

CONSTANTS
    Pods,         \* campaign-worker pods
    Passes,       \* concurrent executions of processCampaign
    Campaigns, Leads, Accounts, Persons,
    PodOf,        \* pass -> pod
    CampaignOf,   \* lead -> campaign
    PersonOf,     \* lead -> anti-dupe key; two rows may name one person
    RouteOf,      \* lead -> its pinned account, or NoAccount
    AccountsOf,   \* campaign -> profile_ids
    LimitOf,      \* campaign -> daily_limit
    Elsewhere,    \* leads the sheet or a sibling campaign has already actioned
    Monitored,    \* campaigns whose end of sending is monitoring, not done
    BatchSize,    \* leads per turn
    Concurrency,  \* CAMPAIGN_CONCURRENCY
    MaxOps,       \* bound: stops, resumes and restarts
    MaxFaults,    \* bound: store errors, late failures, passes over their time, pod exits
    NoPod, NoCampaign, NoLead, NoAccount

ASSUME MapsAssumption ==
    /\ PodOf \in [Passes -> Pods]
    /\ CampaignOf \in [Leads -> Campaigns]
    /\ PersonOf \in [Leads -> Persons]
    /\ RouteOf \in [Leads -> Accounts \union {NoAccount}]
    /\ AccountsOf \in [Campaigns -> SUBSET Accounts]
    /\ LimitOf \in [Campaigns -> Nat]
ASSUME NonesAssumption ==
    NoPod \notin Pods /\ NoCampaign \notin Campaigns /\ NoLead \notin Leads
    /\ NoAccount \notin Accounts
ASSUME BoundsAssumption ==
    /\ BatchSize \in Nat \ {0} /\ Concurrency \in Nat \ {0}
    /\ MaxOps \in Nat /\ MaxFaults \in Nat

VARIABLES
    status,     \* campaigns.status; "ended" is monitoring or done
    starting,   \* what POST /start has still to do: "create", "leads", "skip" or "none"
    lead,       \* leads.status
    marks,      \* cmp:sent:<campaign>:connect
    lock,       \* sn:proflock:<account>: the pod that holds the account
    credit,     \* cmp:dailycount:<account>:<day>
    resting,    \* cmp:park:<account> or cmp:turncd:<account> exists
    inflight,   \* _inFlightCampaigns, per pod
    pass,       \* the local variables of a pass and of its current turn
    invites,    \* LinkedIn: how often a lead was invited by these campaigns
    sends,      \* LinkedIn: invitations an account sent today
    late,       \* history: leads a pass invited since the campaign was stopped
    ops, faults \* bounds

storeVars == <<status, starting, lead, marks, lock, credit, resting>>
worldVars == <<invites, sends, late>>
bounds    == <<ops, faults>>
vars      == <<storeVars, inflight, pass, worldVars, bounds>>

Active == {"queued", "running"}
Halted == {"paused", "cancelled"}

\* "select" to "acquire" choose an account; "open" to "cool" are a turn's body and
\* its finally block; "more" is runCampaign, "final" and "transition" its caller.
InTurn == {"open", "status", "claim", "dup", "gate", "act", "markSent", "markAlready",
           "stampSent", "stampAlready", "close"}
PCs    == InTurn \union {"idle", "listed", "select", "acquire", "cool", "more", "final",
                         "transition"}

NoPass == [pc |-> "idle", camp |-> NoCampaign, queued |-> FALSE, tried |-> {},
           acct |-> NoAccount, hand |-> NoLead, left |-> 0, actioned |-> FALSE,
           thrown |-> FALSE, abandoned |-> FALSE]

LeadsOf(c) == {l \in Leads : CampaignOf[l] = c}
Pending(c) == {l \in LeadsOf(c) : lead[l] = "pending"}

TypeOK ==
    /\ status \in [Campaigns -> Active \union Halted \union {"absent", "ended"}]
    /\ starting \in [Campaigns -> {"create", "leads", "skip", "none"}]
    /\ lead \in [Leads -> {"absent", "pending", "claimed", "sent", "skipped", "error"}]
    /\ marks \subseteq Campaigns \X Persons
    /\ lock \in [Accounts -> Pods \union {NoPod}]
    /\ credit \in [Accounts -> Nat]
    /\ resting \in [Accounts -> BOOLEAN]
    /\ inflight \in [Pods -> SUBSET Campaigns]
    /\ pass \in [Passes -> [pc: PCs, camp: Campaigns \union {NoCampaign}, queued: BOOLEAN,
                            tried: SUBSET Accounts, acct: Accounts \union {NoAccount},
                            hand: Leads \union {NoLead}, left: 0 .. BatchSize,
                            actioned: BOOLEAN, thrown: BOOLEAN, abandoned: BOOLEAN]]
    /\ invites \in [Leads -> Nat]
    /\ sends \in [Accounts -> Nat]
    /\ late \in [Passes -> Nat]
    /\ ops \in 0 .. MaxOps
    /\ faults \in 0 .. MaxFaults

Init ==
    /\ status = [c \in Campaigns |-> "absent"]
    /\ starting = [c \in Campaigns |-> "create"]
    /\ lead = [l \in Leads |-> "absent"]
    /\ marks = {}
    /\ lock = [a \in Accounts |-> NoPod]
    /\ credit = [a \in Accounts |-> 0]
    /\ resting = [a \in Accounts |-> FALSE]
    /\ inflight = [p \in Pods |-> {}]
    /\ pass = [x \in Passes |-> NoPass]
    /\ invites = [l \in Leads |-> 0]
    /\ sends = [a \in Accounts |-> 0]
    /\ late = [x \in Passes |-> 0]
    /\ ops = 0
    /\ faults = 0

-----------------------------------------------------------------------------
(* The operator: POST /start in three statements, stop, resume, restart.   *)

SetActive(c) ==
    /\ status' = [status EXCEPT ![c] = "running"]
    /\ late' = [x \in Passes |-> IF pass[x].camp = c THEN 0 ELSE late[x]]

SkipElsewhere(c) ==
    lead' = [l \in Leads |-> IF l \in Pending(c) \intersect Elsewhere THEN "sent" ELSE lead[l]]

CreateCampaign(c) ==
    /\ starting[c] = "create"
    /\ starting' = [starting EXCEPT ![c] = "leads"]
    /\ status' = [status EXCEPT ![c] = "queued"]
    /\ UNCHANGED <<lead, marks, lock, credit, resting, inflight, pass, worldVars, bounds>>

AddLeads(c) ==
    /\ starting[c] = "leads"
    /\ starting' = [starting EXCEPT ![c] = "skip"]
    /\ lead' = [l \in Leads |-> IF CampaignOf[l] = c THEN "pending" ELSE lead[l]]
    /\ UNCHANGED <<status, marks, lock, credit, resting, inflight, pass, worldVars, bounds>>

SkipActioned(c) ==
    /\ starting[c] = "skip"
    /\ starting' = [starting EXCEPT ![c] = "none"]
    /\ SkipElsewhere(c)
    /\ UNCHANGED <<status, marks, lock, credit, resting, inflight, pass, worldVars, bounds>>

Operate == ops < MaxOps /\ ops' = ops + 1
Fault   == faults < MaxFaults /\ faults' = faults + 1

\* stop, stop?pause=1 and stop?keepMonitoring=1, whatever the status was.
Stop(c) ==
    /\ Operate
    /\ status[c] # "absent"
    /\ \E s \in Halted \union {"ended"} : status' = [status EXCEPT ![c] = s]
    /\ UNCHANGED <<starting, lead, marks, lock, credit, resting, inflight, pass, worldVars, faults>>

Resume(c) ==
    /\ Operate
    /\ status[c] = "paused"
    /\ SetActive(c)
    /\ UNCHANGED <<starting, lead, marks, lock, credit, resting, inflight, pass, invites, sends, faults>>

\* The skip of actioned leads and the status are one step; a new daily limit
\* (setDailyLimit) is left out.
Restart(c) ==
    /\ Operate
    /\ status[c] \notin {"absent", "running"}
    /\ ~(status[c] = "ended" /\ c \in Monitored)
    /\ SkipElsewhere(c)
    /\ SetActive(c)
    /\ UNCHANGED <<starting, marks, lock, credit, resting, inflight, pass, invites, sends, faults>>

-----------------------------------------------------------------------------
(* A pass: from the poll to runCampaign.                                   *)

EndPass(x) ==
    /\ pass' = [pass EXCEPT ![x] = NoPass]
    /\ inflight' = IF pass[x].abandoned THEN inflight
                   ELSE [inflight EXCEPT ![PodOf[x]] = @ \ {pass[x].camp}]

\* getActiveCampaigns; the pool may start the campaign much later.
Poll(x, c) ==
    /\ pass[x].pc = "idle"
    /\ status[c] \in Active
    /\ c \notin inflight[PodOf[x]]
    /\ pass' = [pass EXCEPT ![x].pc = "listed", ![x].camp = c,
                            ![x].queued = status[c] = "queued"]
    /\ late' = [late EXCEPT ![x] = 0]
    /\ UNCHANGED <<storeVars, inflight, invites, sends, bounds>>

MayBegin(x) == /\ pass[x].camp \notin inflight[PodOf[x]]
               /\ Cardinality(inflight[PodOf[x]]) < Concurrency

\* The status is set to running as listed, not as it is now.
Begin(x) ==
    /\ pass[x].pc = "listed"
    /\ MayBegin(x)
    /\ inflight' = [inflight EXCEPT ![PodOf[x]] = @ \union {pass[x].camp}]
    /\ IF pass[x].queued THEN SetActive(pass[x].camp) ELSE UNCHANGED <<status, late>>
    /\ pass' = [pass EXCEPT ![x].pc = "select", ![x].queued = FALSE]
    /\ UNCHANGED <<starting, lead, marks, lock, credit, resting, invites, sends, bounds>>

SkipBegin(x) ==
    /\ pass[x].pc = "listed"
    /\ ~MayBegin(x)
    /\ pass' = [pass EXCEPT ![x] = NoPass]
    /\ UNCHANGED <<storeVars, inflight, worldVars, bounds>>

\* runCampaign: another turn after one that sent; an idle one ends it when nothing
\* is pending, and otherwise it tries again, up to maxIdleRounds times.
More(x) ==
    /\ pass[x].pc = "more"
    /\ \E next \in {"select", "final"} :
         /\ pass[x].actioned => next = "select"
         /\ ~pass[x].actioned /\ Pending(pass[x].camp) = {} => next = "final"
         /\ pass' = [pass EXCEPT ![x].pc = next, ![x].actioned = FALSE]
    /\ UNCHANGED <<storeVars, inflight, worldVars, bounds>>

Final(x) ==
    /\ pass[x].pc = "final"
    /\ IF Pending(pass[x].camp) # {} THEN EndPass(x)
       ELSE /\ pass' = [pass EXCEPT ![x].pc = "transition"]
            /\ UNCHANGED inflight
    /\ UNCHANGED <<storeVars, worldVars, bounds>>

\* transitionToMonitoring: the status is written without a look at it.
Transition(x) ==
    /\ pass[x].pc = "transition"
    /\ status' = [status EXCEPT ![pass[x].camp] = "ended"]
    /\ EndPass(x)
    /\ UNCHANGED <<starting, lead, marks, lock, credit, resting, worldVars, bounds>>

-----------------------------------------------------------------------------
(* A turn: take an account, invite up to BatchSize leads, leave it.        *)

CheckAccount(x) ==
    /\ pass[x].pc = "select"
    /\ \E a \in AccountsOf[pass[x].camp] \ pass[x].tried :
         pass' = IF resting[a] \/ credit[a] >= LimitOf[pass[x].camp]
                 THEN [pass EXCEPT ![x].tried = @ \union {a}]
                 ELSE [pass EXCEPT ![x].pc = "acquire", ![x].acct = a]
    /\ UNCHANGED <<storeVars, inflight, worldVars, bounds>>

NoneFree(x) ==
    /\ pass[x].pc = "select"
    /\ AccountsOf[pass[x].camp] \subseteq pass[x].tried
    /\ pass' = [pass EXCEPT ![x].pc = "more", ![x].tried = {}]
    /\ UNCHANGED <<storeVars, inflight, worldVars, bounds>>

AcquireAccount(x) ==
    LET a == pass[x].acct IN
    /\ pass[x].pc = "acquire"
    /\ IF lock[a] = NoPod
       THEN /\ lock' = [lock EXCEPT ![a] = PodOf[x]]
            /\ pass' = [pass EXCEPT ![x].pc = "open", ![x].left = BatchSize,
                                    ![x].tried = {}]
       ELSE /\ pass' = [pass EXCEPT ![x].pc = "select", ![x].acct = NoAccount,
                                    ![x].tried = @ \union {a}]
            /\ UNCHANGED lock
    /\ UNCHANGED <<status, starting, lead, marks, credit, resting, inflight, worldVars, bounds>>

\* openSession; if it throws, only the finally block runs.
OpenSession(x) ==
    /\ pass[x].pc = "open"
    /\ \E ok \in BOOLEAN :
         pass' = [pass EXCEPT ![x].pc = IF ok THEN "status" ELSE "close", ![x].thrown = ~ok]
    /\ UNCHANGED <<storeVars, inflight, worldVars, bounds>>

ReadStatus(x) ==
    /\ pass[x].pc = "status"
    /\ pass' = [pass EXCEPT ![x].pc = IF status[pass[x].camp] \in Active THEN "claim" ELSE "close"]
    /\ UNCHANGED <<storeVars, inflight, worldVars, bounds>>

\* Mutant: the claim does not ask for pending leads only.
Claimable_AnyOpen(x) ==
    {l \in LeadsOf(pass[x].camp) : lead[l] \in {"pending", "claimed"}
                                   /\ RouteOf[l] \in {pass[x].acct, NoAccount}}

Claimable(x) == {l \in Pending(pass[x].camp) : RouteOf[l] \in {pass[x].acct, NoAccount}}

ClaimNextLead(x) ==
    /\ pass[x].pc = "claim"
    /\ \E l \in Claimable(x) :
         /\ lead' = [lead EXCEPT ![l] = "claimed"]
         /\ pass' = [pass EXCEPT ![x].pc = "dup", ![x].hand = l]
    /\ UNCHANGED <<status, starting, marks, lock, credit, resting, inflight, worldVars, bounds>>

NoLeadLeft(x) ==
    /\ pass[x].pc = "claim"
    /\ Claimable(x) = {}
    /\ pass' = [pass EXCEPT ![x].pc = "close"]
    /\ UNCHANGED <<storeVars, inflight, worldVars, bounds>>

KeyOf(l) == <<CampaignOf[l], PersonOf[l]>>

\* Mutant: the status is looked at only when a turn begins.
NextLead_NoStatus(x, sent) ==
    pass' = [pass EXCEPT ![x].pc = IF pass[x].left = 1 THEN "close" ELSE "claim",
                         ![x].hand = NoLead, ![x].left = @ - 1,
                         ![x].actioned = @ \/ sent]

\* The lead in hand is settled: on to the next one, or to the end of the batch.
NextLead(x, sent) ==
    pass' = [pass EXCEPT ![x].pc = IF pass[x].left = 1 THEN "close" ELSE "status",
                         ![x].hand = NoLead, ![x].left = @ - 1,
                         ![x].actioned = @ \/ sent]

\* The lead in hand goes back, and the turn ends.
GiveBack(x) ==
    /\ lead' = [lead EXCEPT ![pass[x].hand] = "pending"]
    /\ pass' = [pass EXCEPT ![x].pc = "close", ![x].hand = NoLead]

SkipDuplicate(x) ==
    /\ pass[x].pc = "dup"
    /\ KeyOf(pass[x].hand) \in marks
    /\ lead' = [lead EXCEPT ![pass[x].hand] = "skipped"]
    /\ NextLead(x, FALSE)
    /\ UNCHANGED <<status, starting, marks, lock, credit, resting, inflight, worldVars, bounds>>

\* Mutant: the mark does not keep a lead from being invited.
NotActioned_Marked(x) ==
    /\ pass[x].pc = "dup"
    /\ pass' = [pass EXCEPT ![x].pc = "gate"]
    /\ UNCHANGED <<storeVars, inflight, worldVars, bounds>>

NotActioned(x) ==
    /\ pass[x].pc = "dup"
    /\ KeyOf(pass[x].hand) \notin marks
    /\ pass' = [pass EXCEPT ![x].pc = "gate"]
    /\ UNCHANGED <<storeVars, inflight, worldVars, bounds>>

\* tryConsumeDailySend
TakeCredit(x) ==
    /\ pass[x].pc = "gate"
    /\ credit[pass[x].acct] < LimitOf[pass[x].camp]
    /\ credit' = [credit EXCEPT ![pass[x].acct] = @ + 1]
    /\ pass' = [pass EXCEPT ![x].pc = "act"]
    /\ UNCHANGED <<status, starting, lead, marks, lock, resting, inflight, worldVars, bounds>>

NoCredit(x) ==
    /\ pass[x].pc = "gate"
    /\ credit[pass[x].acct] >= LimitOf[pass[x].camp]
    /\ GiveBack(x)
    /\ UNCHANGED <<status, starting, marks, lock, credit, resting, inflight, worldVars, bounds>>

\* LinkedIn takes an invitation.
Invite(x) ==
    /\ invites' = [invites EXCEPT ![pass[x].hand] = @ + 1]
    /\ sends' = [sends EXCEPT ![pass[x].acct] = @ + 1]
    /\ late' = IF status[pass[x].camp] \in Active THEN late ELSE [late EXCEPT ![x] = @ + 1]

Sent(x) ==
    /\ pass[x].pc = "act"
    /\ Invite(x)
    /\ pass' = [pass EXCEPT ![x].pc = "markSent"]
    /\ UNCHANGED <<storeVars, inflight, bounds>>

AlreadyConnected(x) ==
    /\ pass[x].pc = "act"
    /\ credit' = [credit EXCEPT ![pass[x].acct] = IF @ > 0 THEN @ - 1 ELSE @]
    /\ pass' = [pass EXCEPT ![x].pc = "markAlready"]
    /\ UNCHANGED <<status, starting, lead, marks, lock, resting, inflight, worldVars, bounds>>

\* Dead session, weekly cap or 429, which parks at a threshold.  LinkedIn took nothing.
BackOff(x) ==
    /\ pass[x].pc = "act"
    /\ GiveBack(x)
    /\ \E parked \in BOOLEAN : resting' = [resting EXCEPT ![pass[x].acct] = @ \/ parked]
    /\ UNCHANGED <<status, starting, marks, lock, credit, inflight, worldVars, bounds>>

\* Mutant: the credit comes back after any outcome but success.
Fails_Refunds(x) ==
    /\ pass[x].pc = "act"
    /\ (Fault /\ Invite(x)) \/ UNCHANGED <<worldVars, faults>>
    /\ credit' = [credit EXCEPT ![pass[x].acct] = IF @ > 0 THEN @ - 1 ELSE @]
    /\ lead' = [lead EXCEPT ![pass[x].hand] = "error"]
    /\ NextLead(x, FALSE)
    /\ UNCHANGED <<status, starting, marks, lock, resting, inflight, ops>>

\* Any other failure; it may come after the invitation went out (the page, or the stamp of
\* the monitored modes), which counts as a fault.
Fails(x) ==
    /\ pass[x].pc = "act"
    /\ (Fault /\ Invite(x)) \/ UNCHANGED <<worldVars, faults>>
    /\ lead' = [lead EXCEPT ![pass[x].hand] = "error"]
    /\ NextLead(x, FALSE)
    /\ UNCHANGED <<status, starting, marks, lock, credit, resting, inflight, ops>>

\* markActionSent, then markLead
Mark(x) ==
    /\ pass[x].pc \in {"markSent", "markAlready"}
    /\ marks' = marks \union {KeyOf(pass[x].hand)}
    /\ pass' = [pass EXCEPT ![x].pc = IF @ = "markSent" THEN "stampSent" ELSE "stampAlready"]
    /\ UNCHANGED <<status, starting, lead, lock, credit, resting, inflight, worldVars, bounds>>

Stamp(x) ==
    LET sent == pass[x].pc = "stampSent" IN
    /\ pass[x].pc \in {"stampSent", "stampAlready"}
    /\ lead' = [lead EXCEPT ![pass[x].hand] = IF sent THEN "sent" ELSE "skipped"]
    /\ NextLead(x, sent)
    /\ UNCHANGED <<status, starting, marks, lock, credit, resting, inflight, worldVars, bounds>>

\* The finally block: the account is free before its rest begins.
ReleaseAccount(x) ==
    /\ pass[x].pc = "close"
    /\ lock' = [lock EXCEPT ![pass[x].acct] = IF @ = PodOf[x] THEN NoPod ELSE @]
    /\ pass' = [pass EXCEPT ![x].pc = "cool", ![x].left = 0]
    /\ UNCHANGED <<status, starting, lead, marks, credit, resting, inflight, worldVars, bounds>>

Cool(x) ==
    /\ pass[x].pc = "cool"
    /\ resting' = [resting EXCEPT ![pass[x].acct] = TRUE]
    /\ IF pass[x].thrown THEN EndPass(x)
       ELSE /\ pass' = [pass EXCEPT ![x].pc = "more", ![x].acct = NoAccount]
            /\ UNCHANGED inflight
    /\ UNCHANGED <<status, starting, lead, marks, lock, credit, worldVars, bounds>>

-----------------------------------------------------------------------------
(* Faults and time.                                                        *)

\* Mutant: the lead in hand goes back to the queue after an error.
StoreFails_GivesBack(x) ==
    /\ Fault
    /\ pass[x].pc \in InTurn \ {"open", "close"}
    /\ lead' = IF pass[x].hand = NoLead THEN lead ELSE [lead EXCEPT ![pass[x].hand] = "pending"]
    /\ pass' = [pass EXCEPT ![x].pc = "close", ![x].hand = NoLead, ![x].thrown = TRUE]
    /\ UNCHANGED <<status, starting, marks, lock, credit, resting, inflight, worldVars, ops>>

\* A store call throws.  In the batch the finally block still runs, and the lead in
\* hand stays claimed; anywhere else the pass is over, with whatever lock it holds.
StoreFails(x) ==
    /\ Fault
    /\ \/ /\ pass[x].pc \in InTurn \ {"open", "close"}
          /\ pass' = [pass EXCEPT ![x].pc = "close", ![x].hand = NoLead, ![x].thrown = TRUE]
          /\ UNCHANGED inflight
       \/ /\ pass[x].pc \in {"select", "acquire", "close", "more", "final", "transition"}
          /\ EndPass(x)
    /\ UNCHANGED <<storeVars, worldVars, ops>>

\* Mutant: an abandoned pass loses its account but goes on.
Abandon_FreesAccount(x) ==
    /\ Fault
    /\ pass[x].pc \in InTurn
    /\ ~pass[x].abandoned
    /\ lock' = [lock EXCEPT ![pass[x].acct] = NoPod]
    /\ inflight' = [inflight EXCEPT ![PodOf[x]] = @ \ {pass[x].camp}]
    /\ pass' = [pass EXCEPT ![x].abandoned = TRUE]
    /\ UNCHANGED <<status, starting, lead, marks, credit, resting, worldVars, ops>>

\* _boundCampaign gives up waiting; the pass itself goes on.
Abandon(x) ==
    /\ Fault
    /\ pass[x].pc \notin {"idle", "listed"}
    /\ ~pass[x].abandoned
    /\ inflight' = [inflight EXCEPT ![PodOf[x]] = @ \ {pass[x].camp}]
    /\ pass' = [pass EXCEPT ![x].abandoned = TRUE]
    /\ UNCHANGED <<storeVars, worldVars, ops>>

\* A kill, or SIGTERM and its five seconds; Kubernetes starts the pod again.
PodExit(p) ==
    /\ Fault
    /\ \E x \in Passes : PodOf[x] = p /\ pass[x].pc # "idle"
    /\ pass' = [x \in Passes |-> IF PodOf[x] = p THEN NoPass ELSE pass[x]]
    /\ inflight' = [inflight EXCEPT ![p] = {}]
    /\ UNCHANGED <<storeVars, worldVars, ops>>

Holds(x, a) == pass[x].pc \in InTurn /\ pass[x].acct = a

\* Mutant: the heartbeat timer outlives its turn for as long as the pod has work.
LockExpire_TimerLeft(a) ==
    /\ lock[a] # NoPod
    /\ \A x \in Passes : PodOf[x] = lock[a] => pass[x].pc = "idle"
    /\ lock' = [lock EXCEPT ![a] = NoPod]
    /\ UNCHANGED <<status, starting, lead, marks, credit, resting, inflight, pass, worldVars, bounds>>

\* The TTL runs out once no turn renews the lock.
LockExpire(a) ==
    /\ lock[a] # NoPod
    /\ \A x \in Passes : ~Holds(x, a)
    /\ lock' = [lock EXCEPT ![a] = NoPod]
    /\ UNCHANGED <<status, starting, lead, marks, credit, resting, inflight, pass, worldVars, bounds>>

RestEnds(a) ==
    /\ resting[a]
    /\ resting' = [resting EXCEPT ![a] = FALSE]
    /\ UNCHANGED <<status, starting, lead, marks, lock, credit, inflight, pass, worldVars, bounds>>

-----------------------------------------------------------------------------
Operator(c) == CreateCampaign(c) \/ AddLeads(c) \/ SkipActioned(c) \/ Stop(c) \/ Resume(c)
               \/ Restart(c)

LeadStep(x) == SkipDuplicate(x) \/ NotActioned(x) \/ TakeCredit(x) \/ NoCredit(x) \/ Sent(x)
               \/ AlreadyConnected(x) \/ BackOff(x) \/ Fails(x) \/ Mark(x) \/ Stamp(x)

TurnStep(x) == OpenSession(x) \/ ReadStatus(x) \/ ClaimNextLead(x) \/ NoLeadLeft(x)
               \/ LeadStep(x) \/ ReleaseAccount(x)

PassStep(x) == (\E c \in Campaigns : Poll(x, c)) \/ Begin(x) \/ SkipBegin(x)
               \/ CheckAccount(x) \/ NoneFree(x) \/ AcquireAccount(x) \/ TurnStep(x)
               \/ Cool(x) \/ More(x) \/ Final(x) \/ Transition(x)

Next == \/ \E c \in Campaigns : Operator(c)
        \/ \E x \in Passes : PassStep(x) \/ StoreFails(x) \/ Abandon(x)
        \/ \E p \in Pods : PodExit(p)
        \/ \E a \in Accounts : LockExpire(a) \/ RestEnds(a)

Spec == Init /\ [][Next]_vars

\* A browser action returns and so does a store call; a TTL runs out.
FairSpec == /\ Spec
            /\ \A x \in Passes : WF_vars(TurnStep(x))
            /\ \A a \in Accounts : WF_vars(LockExpire(a))
-----------------------------------------------------------------------------
(* What the sending phase must guarantee.                                  *)

\* One account is driven by one turn at a time, over all pods and campaigns, also when a
\* pass goes on behind its pod's back or its pod dies: acquireAccount, releaseAccount.
AccountExclusive ==
    \A x, y \in Passes : \A a \in Accounts : Holds(x, a) /\ Holds(y, a) => x = y

\* A lead is in hand of one turn, and as long as it is, no other turn, no restart and no
\* pre-actioned skip can claim or settle it: claimNextLead, releaseLeadToPending.
LeadInHand ==
    \A x \in Passes : pass[x].hand # NoLead =>
        /\ lead[pass[x].hand] = "claimed"
        /\ \A y \in Passes : pass[y].hand = pass[x].hand => x = y

\* A row is invited at most once, whatever fails and whoever restarts, and a row that was
\* invited never goes back to the queue: runTurn, markLead.
ContactedOnce ==
    \A l \in Leads : invites[l] <= 1 /\ (invites[l] > 0 => lead[l] # "pending")

Invited(k) == {l \in Leads : KeyOf(l) = k /\ invites[l] > 0}

\* However many rows name a person, each account of the campaign sends one invitation, and
\* a fault costs one more from each: the anti-dupe mark of runTurn is read before the
\* invitation and set after it, and only turns on one account exclude each other meanwhile.
PersonBudget ==
    \A c \in Campaigns : \A m \in Persons :
        Cardinality(Invited(<<c, m>>)) <= Cardinality(AccountsOf[c]) * (1 + faults)

\* Every invitation of an account is covered by a credit, and its credits never exceed the
\* largest limit of its campaigns: tryConsumeDailySend with refundDailySend.
DailyCap ==
    \A a \in Accounts :
        /\ sends[a] <= credit[a]
        /\ credit[a] > 0 => \E c \in Campaigns : a \in AccountsOf[c] /\ credit[a] <= LimitOf[c]

\* A pass that runs when its campaign is stopped sends at most the lead it is at:
\* the status check of runTurn.
StopsAfterLead == \A x \in Passes : late[x] <= 1

\* An account that is taken becomes free again, through errors and exits: the finally
\* block of runTurn and the TTL of the lock.
AccountsReleased == \A a \in Accounts : lock[a] # NoPod ~> lock[a] = NoPod

-----------------------------------------------------------------------------
(* What a comment of the code says and the code does not do.               *)

\* A stopped or paused campaign stays so until the operator says otherwise
\* (campaign-api.js: "leaves the active-send set, so the scheduler stops claiming leads").
StopSticks ==
    [][\A c \in Campaigns :
         status[c] \in Halted /\ status'[c] \notin Halted => Operator(c)]_vars
=============================================================================
