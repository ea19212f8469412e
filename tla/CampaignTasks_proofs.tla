----------------------- MODULE CampaignTasks_proofs -----------------------
(***************************************************************************)
(* What holds of a campaign's tasks for every number of pods, accounts and *)
(* leads and every number of faults, requests and lapsed locks: the types; *)
(* that handlers and turns exclude each other on an account but for its    *)
(* lapses, and that introductions stay within one per lead, fault and      *)
(* lapse; while no handler outlasts its claim (~SlowFollowUps), that       *)
(* follow-ups stay within one per lead and fault; and, whatever overlaps   *)
(* or dies, that a stopped campaign is swept once.                         *)
(*                                                                         *)
(* TypeInv adds to the types the shape of a handler's local variables,     *)
(* LockInv how many drive an account besides its lock's owner, IntroInv    *)
(* and FollowInv what a lead's slot and mark say about what LinkedIn has   *)
(* seen, and who is still to act on the lead.  SweepInv                    *)
(* accounts for the sweeps that may still begin: in the row, in a handler, *)
(* or gone.                                                                *)
(***************************************************************************)
EXTENDS CampaignTasks, FiniteSetTheorems, TLAPS

-----------------------------------------------------------------------------
(* Types.                                                                  *)

NoneTask == <<NoTask, NoTask>>
Sweeps   == {"begin", "next", "check", "gate", "pick", "send", "stamp", "note", "queue", "tail",
             "expire"}
Acts     == {"guard", "take", "act", "mark"}

\* A task that is about one lead, or about one account.
Pointed(r) == \/ \E l \in Leads : r.task = Follow(l) /\ r.lead = l
              \/ \E a \in CampaignAccounts : r.task = Accept(a) /\ r.lead = NoLead

\* The local variables of a handler, by where it is.
Shaped(r) ==
    /\ r.pc = "idle" => r.task = NoneTask
    /\ r.pc # "idle" => r.task \in Tasks
    /\ r.pc \in Holding => r.acct \in Accounts
    /\ r.pc \notin Holding => r.acct = NoAccount
    /\ r.pc \in Sweeps => r.task \in {Monitor, Reply}
    /\ r.pc \in {"send", "stamp", "note", "queue"} => r.lead \in Leads
    /\ r.pc = "gate" => r.acct \in CampaignAccounts
    /\ r.pc \in Acts => Pointed(r)
    /\ r.pc \in {"guard", "mark"} => r.lead \in Leads
    /\ r.pc = "close" => r.task \in {Monitor, Reply} \/ Pointed(r)

JobType == [pc: PCs, task: Tasks \union {NoneTask}, todo: SUBSET Accounts,
            acct: Accounts \union {NoAccount}, work: SUBSET Leads,
            lead: Leads \union {NoLead}, wide: BOOLEAN, res: {"done", "error", "waiting"}]

JobInv  == \A p \in Pods : Shaped(job[p])
TypeInv == TypeOK /\ JobInv /\ revived <= ops

\* The tasks are told apart by their type.
LEMMA TaskTypes ==
  /\ Monitor \in Tasks /\ Reply \in Tasks /\ Monitor # Reply
  /\ \A l \in Leads : Follow(l) \in Tasks /\ Follow(l) \in Reapable
                      /\ Follow(l)[1] = "follow_up" /\ Follow(l)[2] = l
                      /\ Follow(l) \notin {Monitor, Reply}
  /\ \A a \in CampaignAccounts : Accept(a) \in Tasks /\ Accept(a) \in Reapable
                      /\ Accept(a)[1] = "accept" /\ Accept(a) \notin {Monitor, Reply}
                      /\ \A l \in Leads : Accept(a) # Follow(l)
  /\ Monitor[1] = "monitor" /\ Reply[1] = "reply"
  BY DEF Tasks, Reapable, Monitor, Reply, Follow, Accept

\* There is no fifth kind of task.
LEMMA TaskCases ==
  ASSUME NEW t \in Tasks
  PROVE  \/ t = Monitor \/ t = Reply
         \/ \E l \in Leads : t = Follow(l)
         \/ \E a \in CampaignAccounts : t = Accept(a)
  BY DEF Tasks, Reapable

\* A step of one handler keeps the types of all when it keeps those of its own.
LEMMA OneJob ==
  ASSUME TypeInv, NEW p \in Pods, NEW r \in JobType, Shaped(r),
         job' = [job EXCEPT ![p] = r]
  PROVE  job' \in [Pods -> JobType] /\ JobInv'
  BY DEF TypeInv, TypeOK, JobInv, JobType, NoneTask

\* The handler that is not there.
LEMMA IdleShaped == Idle \in JobType /\ Shaped(Idle)
  BY DEF Idle, JobType, PCs, Holding, Shaped, Sweeps, Acts, NoneTask

\* A handler that is done, with its task's result.
LEMMA FinishShaped ==
  ASSUME TypeInv, NEW p \in Pods, job[p].pc # "idle", NEW v \in {"done", "error", "waiting"}
  PROVE  /\ [Idle EXCEPT !.pc = "settle", !.task = job[p].task, !.res = v] \in JobType
         /\ Shaped([Idle EXCEPT !.pc = "settle", !.task = job[p].task, !.res = v])
<1>1. job[p].task \in Tasks
  BY DEF TypeInv, JobInv, Shaped
<1> QED
  BY <1>1 DEF Idle, JobType, PCs, Holding, Shaped, Sweeps, Acts, NoneTask

\* Where a step of a handler, or its claim, leads.
JobStep(p) == \E r \in JobType : Shaped(r) /\ job' = [job EXCEPT ![p] = r]

\* Steps of a handler that move it and change at most its account, lead or work.
LEMMA SweepSteps ==
  ASSUME TypeInv, NEW p \in Pods,
         \/ BeginMonitor(p) \/ NoAccountLeft(p) \/ RunBulkCheck(p) \/ CheckFails(p)
         \/ PrimaryGate(p) \/ (\E a \in Accounts : NextAccount(p, a))
         \/ BeginReply(p) \/ ReplyTail(p) \/ MonitorTail(p) \/ ExpireMonitoring(p)
  PROVE  JobStep(p)
<1>0. job[p] \in JobType /\ Shaped(job[p]) /\ job \in [Pods -> JobType]
  BY DEF TypeInv, TypeOK, JobInv, JobType, NoneTask
<1>f. ASSUME NEW v \in {"done", "error", "waiting"}, Finish(p, v), job[p].pc # "idle"
      PROVE  JobStep(p)
  BY <1>f, FinishShaped DEF Finish, JobStep
<1>s. ASSUME NEW to \in {"tail", "close", "pick", "expire"}, Step(p, to),
             to \in {"tail", "expire"} => job[p].acct = NoAccount,
             to \in {"close", "pick"} => job[p].acct \in Accounts,
             job[p].task \in {Monitor, Reply}
      PROVE  JobStep(p)
  <2> DEFINE r == [job[p] EXCEPT !.pc = to]
  <2>1. r \in JobType /\ Shaped(r)
    BY <1>0, <1>s, TaskTypes DEF JobType, PCs, Holding, Shaped, Sweeps, Acts, Pointed
  <2>2. job' = [job EXCEPT ![p] = r]
    BY <1>0, <1>s DEF Step
  <2> QED
    BY <2>1, <2>2 DEF JobStep
<1>1. CASE BeginMonitor(p)
  <2>1. CASE status \in {"paused", "done"}
    BY <2>1, <1>1, <1>f DEF BeginMonitor
  <2>2. CASE status \notin {"paused", "done"}
    <3> DEFINE r == [job[p] EXCEPT !.pc = "next",
                       !.todo = IF job[p].wide THEN Accounts ELSE CampaignAccounts]
    <3>1. r \in JobType /\ Shaped(r)
      BY <1>0, <1>1, AccountsAssumption DEF BeginMonitor, JobType, PCs, Holding, Shaped, Sweeps, Acts, Pointed
    <3>2. job' = [job EXCEPT ![p] = r]
      BY <1>0, <1>1, <2>2 DEF BeginMonitor
    <3> QED
      BY <3>1, <3>2 DEF JobStep
  <2> QED
    BY <2>1, <2>2
<1>2. CASE NoAccountLeft(p)
  BY <1>0, <1>2, <1>s DEF NoAccountLeft, Shaped, Sweeps, Holding
<1>3. CASE RunBulkCheck(p)
  <2> DEFINE open == {l \in Leads : AccountOf[l] = job[p].acct /\ stage[l] \in {"accepted", "stamped"}}
             r == [job[p] EXCEPT !.pc = IF open = {} THEN "close" ELSE "gate", !.work = open]
  <2>1. open # {} => job[p].acct \in CampaignAccounts
    BY AccountsAssumption
  <2>2. r \in JobType /\ Shaped(r)
    BY <1>0, <1>3, <2>1 DEF RunBulkCheck, JobType, PCs, Holding, Shaped, Sweeps, Acts, Pointed
  <2>3. job' = [job EXCEPT ![p] = r]
    BY <1>0, <1>3 DEF RunBulkCheck
  <2> QED
    BY <2>2, <2>3 DEF JobStep
<1>4. CASE CheckFails(p)
  BY <1>0, <1>4, <1>s DEF CheckFails, Shaped, Sweeps, Holding
<1>5. CASE PrimaryGate(p)
  <2> DEFINE r == [job[p] EXCEPT !.pc = "close", !.work = {}]
             s == [job[p] EXCEPT !.pc = "pick",
                                 !.work = {l \in @ : stage[l] \in {"accepted", "stamped"}}]
  <2>1. r \in JobType /\ Shaped(r)
    BY <1>0, <1>5 DEF PrimaryGate, JobType, PCs, Holding, Shaped, Sweeps, Acts, Pointed
  <2>2. s \in JobType /\ Shaped(s)
    BY <1>0, <1>5 DEF PrimaryGate, JobType, PCs, Holding, Shaped, Sweeps, Acts, Pointed
  <2>3. job' = [job EXCEPT ![p] = r] \/ job' = [job EXCEPT ![p] = s]
    BY <1>0, <1>5 DEF PrimaryGate
  <2> QED
    BY <2>1, <2>2, <2>3 DEF JobStep
<1>6. ASSUME NEW a \in Accounts, NextAccount(p, a) PROVE JobStep(p)
  <2> DEFINE s == [job[p] EXCEPT !.pc = IF job[p].task = Monitor THEN "check" ELSE "close",
                                 !.todo = @ \ {a}, !.acct = a]
             t == [job[p] EXCEPT !.todo = @ \ {a}]
  <2>1. s \in JobType /\ Shaped(s) /\ t \in JobType /\ Shaped(t)
    BY <1>0, <1>6 DEF NextAccount, JobType, PCs, Holding, Shaped, Sweeps, Acts, Pointed
  <2>2. job' = [job EXCEPT ![p] = s] \/ job' = [job EXCEPT ![p] = t]
    BY <1>0, <1>6 DEF NextAccount
  <2> QED
    BY <2>1, <2>2 DEF JobStep
<1>7. CASE BeginReply(p)
  <2>1. CASE status \in {"paused", "cancelled"}
    BY <2>1, <1>7, <1>f DEF BeginReply
  <2>2. CASE status \notin {"paused", "cancelled"}
    <3> DEFINE r == [job[p] EXCEPT !.pc = "next", !.todo = CampaignAccounts]
    <3>1. r \in JobType /\ Shaped(r)
      BY <1>0, <1>7, AccountsAssumption DEF BeginReply, JobType, PCs, Holding, Shaped, Sweeps, Acts, Pointed
    <3>2. job' = [job EXCEPT ![p] = r]
      BY <1>0, <1>7, <2>2 DEF BeginReply
    <3> QED
      BY <3>1, <3>2 DEF JobStep
  <2> QED
    BY <2>1, <2>2
<1>8. CASE ReplyTail(p)
  BY <1>8, <1>f DEF ReplyTail
<1>9. CASE MonitorTail(p)
  <2>1. CASE Step(p, "expire")
    BY <1>0, <1>9, <2>1, <1>s DEF MonitorTail, Shaped, Sweeps, Holding
  <2>2. CASE \E v \in {"done", "waiting"} : Finish(p, v)
    BY <1>9, <2>2, <1>f DEF MonitorTail
  <2> QED
    BY <1>9, <2>1, <2>2 DEF MonitorTail
<1>10. CASE ExpireMonitoring(p)
  BY <1>10, <1>f DEF ExpireMonitoring
<1> QED
  BY <1>1, <1>2, <1>3, <1>4, <1>5, <1>6, <1>7, <1>8, <1>9, <1>10

\* The steps of an introduction.
LEMMA IntroSteps ==
  ASSUME TypeInv, NEW p \in Pods,
         \/ (\E l \in Leads : PickLead(p, l)) \/ NoLeadLeft(p) \/ SendIntro(p) \/ SendFails(p)
         \/ AlreadyMade(p) \/ BrowserDies(p) \/ StampIntro(p) \/ MarkIntro(p) \/ StoreFails(p) \/ QueueFollowUp(p)
  PROVE  JobStep(p)
<1>0. job[p] \in JobType /\ Shaped(job[p]) /\ job \in [Pods -> JobType]
  BY DEF TypeInv, TypeOK, JobInv, JobType, NoneTask
<1>1. ASSUME NEW l \in Leads, PickLead(p, l) PROVE JobStep(p)
  <2> DEFINE s == [job[p] EXCEPT !.work = @ \ {l}]
             r == [job[p] EXCEPT !.pc = "send", !.work = @ \ {l}, !.lead = l]
  <2>1. r \in JobType /\ Shaped(r)
    BY <1>0, <1>1, TaskTypes DEF PickLead, JobType, PCs, Holding, Shaped, Sweeps, Acts, Pointed
  <2>2. s \in JobType /\ Shaped(s)
    BY <1>0, <1>1, TaskTypes DEF PickLead, JobType, PCs, Holding, Shaped, Sweeps, Acts, Pointed
  <2>3. job' = [job EXCEPT ![p] = r] \/ job' = [job EXCEPT ![p] = s]
    BY <1>0, <1>1 DEF PickLead
  <2> QED
    BY <2>1, <2>2, <2>3 DEF JobStep
<1>2. CASE NoLeadLeft(p)
  <2> DEFINE r == [job[p] EXCEPT !.pc = "close"]
  <2>1. r \in JobType /\ Shaped(r)
    BY <1>0, <1>2, TaskTypes DEF NoLeadLeft, JobType, PCs, Holding, Shaped, Sweeps, Acts, Pointed
  <2>2. job' = [job EXCEPT ![p] = r]
    BY <1>0, <1>2 DEF NoLeadLeft, Step
  <2> QED
    BY <2>1, <2>2 DEF JobStep
<1>3. CASE SendIntro(p)
  <2> DEFINE r == [job[p] EXCEPT !.pc = "stamp"]
  <2>1. r \in JobType /\ Shaped(r)
    BY <1>0, <1>3, TaskTypes DEF SendIntro, JobType, PCs, Holding, Shaped, Sweeps, Acts, Pointed
  <2>2. job' = [job EXCEPT ![p] = r]
    BY <1>0, <1>3 DEF SendIntro, Step
  <2> QED
    BY <2>1, <2>2 DEF JobStep
<1>4. CASE SendFails(p)
  <2> DEFINE r == [job[p] EXCEPT !.pc = "pick", !.lead = NoLead]
  <2>1. r \in JobType /\ Shaped(r)
    BY <1>0, <1>4, TaskTypes DEF SendFails, JobType, PCs, Holding, Shaped, Sweeps, Acts, Pointed
  <2>2. job' = [job EXCEPT ![p] = r]
    BY <1>0, <1>4 DEF SendFails, Step
  <2> QED
    BY <2>1, <2>2 DEF JobStep
<1>5. CASE BrowserDies(p)
  <2> DEFINE r == [job[p] EXCEPT !.pc = "close", !.lead = NoLead, !.work = {}]
  <2>1. r \in JobType /\ Shaped(r)
    BY <1>0, <1>5, TaskTypes DEF BrowserDies, JobType, PCs, Holding, Shaped, Sweeps, Acts, Pointed
  <2>2. job' = [job EXCEPT ![p] = r]
    BY <1>0, <1>5 DEF BrowserDies, Step
  <2> QED
    BY <2>1, <2>2 DEF JobStep
<1>6. CASE StampIntro(p)
  <2> DEFINE r == [job[p] EXCEPT !.pc = "note"]
  <2>1. r \in JobType /\ Shaped(r)
    BY <1>0, <1>6, TaskTypes DEF StampIntro, JobType, PCs, Holding, Shaped, Sweeps, Acts, Pointed
  <2>2. job' = [job EXCEPT ![p] = r]
    BY <1>0, <1>6 DEF StampIntro, Step
  <2> QED
    BY <2>1, <2>2 DEF JobStep
<1>9. CASE MarkIntro(p)
  <2> DEFINE r == [job[p] EXCEPT !.pc = "queue"]
             s == [job[p] EXCEPT !.pc = "pick", !.lead = NoLead]
  <2>1. r \in JobType /\ Shaped(r)
    BY <1>0, <1>9, TaskTypes DEF MarkIntro, JobType, PCs, Holding, Shaped, Sweeps, Acts, Pointed
  <2>2. s \in JobType /\ Shaped(s)
    BY <1>0, <1>9, TaskTypes DEF MarkIntro, JobType, PCs, Holding, Shaped, Sweeps, Acts, Pointed
  <2>3. job' = [job EXCEPT ![p] = r] \/ job' = [job EXCEPT ![p] = s]
    BY <1>0, <1>9 DEF MarkIntro, Step
  <2> QED
    BY <2>1, <2>2, <2>3 DEF JobStep
<1>10. CASE AlreadyMade(p)
  <2> DEFINE r == [job[p] EXCEPT !.pc = "pick", !.lead = NoLead]
  <2>1. r \in JobType /\ Shaped(r)
    BY <1>0, <1>10, TaskTypes DEF AlreadyMade, JobType, PCs, Holding, Shaped, Sweeps, Acts, Pointed
  <2>2. job' = [job EXCEPT ![p] = r]
    BY <1>0, <1>10 DEF AlreadyMade, Step
  <2> QED
    BY <2>1, <2>2 DEF JobStep
<1>7. CASE StoreFails(p)
  <2> DEFINE r == [job[p] EXCEPT !.pc = "close", !.lead = NoLead, !.work = {}]
  <2>1. r \in JobType /\ Shaped(r)
    BY <1>0, <1>7, TaskTypes DEF StoreFails, JobType, PCs, Holding, Shaped, Sweeps, Acts, Pointed
  <2>2. job' = [job EXCEPT ![p] = r]
    BY <1>0, <1>7 DEF StoreFails, Step
  <2> QED
    BY <2>1, <2>2 DEF JobStep
<1>8. CASE QueueFollowUp(p)
  <2> DEFINE r == [job[p] EXCEPT !.pc = "pick", !.lead = NoLead]
  <2>1. r \in JobType /\ Shaped(r)
    BY <1>0, <1>8, TaskTypes DEF QueueFollowUp, JobType, PCs, Holding, Shaped, Sweeps, Acts, Pointed
  <2>2. job' = [job EXCEPT ![p] = r]
    BY <1>0, <1>8 DEF QueueFollowUp, Step
  <2> QED
    BY <2>1, <2>2 DEF JobStep
<1> QED
  BY <1>1, <1>2, <1>3, <1>4, <1>5, <1>6, <1>7, <1>8, <1>9, <1>10

\* A handler that has just claimed its task.
Claimed(r, t) ==
    /\ r.task = t /\ r.acct = NoAccount /\ r.res = "done" /\ r.work = {}
    /\ \/ t \in {Monitor, Reply} /\ r.pc = "begin" /\ r.lead = NoLead
       \/ \E l \in Leads : t = Follow(l) /\ r.pc = "guard" /\ r.lead = l
       \/ \E a \in CampaignAccounts : t = Accept(a) /\ r.pc = "take" /\ r.lead = NoLead

\* A claim starts the handler of the task's type.
LEMMA ClaimStep ==
  ASSUME NEW p \in Pods, NEW t \in Tasks, ClaimNextDueTask(p, t)
  PROVE  \E r \in JobType : Shaped(r) /\ Claimed(r, t) /\ job' = [job EXCEPT ![p] = r]
<1> DEFINE pc == CASE t[1] \in {"monitor", "reply"} -> "begin"
                   [] t[1] = "follow_up" -> "guard"
                   [] t[1] = "accept" -> "take"
           lead == IF t[1] = "follow_up" THEN t[2] ELSE NoLead
           r == [Idle EXCEPT !.task = t, !.pc = pc, !.lead = lead,
                             !.wide = t = Monitor /\ scope = "all"]
<1>1. \/ t \in {Monitor, Reply} /\ pc = "begin" /\ lead = NoLead
      \/ \E l \in Leads : t = Follow(l) /\ pc = "guard" /\ lead = l
      \/ \E a \in CampaignAccounts : t = Accept(a) /\ pc = "take" /\ lead = NoLead
  BY TaskTypes, TaskCases
<1>2. r \in JobType /\ Shaped(r)
  BY <1>1, IdleShaped DEF Idle, JobType, PCs, Holding, Shaped, Sweeps, Acts, Pointed
<1>3. Claimed(r, t)
  BY <1>1 DEF Claimed, Idle
<1>4. job' = [job EXCEPT ![p] = r]
  BY DEF ClaimNextDueTask
<1> QED
  BY <1>2, <1>3, <1>4

\* The steps of a follow-up and of an accepted invitation, and the end of any handler.
LEMMA ActSteps ==
  ASSUME TypeInv, NEW p \in Pods,
         \/ Close(p) \/ WasActionSent(p) \/ TakePrimary(p) \/ Act(p) \/ ActFails(p)
         \/ MarkFollowUp(p) \/ Settle(p) \/ (\E t \in Tasks : ClaimNextDueTask(p, t))
  PROVE  JobStep(p)
<1>0. job[p] \in JobType /\ Shaped(job[p]) /\ job \in [Pods -> JobType]
  BY DEF TypeInv, TypeOK, JobInv, JobType, NoneTask
<1>f. ASSUME NEW v \in {"done", "error", "waiting"}, Finish(p, v), job[p].pc # "idle"
      PROVE  JobStep(p)
  BY <1>f, FinishShaped DEF Finish, JobStep
<1>1. CASE Close(p)
  <2> DEFINE r == [job[p] EXCEPT !.pc = "next", !.acct = NoAccount]
             s == [job[p] EXCEPT !.pc = "mark", !.acct = NoAccount]
  <2>1. CASE job[p].task \in {Monitor, Reply}
    <3>1. r \in JobType /\ Shaped(r)
      BY <1>0, <1>1, <2>1, TaskTypes DEF Close, JobType, PCs, Holding, Shaped, Sweeps, Acts, Pointed
    <3>2. job' = [job EXCEPT ![p] = r]
      BY <1>0, <1>1, <2>1, TaskTypes DEF Close
    <3> QED
      BY <3>1, <3>2 DEF JobStep
  <2>2. CASE job[p].task \notin {Monitor, Reply} /\ job[p].task[1] = "follow_up" /\ job[p].res = "done"
    <3>0. Pointed(job[p]) /\ job[p].lead \in Leads
      BY <1>0, <1>1, <2>2, TaskTypes DEF Close, Shaped, Pointed
    <3>1. s \in JobType /\ Shaped(s)
      BY <1>0, <1>1, <2>2, <3>0, TaskTypes DEF Close, JobType, PCs, Holding, Shaped, Sweeps, Acts, Pointed
    <3>2. job' = [job EXCEPT ![p] = s]
      BY <1>0, <1>1, <2>2 DEF Close
    <3> QED
      BY <3>1, <3>2 DEF JobStep
  <2>3. CASE job[p].task \notin {Monitor, Reply} /\ ~(job[p].task[1] = "follow_up" /\ job[p].res = "done")
    <3>1. Finish(p, job[p].res) /\ job[p].res \in {"done", "error", "waiting"}
      BY <1>0, <1>1, <2>3 DEF Close, JobType
    <3> QED
      BY <1>1, <3>1, <1>f DEF Close
  <2> QED
    BY <2>1, <2>2, <2>3
<1>2. CASE WasActionSent(p)
  <2> DEFINE r == [job[p] EXCEPT !.pc = "take"]
  <2>1. r \in JobType /\ Shaped(r)
    BY <1>0, <1>2, TaskTypes DEF WasActionSent, JobType, PCs, Holding, Shaped, Sweeps, Acts, Pointed
  <2>2. job' = [job EXCEPT ![p] = r] \/ Finish(p, "done")
    BY <1>0, <1>2 DEF WasActionSent, Step
  <2> QED
    BY <1>2, <2>1, <2>2, <1>f DEF JobStep, WasActionSent
<1>3. CASE TakePrimary(p)
  <2> DEFINE r == [job[p] EXCEPT !.pc = "act", !.acct = Primary]
  <2>1. r \in JobType /\ Shaped(r)
    BY <1>0, <1>3, TaskTypes, AccountsAssumption DEF TakePrimary, JobType, PCs, Holding, Shaped, Sweeps, Acts, Pointed
  <2>2. job' = [job EXCEPT ![p] = r] \/ Finish(p, "waiting")
    BY <1>0, <1>3 DEF TakePrimary
  <2> QED
    BY <1>3, <2>1, <2>2, <1>f DEF JobStep, TakePrimary
<1>4. CASE Act(p)
  <2> DEFINE r == [job[p] EXCEPT !.pc = "close"]
  <2>1. r \in JobType /\ Shaped(r)
    BY <1>0, <1>4, TaskTypes DEF Act, JobType, PCs, Holding, Shaped, Sweeps, Acts, Pointed
  <2>2. job' = [job EXCEPT ![p] = r]
    BY <1>0, <1>4 DEF Act, Step
  <2> QED
    BY <2>1, <2>2 DEF JobStep
<1>5. CASE ActFails(p)
  <2> DEFINE r == [job[p] EXCEPT !.pc = "close", !.res = "error"]
  <2>1. r \in JobType /\ Shaped(r)
    BY <1>0, <1>5, TaskTypes DEF ActFails, JobType, PCs, Holding, Shaped, Sweeps, Acts, Pointed
  <2>2. job' = [job EXCEPT ![p] = r]
    BY <1>0, <1>5 DEF ActFails, Step
  <2> QED
    BY <2>1, <2>2 DEF JobStep
<1>6. CASE MarkFollowUp(p)
  BY <1>6, <1>f DEF MarkFollowUp
<1>7. CASE Settle(p)
  BY <1>7, IdleShaped DEF Settle, JobStep
<1>8. ASSUME NEW t \in Tasks, ClaimNextDueTask(p, t) PROVE JobStep(p)
  BY <1>8, ClaimStep DEF JobStep, Claimed
<1> QED
  BY <1>1, <1>2, <1>3, <1>4, <1>5, <1>6, <1>7, <1>8

\* Everything but the handlers.
RestOK ==
    /\ status \in {"running", "monitoring", "paused", "cancelled", "done"}
    /\ auto \in BOOLEAN
    /\ ending \in Pods \union {Frontend, NoPod}
    /\ row \in [Tasks -> {"none", "waiting", "due", "claimed", "overdue", "done", "error"}]
    /\ scope \in {"campaign", "all"}
    /\ lock \in [Accounts -> Pods \union {NoPod}]
    /\ up \in [Pods -> BOOLEAN]
    /\ turn \in [Pods -> Accounts \union {NoAccount}]
    /\ primary \in [CampaignAccounts -> {"unread", "invited", "connected"}]
    /\ stage \in [Leads -> {"invited", "accepted", "stamped", "introduced", "closed"}]
    /\ marked \subseteq {"intro", "follow_up"} \X Leads
    /\ intros \in [Leads -> Nat] /\ fus \in [Leads -> Nat]
    /\ late \in Nat /\ revived \in 0 .. MaxOps /\ revived <= ops
    /\ lapses \in [Accounts -> Nat]
    /\ ops \in 0 .. MaxOps /\ turns \in 0 .. MaxTurns /\ faults \in 0 .. MaxFaults

\* The two halves of the type invariant.
LEMMA TypeParts == TypeInv <=> RestOK /\ job \in [Pods -> JobType] /\ JobInv
  BY BoundsAssumption DEF TypeInv, TypeOK, RestOK, JobType, NoneTask

\* Creating tasks keeps the rows' type.
LEMMA CreateType ==
  ASSUME NEW ts, row \in [Tasks -> {"none", "waiting", "due", "claimed", "overdue", "done", "error"}],
         CreateTasks(ts)
  PROVE  row' \in [Tasks -> {"none", "waiting", "due", "claimed", "overdue", "done", "error"}]
  BY DEF CreateTasks

\* The steps of a handler keep the rest well typed.
LEMMA HandlerRest ==
  ASSUME TypeInv, NEW p \in Pods,
         \/ Handler(p) \/ StoreFails(p) \/ Settle(p)
         \/ \E t \in Tasks : ClaimNextDueTask(p, t)
  PROVE  RestOK'
<1>0. RestOK /\ job[p] \in JobType /\ Shaped(job[p])
  BY TypeParts DEF JobInv
<1> USE DEF bounds, campVars, taskVars, leadVars, histVars
<1>1. CASE BeginMonitor(p)
  BY <1>0, <1>1 DEF BeginMonitor, RestOK, JobType, Shaped, Holding
<1>2. CASE NoAccountLeft(p)
  BY <1>0, <1>2 DEF NoAccountLeft, RestOK, JobType, Shaped, Holding
<1>3. CASE RunBulkCheck(p)
  BY <1>0, <1>3 DEF RunBulkCheck, RestOK, JobType, Shaped, Holding
<1>4. CASE CheckFails(p)
  BY <1>0, <1>4 DEF CheckFails, RestOK, JobType, Shaped, Holding
<1>5. CASE PrimaryGate(p)
  BY <1>0, <1>5, CreateType DEF PrimaryGate, RestOK, JobType, Shaped, Holding
<1>6. CASE \E a \in Accounts : NextAccount(p, a)
  BY <1>0, <1>6 DEF NextAccount, RestOK, JobType, Shaped, Holding
<1>7. CASE \E l \in Leads : PickLead(p, l)
  BY <1>0, <1>7 DEF PickLead, RestOK, JobType, Shaped, Holding
<1>8. CASE NoLeadLeft(p)
  BY <1>0, <1>8 DEF NoLeadLeft, RestOK, JobType, Shaped, Holding
<1>9. CASE SendIntro(p)
  BY <1>0, <1>9 DEF SendIntro, RestOK, JobType, Shaped, Holding
<1>10. CASE SendFails(p)
  BY <1>0, <1>10 DEF SendFails, RestOK, JobType, Shaped, Holding
<1>11. CASE BrowserDies(p)
  BY <1>0, <1>11 DEF BrowserDies, RestOK, JobType, Shaped, Holding
<1>12. CASE StampIntro(p)
  BY <1>0, <1>12 DEF StampIntro, RestOK, JobType, Shaped, Holding
<1>27. CASE MarkIntro(p)
  BY <1>0, <1>27 DEF MarkIntro, RestOK, JobType, Shaped, Holding
<1>28. CASE AlreadyMade(p)
  BY <1>0, <1>28 DEF AlreadyMade, RestOK, JobType, Shaped, Holding
<1>13. CASE QueueFollowUp(p)
  BY <1>0, <1>13, CreateType DEF QueueFollowUp, RestOK, JobType, Shaped, Holding
<1>14. CASE Close(p)
  BY <1>0, <1>14 DEF Close, RestOK, JobType, Shaped, Holding
<1>15. CASE MonitorTail(p)
  BY <1>0, <1>15 DEF MonitorTail, RestOK, JobType, Shaped, Holding
<1>16. CASE ExpireMonitoring(p)
  BY <1>0, <1>16 DEF ExpireMonitoring, RestOK, JobType, Shaped, Holding
<1>17. CASE BeginReply(p)
  BY <1>0, <1>17 DEF BeginReply, RestOK, JobType, Shaped, Holding
<1>18. CASE ReplyTail(p)
  BY <1>0, <1>18 DEF ReplyTail, RestOK, JobType, Shaped, Holding
<1>19. CASE WasActionSent(p)
  BY <1>0, <1>19 DEF WasActionSent, RestOK, JobType, Shaped, Holding
<1>20. CASE TakePrimary(p)
  BY <1>0, <1>20 DEF TakePrimary, RestOK, JobType, Shaped, Holding
<1>21. CASE Act(p)
  BY <1>0, <1>21 DEF Act, RestOK, JobType, Shaped, Holding
<1>22. CASE ActFails(p)
  BY <1>0, <1>22 DEF ActFails, RestOK, JobType, Shaped, Holding
<1>23. CASE MarkFollowUp(p)
  BY <1>0, <1>23 DEF MarkFollowUp, RestOK, JobType, Shaped, Holding
<1>24. CASE StoreFails(p)
  BY <1>0, <1>24, BoundsAssumption DEF StoreFails, RestOK, Fault
<1>25. CASE Settle(p)
  BY <1>0, <1>25 DEF Settle, RestOK, JobType, Shaped, Holding
<1>26. CASE \E t \in Tasks : ClaimNextDueTask(p, t)
  <2>1. PICK t \in Tasks : ClaimNextDueTask(p, t)
    BY <1>26
  <2>2. /\ row' = [row EXCEPT ![t] = "claimed"]
        /\ UNCHANGED <<campVars, scope, lock, up, turn, leadVars, histVars, bounds>>
    BY <2>1 DEF ClaimNextDueTask
  <2> QED
    BY <1>0, <2>2 DEF RestOK
<1> QED
  BY <1>1, <1>2, <1>3, <1>4, <1>5, <1>6, <1>7, <1>8, <1>9, <1>10, <1>11, <1>12, <1>13, <1>14, <1>15, <1>16, <1>17, <1>18, <1>19, <1>20, <1>21, <1>22, <1>23, <1>24, <1>25, <1>26, <1>27, <1>28 DEF Handler

\* Steps that touch no handler, or stop a pod.
LEMMA WorldRest ==
  ASSUME TypeInv, FinishTransition \/ Operator \/ World \/ \E p \in Pods : PassEnds(p)
                  \/ ReapOrphanedTasks(p)
  PROVE  RestOK'
<1>0. RestOK
  BY TypeParts
<1>r. row \in [Tasks -> {"none", "waiting", "due", "claimed", "overdue", "done", "error"}]
  BY <1>0 DEF RestOK
<1> USE DEF bounds, campVars, taskVars, leadVars, histVars
<1>1. CASE \E p \in Pods : PassEnds(p)
  BY <1>0, <1>r, CreateType, <1>1 DEF PassEnds, ArmTransition, RestOK
<1>2. CASE FinishTransition
  BY <1>0, <1>2 DEF FinishTransition, RestOK
<1>3. CASE KeepMonitoring
  BY <1>0, <1>r, CreateType, BoundsAssumption, <1>3 DEF KeepMonitoring, ArmTransition, Operate, RestOK
<1>4. CASE Stop
  BY <1>0, BoundsAssumption, <1>4 DEF Stop, Operate, RestOK
<1>5. CASE Resume
  BY <1>0, BoundsAssumption, <1>5 DEF Resume, Operate, RestOK
<1>6. CASE CheckNow
  BY <1>0, TaskTypes, BoundsAssumption, <1>6 DEF CheckNow, ArmMonitor, Operate, RestOK
<1>7. CASE \E e \in BOOLEAN : AutoChecks(e)
  BY <1>0, TaskTypes, BoundsAssumption, <1>7 DEF AutoChecks, ArmMonitor, Operate, RestOK
<1>8. CASE \E l \in Leads : AcceptsInvitation(l)
  BY <1>0, <1>8 DEF AcceptsInvitation, RestOK
<1>9. CASE \E t \in Tasks : BecomeDue(t) \/ ClaimAges(t)
  BY <1>0, <1>9 DEF BecomeDue, ClaimAges, RestOK
<1>10. CASE \E a \in Accounts : LockExpires(a) \/ LockLapses(a)
  BY <1>0, <1>10 DEF LockExpires, LockLapses, RestOK
<1>11. CASE \E p \in Pods : Kill(p)
  BY <1>0, BoundsAssumption, <1>11 DEF Kill, PodStops, Fault, RestOK
<1>12. CASE \E p \in Pods : ScaleDown(p)
  BY <1>0, <1>12 DEF ScaleDown, PodStops, RestOK
<1>13. CASE \E p \in Pods : PodStarts(p)
  BY <1>0, <1>13 DEF PodStarts, RestOK
<1>14. CASE \E p \in Pods : StoreFails(p)
  BY <1>0, HandlerRest, <1>14
<1>15. CASE \E p \in Pods : TurnLeaves(p)
  BY <1>0, <1>15 DEF TurnLeaves, RestOK
<1>16. CASE \E p \in Pods, a \in Accounts : TurnTakes(p, a)
  BY <1>0, BoundsAssumption, <1>16 DEF TurnTakes, MayHappen, RestOK
<1>17. CASE \E p \in Pods : ReapOrphanedTasks(p)
  BY <1>0, <1>17 DEF ReapOrphanedTasks, RestOK
<1> QED
  BY <1>1, <1>2, <1>3, <1>4, <1>5, <1>6, <1>7, <1>8, <1>9, <1>10, <1>11, <1>12, <1>13, <1>14, <1>15, <1>16, <1>17 DEF Operator, World

\* A pod that stops takes its handler with it.
LEMMA PodStopsStep == ASSUME TypeInv, NEW p \in Pods, PodStops(p) PROVE JobStep(p)
  BY IdleShaped DEF PodStops, JobStep

\* The type invariant holds at the start.
LEMMA TypeInit == Init => TypeInv
<1> SUFFICES ASSUME Init PROVE TypeInv
  OBVIOUS
<1>1. RestOK
  BY BoundsAssumption DEF Init, RestOK
<1>2. job \in [Pods -> JobType] /\ JobInv
  BY IdleShaped DEF Init, JobInv
<1> QED
  BY <1>1, <1>2, TypeParts

\* Every step keeps it.
LEMMA TypeNext == TypeInv /\ [Next]_vars => TypeInv'
<1> SUFFICES ASSUME TypeInv, [Next]_vars PROVE TypeInv'
  OBVIOUS
<1>0. job \in [Pods -> JobType] /\ JobInv /\ RestOK
  BY TypeParts
<1>p. (RestOK /\ job \in [Pods -> JobType] /\ JobInv)' => TypeInv'
  BY TypeParts, BoundsAssumption DEF TypeInv, TypeOK, RestOK, JobType, NoneTask
<1>m. ASSUME NEW p \in Pods, JobStep(p), RestOK' PROVE TypeInv'
  <2>1. job' \in [Pods -> JobType] /\ JobInv'
    BY <1>m, OneJob DEF JobStep
  <2> QED
    BY <2>1, <1>m, <1>p
<1>u. ASSUME job' = job, RestOK' PROVE TypeInv'
  BY <1>0, <1>u, <1>p DEF JobInv
<1>1. ASSUME NEW p \in Pods, Handler(p) \/ Settle(p) \/ StoreFails(p)
                              \/ \E t \in Tasks : ClaimNextDueTask(p, t)
      PROVE  TypeInv'
  <2>1. JobStep(p)
    BY <1>1, SweepSteps, IntroSteps, ActSteps DEF Handler
  <2> QED
    BY <1>1, <2>1, <1>m, HandlerRest
<1>2. ASSUME NEW p \in Pods, Kill(p) \/ ScaleDown(p) PROVE TypeInv'
  <2>1. JobStep(p)
    BY <1>2, PodStopsStep DEF Kill, ScaleDown
  <2>2. RestOK'
    BY <1>2, WorldRest DEF World
  <2> QED
    BY <2>1, <2>2, <1>m
<1>3. ASSUME NEW p \in Pods, PassEnds(p) \/ ReapOrphanedTasks(p) PROVE TypeInv'
  <2>1. job' = job
    BY <1>3 DEF PassEnds, ArmTransition, ReapOrphanedTasks
  <2> QED
    BY <1>3, <2>1, <1>u, WorldRest
<1>4. CASE FinishTransition \/ Operator
  <2>1. job' = job
    BY <1>4 DEF FinishTransition, Operator, KeepMonitoring, ArmTransition, Stop, Resume, CheckNow,
                AutoChecks
  <2> QED
    BY <1>4, <2>1, <1>u, WorldRest
<1>5. CASE \/ \E l \in Leads : AcceptsInvitation(l)
           \/ \E t \in Tasks : BecomeDue(t) \/ ClaimAges(t)
           \/ \E a \in Accounts : LockExpires(a) \/ LockLapses(a)
           \/ \E p \in Pods : PodStarts(p) \/ TurnLeaves(p) \/ \E a \in Accounts : TurnTakes(p, a)
  <2>1. job' = job
    BY <1>5 DEF AcceptsInvitation, BecomeDue, ClaimAges, LockExpires, LockLapses, PodStarts, TurnLeaves, TurnTakes
  <2>2. RestOK'
    BY <1>5, WorldRest DEF World
  <2> QED
    BY <2>1, <2>2, <1>u
<1>6. CASE UNCHANGED vars
  BY <1>0, <1>6, <1>u DEF vars, RestOK, campVars, taskVars, leadVars, histVars, bounds
<1> QED
  BY <1>1, <1>2, <1>3, <1>4, <1>5, <1>6 DEF Next, Scheduler, World

\* Every variable keeps its type: the tasks, the handlers' positions with what they hold,
\* and the requests, of which those that revive the monitor task are a part.
THEOREM TypeCorrect == Spec => []TypeOK
<1>1. TypeInv => TypeOK
  BY DEF TypeInv
<1> QED
  BY TypeInit, TypeNext, <1>1, PTL DEF Spec

-----------------------------------------------------------------------------
(* The account locks.                                                      *)

\* How many drive an account, and the account of them: all but one of them, and all if the
\* lock's owner is none of them, came in by a lapse.
Drivers(a) == Cardinality(Handlers(a)) + Cardinality(Turns(a))
Backed(a)  == Drivers(a) <= lapses[a] + IF lock[a] \in Handlers(a) \union Turns(a) THEN 1 ELSE 0
LockInv    == \A a \in Accounts : Backed(a)

\* A handler takes up an account only by its lock, and leaves it only in Close.
LEMMA AccountKept ==
  ASSUME TypeInv, NEW p \in Pods,
         Handler(p) \/ Settle(p) \/ StoreFails(p) \/ \E t \in Tasks : ClaimNextDueTask(p, t),
         ~Close(p), ~TakePrimary(p), \A a \in Accounts : ~NextAccount(p, a)
  PROVE  /\ job'[p].acct = job[p].acct
         /\ \A q \in Pods \ {p} : job'[q] = job[q]
         /\ lock' = lock /\ turn' = turn /\ lapses' = lapses
<1>0. job[p] \in JobType /\ Shaped(job[p]) /\ job \in [Pods -> JobType]
  BY TypeParts DEF JobInv
<1>1. \A q \in Pods \ {p} : job'[q] = job[q]
  BY SweepSteps, IntroSteps, ActSteps, <1>0 DEF Handler, JobStep
<1>2. lock' = lock /\ turn' = turn /\ lapses' = lapses
  BY DEF histVars, Handler, BeginMonitor, NoAccountLeft, RunBulkCheck, CheckFails, PrimaryGate, PickLead,
         NoLeadLeft, SendIntro, SendFails, AlreadyMade, BrowserDies, StampIntro, MarkIntro, StoreFails, QueueFollowUp,
         MonitorTail, ExpireMonitoring, BeginReply, ReplyTail, WasActionSent, Act, ActFails,
         MarkFollowUp, Settle, ClaimNextDueTask
<1>f. ASSUME NEW v, Finish(p, v), job[p].pc \notin Holding PROVE job'[p].acct = job[p].acct
  <2>1. job'[p].acct = NoAccount
    BY <1>0, <1>f DEF Finish, Idle
  <2>2. job[p].acct = NoAccount
    BY <1>0, <1>f DEF Shaped
  <2> QED
    BY <2>1, <2>2
<1> USE DEF JobType, Holding, Step
<1>3. CASE BeginMonitor(p)
  <2>1. job'[p].acct = job[p].acct
    BY <1>0, <1>3, <1>f DEF BeginMonitor
  <2> QED
    BY <2>1, <1>1, <1>2
<1>4. CASE NoAccountLeft(p) \/ CheckFails(p)
  <2>1. job'[p].acct = job[p].acct
    BY <1>0, <1>4 DEF NoAccountLeft, CheckFails
  <2> QED
    BY <2>1, <1>1, <1>2
<1>5. CASE RunBulkCheck(p)
  <2>1. job'[p].acct = job[p].acct
    BY <1>0, <1>5 DEF RunBulkCheck
  <2> QED
    BY <2>1, <1>1, <1>2
<1>6. CASE PrimaryGate(p)
  <2>1. job'[p].acct = job[p].acct
    BY <1>0, <1>6 DEF PrimaryGate
  <2> QED
    BY <2>1, <1>1, <1>2
<1>7. CASE \E l \in Leads : PickLead(p, l)
  <2>1. job'[p].acct = job[p].acct
    BY <1>0, <1>7 DEF PickLead
  <2> QED
    BY <2>1, <1>1, <1>2
<1>8. CASE NoLeadLeft(p) \/ SendIntro(p) \/ SendFails(p) \/ AlreadyMade(p) \/ BrowserDies(p)
  <2>1. job'[p].acct = job[p].acct
    BY <1>0, <1>8 DEF NoLeadLeft, SendIntro, SendFails, AlreadyMade, BrowserDies
  <2> QED
    BY <2>1, <1>1, <1>2
<1>9. CASE StampIntro(p) \/ MarkIntro(p) \/ StoreFails(p) \/ QueueFollowUp(p)
  <2>1. job'[p].acct = job[p].acct
    BY <1>0, <1>9 DEF StampIntro, MarkIntro, StoreFails, QueueFollowUp
  <2> QED
    BY <2>1, <1>1, <1>2
<1>10. CASE MonitorTail(p)
  <2>1. job'[p].acct = job[p].acct
    BY <1>0, <1>10, <1>f DEF MonitorTail
  <2> QED
    BY <2>1, <1>1, <1>2
<1>11. CASE ExpireMonitoring(p) \/ BeginReply(p) \/ ReplyTail(p)
  <2>1. job'[p].acct = job[p].acct
    BY <1>0, <1>11, <1>f DEF ExpireMonitoring, BeginReply, ReplyTail
  <2> QED
    BY <2>1, <1>1, <1>2
<1>12. CASE WasActionSent(p) \/ Act(p) \/ ActFails(p) \/ MarkFollowUp(p)
  <2>1. job'[p].acct = job[p].acct
    BY <1>0, <1>12, <1>f DEF WasActionSent, Act, ActFails, MarkFollowUp
  <2> QED
    BY <2>1, <1>1, <1>2
<1>13. CASE Settle(p)
  <2>1. job'[p].acct = job[p].acct
    BY <1>0, <1>13 DEF Settle, Shaped, Idle
  <2> QED
    BY <2>1, <1>1, <1>2
<1>14. ASSUME NEW t \in Tasks, ClaimNextDueTask(p, t) PROVE job'[p].acct = job[p].acct
  <2>1. job'[p].acct = NoAccount
    BY <1>0, <1>14, ClaimStep DEF Claimed
  <2> QED
    BY <1>0, <1>14, <2>1 DEF ClaimNextDueTask, Shaped
<1> QED
  BY <1>1, <1>2, <1>3, <1>4, <1>5, <1>6, <1>7, <1>8, <1>9, <1>10, <1>11, <1>12, <1>13, <1>14 DEF Handler

\* Nobody works at the start.
LEMMA LockInit == Init => LockInv
<1> SUFFICES ASSUME Init, NEW a \in Accounts PROVE Backed(a)
  BY DEF LockInv
<1>1. Handlers(a) = {} /\ Turns(a) = {} /\ lapses[a] = 0
  BY NonesAssumption DEF Init, Handlers, Turns, Idle
<1>2. Cardinality({}) = 0
  BY FS_EmptySet
<1> QED
  BY <1>1, <1>2 DEF Backed, Drivers

\* The drivers are finitely many.
LEMMA DriversFinite ==
  ASSUME NEW a
  PROVE  /\ IsFiniteSet(Handlers(a)) /\ IsFiniteSet(Turns(a))
         /\ Cardinality(Handlers(a)) \in Nat /\ Cardinality(Turns(a)) \in Nat
<1>1. Handlers(a) \subseteq Pods /\ Turns(a) \subseteq Pods
  BY DEF Handlers, Turns
<1>2. IsFiniteSet(Handlers(a)) /\ IsFiniteSet(Turns(a))
  BY <1>1, PodsAssumption, FS_Subset
<1> QED
  BY <1>2, FS_CardinalityType

\* Whoever joins by a lock that was free becomes its owner.
LEMMA Joins ==
  ASSUME TypeInv, NEW a \in Accounts, NEW p \in Pods, Backed(a), lock[a] = NoPod,
         lock'[a] = p, lapses'[a] = lapses[a],
         \/ Handlers(a)' = Handlers(a) \union {p} /\ Turns(a)' = Turns(a)
         \/ Handlers(a)' = Handlers(a) /\ Turns(a)' = Turns(a) \union {p}
  PROVE  Backed(a)'
<1>1. /\ Cardinality(Handlers(a) \union {p}) <= Cardinality(Handlers(a)) + 1
      /\ Cardinality(Turns(a) \union {p}) <= Cardinality(Turns(a)) + 1
      /\ Cardinality(Handlers(a) \union {p}) \in Nat /\ Cardinality(Turns(a) \union {p}) \in Nat
      /\ Cardinality(Handlers(a)) \in Nat /\ Cardinality(Turns(a)) \in Nat
  <2>1. IsFiniteSet(Handlers(a)) /\ IsFiniteSet(Turns(a))
    BY DriversFinite
  <2>2. Cardinality(Handlers(a)) \in Nat /\ Cardinality(Turns(a)) \in Nat
    BY DriversFinite
  <2>3. Cardinality(Handlers(a) \union {p}) \in {Cardinality(Handlers(a)), Cardinality(Handlers(a)) + 1}
    BY <2>1, FS_AddElement
  <2>4. Cardinality(Turns(a) \union {p}) \in {Cardinality(Turns(a)), Cardinality(Turns(a)) + 1}
    BY <2>1, FS_AddElement
  <2> QED
    BY <2>2, <2>3, <2>4
<1>2. lock[a] \notin Handlers(a) \union Turns(a)
  BY NonesAssumption DEF Handlers, Turns
<1>3. Drivers(a) <= lapses[a] /\ lapses[a] \in Nat
  <2>1. lapses[a] \in Nat
    BY TypeParts DEF RestOK
  <2> QED
    BY <1>1, <1>2, <2>1 DEF Backed, Drivers
<1>4. Drivers(a)' <= Drivers(a) + 1 /\ Drivers(a)' \in Nat /\ Drivers(a) \in Nat
  <2>1. CASE Handlers(a)' = Handlers(a) \union {p} /\ Turns(a)' = Turns(a)
    BY <1>1, <2>1 DEF Drivers
  <2>2. CASE Handlers(a)' = Handlers(a) /\ Turns(a)' = Turns(a) \union {p}
    BY <1>1, <2>2 DEF Drivers
  <2> QED
    BY <2>1, <2>2
<1>5. lock'[a] \in Handlers(a)' \union Turns(a)'
  OBVIOUS
<1> QED
  BY <1>3, <1>4, <1>5 DEF Backed

\* Whoever leaves frees the lock only if it is its own, and is one driver less.
LEMMA Leaves ==
  ASSUME TypeInv, NEW a \in Accounts, NEW p \in Pods, Backed(a),
         Handlers(a)' \in {Handlers(a), Handlers(a) \ {p}},
         Turns(a)' \in {Turns(a), Turns(a) \ {p}},
         p \in Handlers(a) \union Turns(a) => Handlers(a)' # Handlers(a) \/ Turns(a)' # Turns(a),
         \/ lock'[a] = lock[a] /\ p \notin Handlers(a)' \union Turns(a)'
         \/ lock'[a] = lock[a] /\ lock[a] # p
         \/ lock'[a] = NoPod /\ lock[a] = p,
         lapses'[a] = lapses[a]
  PROVE  Backed(a)'
<1> DEFINE H == Handlers(a)
           T == Turns(a)
<1>1. /\ Cardinality(H \ {p}) = IF p \in H THEN Cardinality(H) - 1 ELSE Cardinality(H)
      /\ Cardinality(T \ {p}) = IF p \in T THEN Cardinality(T) - 1 ELSE Cardinality(T)
      /\ Cardinality(H \ {p}) \in Nat /\ Cardinality(T \ {p}) \in Nat
      /\ Cardinality(H) \in Nat /\ Cardinality(T) \in Nat
  <2>1. IsFiniteSet(H) /\ IsFiniteSet(T)
    BY DriversFinite
  <2>2. IsFiniteSet(H \ {p}) /\ IsFiniteSet(T \ {p})
    BY <2>1, FS_RemoveElement
  <2> QED
    BY <2>1, <2>2, FS_RemoveElement, FS_CardinalityType
<1>h. /\ Cardinality(Handlers(a)') \in Nat /\ Cardinality(Handlers(a)') <= Cardinality(H)
      /\ p \in H /\ Handlers(a)' # H => Cardinality(Handlers(a)') = Cardinality(H) - 1
  <2>1. CASE Handlers(a)' = H
    BY <1>1, <2>1
  <2>2. CASE Handlers(a)' = H \ {p}
    <3>1. Cardinality(Handlers(a)') = Cardinality(H \ {p})
      BY <2>2
    <3> QED
      BY <1>1, <3>1, <2>2
  <2> QED
    BY <2>1, <2>2
<1>i. /\ Cardinality(Turns(a)') \in Nat /\ Cardinality(Turns(a)') <= Cardinality(T)
      /\ p \in T /\ Turns(a)' # T => Cardinality(Turns(a)') = Cardinality(T) - 1
  <2>1. CASE Turns(a)' = T
    BY <1>1, <2>1
  <2>2. CASE Turns(a)' = T \ {p}
    <3>1. Cardinality(Turns(a)') = Cardinality(T \ {p})
      BY <2>2
    <3> QED
      BY <1>1, <3>1, <2>2
  <2> QED
    BY <2>1, <2>2
<1>2. Drivers(a)' <= Drivers(a) /\ Drivers(a)' \in Nat /\ Drivers(a) \in Nat
  BY <1>1, <1>h, <1>i DEF Drivers
<1>3. p \in H \union T => Drivers(a)' <= Drivers(a) - 1
  <2>1. Handlers(a)' # H => Handlers(a)' = H \ {p} /\ p \in H
    OBVIOUS
  <2>2. Turns(a)' # T => Turns(a)' = T \ {p} /\ p \in T
    OBVIOUS
  <2>3. p \in H \union T => Handlers(a)' # H \/ Turns(a)' # T
    OBVIOUS
  <2>4. CASE p \in H /\ Handlers(a)' # H
    BY <1>1, <1>h, <1>i, <2>4 DEF Drivers
  <2>5. CASE p \in T /\ Turns(a)' # T
    BY <1>1, <1>h, <1>i, <2>5 DEF Drivers
  <2> QED
    BY <2>1, <2>2, <2>3, <2>4, <2>5
<1>4. Drivers(a) <= lapses[a] + (IF lock[a] \in H \union T THEN 1 ELSE 0) /\ lapses[a] \in Nat
  BY TypeParts DEF Backed, RestOK
<1>5. CASE lock[a] = p
  <2>1. Drivers(a)' <= lapses[a]
    BY <1>2, <1>3, <1>4, <1>5
  <2> QED
    BY <1>2, <1>4, <2>1 DEF Backed
<1>6. CASE lock[a] # p
  <2>1. lock'[a] = lock[a]
    BY <1>6
  <2>2. lock[a] \in H \union T <=> lock'[a] \in Handlers(a)' \union Turns(a)'
    BY <1>6, <2>1
  <2> QED
    BY <1>2, <1>4, <2>2 DEF Backed
<1> QED
  BY <1>5, <1>6

\* A step that leaves an account's drivers, lock and lapses alone.
LEMMA Stays ==
  ASSUME NEW a \in Accounts, Backed(a), Handlers(a)' = Handlers(a), Turns(a)' = Turns(a),
         lock'[a] = lock[a], lapses'[a] = lapses[a]
  PROVE  Backed(a)'
  BY DEF Backed, Drivers

\* A handler's steps have to do with the accounts it comes from and goes to.
LEMMA HandlersMove ==
  ASSUME TypeInv, NEW p \in Pods, \A q \in Pods \ {p} : job'[q] = job[q], turn' = turn,
         NEW a \in Accounts
  PROVE  /\ Turns(a)' = Turns(a)
         /\ job'[p].acct = job[p].acct \/ a \notin {job[p].acct, job'[p].acct}
              => Handlers(a)' = Handlers(a)
         /\ job'[p].acct = a => Handlers(a)' = Handlers(a) \union {p}
         /\ job'[p].acct # a => Handlers(a)' = Handlers(a) \ {p}
<1>1. Turns(a)' = Turns(a)
  BY DEF Turns
<1> QED
  BY <1>1 DEF Handlers

\* Who takes an account finds its lock free, so all that work on it came in by a lapse; who
\* leaves frees a lock that is its own, and a lock expires when its owner has left.
LEMMA LockNext == TypeInv /\ LockInv /\ [Next]_vars => LockInv'
<1> SUFFICES ASSUME TypeInv, LockInv, [Next]_vars PROVE LockInv'
  OBVIOUS
<1>0. /\ job \in [Pods -> JobType] /\ JobInv
      /\ lock \in [Accounts -> Pods \union {NoPod}]
      /\ turn \in [Pods -> Accounts \union {NoAccount}]
      /\ lapses \in [Accounts -> Nat]
  BY TypeParts DEF RestOK
<1>b. \A a \in Accounts : Backed(a)
  BY DEF LockInv
<1>u. ASSUME job' = job, lock' = lock, turn' = turn, lapses' = lapses PROVE LockInv'
  <2>1. \A a \in Accounts : Handlers(a)' = Handlers(a) /\ Turns(a)' = Turns(a)
    BY <1>u DEF Handlers, Turns
  <2> QED
    BY <1>b, <1>u, <2>1, Stays DEF LockInv
<1>t. ASSUME NEW p \in Pods, NEW a \in Accounts, \A q \in Pods \ {p} : job'[q] = job[q],
             turn' = turn, lapses' = lapses, job[p].acct = NoAccount, job'[p].acct = a,
             lock[a] = NoPod, lock' = [lock EXCEPT ![a] = p]
      PROVE  LockInv'
  <2>1. Backed(a)'
    <3>1. Handlers(a)' = Handlers(a) \union {p} /\ Turns(a)' = Turns(a)
      BY <1>t, HandlersMove
    <3>2. lock'[a] = p
      BY <1>0, <1>t
    <3> QED
      BY <1>b, <1>t, <3>1, <3>2, Joins
  <2>2. ASSUME NEW b \in Accounts \ {a} PROVE Backed(b)'
    <3>1. Handlers(b)' = Handlers(b) /\ Turns(b)' = Turns(b)
      BY <1>t, NonesAssumption, HandlersMove
    <3>2. lock'[b] = lock[b]
      BY <1>0, <1>t
    <3> QED
      BY <1>b, <1>t, <3>1, <3>2, Stays
  <2> QED
    BY <2>1, <2>2 DEF LockInv
<1>s. ASSUME NEW p \in Pods, \A q \in Pods \ {p} : job'[q] = job[q], turn' = turn,
             lock' = lock, lapses' = lapses, job'[p].acct = job[p].acct
      PROVE  LockInv'
  <2>1. \A a \in Accounts : Handlers(a)' = Handlers(a) /\ Turns(a)' = Turns(a)
    BY <1>s, HandlersMove
  <2> QED
    BY <1>b, <1>s, <2>1, Stays DEF LockInv
<1>1. ASSUME NEW p \in Pods,
             Handler(p) \/ Settle(p) \/ StoreFails(p) \/ \E t \in Tasks : ClaimNextDueTask(p, t)
      PROVE  LockInv'
  <2>n. job[p].pc \in {"next", "take"} => job[p].acct = NoAccount
    BY <1>0 DEF JobInv, Shaped, Holding
  <2>1. ASSUME NEW a \in Accounts, NextAccount(p, a) PROVE LockInv'
    <3>1. CASE lock[a] = NoPod
      <4>1. /\ lock' = [lock EXCEPT ![a] = p] /\ turn' = turn /\ lapses' = lapses
            /\ job'[p].acct = a /\ \A q \in Pods \ {p} : job'[q] = job[q]
            /\ job[p].pc = "next"
        BY <1>0, <2>1, <3>1 DEF NextAccount, JobType, histVars
      <4> QED
        BY <2>n, <3>1, <4>1, <1>t
    <3>2. CASE lock[a] # NoPod
      <4>1. /\ lock' = lock /\ turn' = turn /\ lapses' = lapses
            /\ job'[p].acct = job[p].acct /\ \A q \in Pods \ {p} : job'[q] = job[q]
        BY <1>0, <2>1, <3>2 DEF NextAccount, JobType, histVars
      <4> QED
        BY <4>1, <1>s
    <3> QED
      BY <3>1, <3>2
  <2>2. CASE TakePrimary(p)
    <3>0. Primary \in Accounts
      BY AccountsAssumption
    <3>1. CASE lock[Primary] = NoPod
      <4>1. /\ lock' = [lock EXCEPT ![Primary] = p] /\ turn' = turn /\ lapses' = lapses
            /\ job'[p].acct = Primary /\ \A q \in Pods \ {p} : job'[q] = job[q]
            /\ job[p].pc = "take"
        BY <1>0, <2>2, <3>1 DEF TakePrimary, JobType, histVars
      <4> QED
        BY <2>n, <3>0, <3>1, <4>1, <1>t
    <3>2. CASE lock[Primary] # NoPod
      <4>1. /\ lock' = lock /\ turn' = turn /\ lapses' = lapses
            /\ job'[p].acct = NoAccount /\ \A q \in Pods \ {p} : job'[q] = job[q]
            /\ job[p].pc = "take"
        BY <1>0, <2>2, <3>2 DEF TakePrimary, Finish, Idle, histVars
      <4> QED
        BY <2>n, <4>1, <1>s
    <3> QED
      BY <3>1, <3>2
  <2>3. CASE Close(p)
    <3>0. PICK a \in Accounts : a = job[p].acct
      BY <1>0, <2>3 DEF Close, JobInv, Shaped, Holding
    <3>1. /\ lock' = IF lock[a] = p THEN [lock EXCEPT ![a] = NoPod] ELSE lock
          /\ turn' = turn /\ lapses' = lapses
      BY <2>3, <3>0 DEF Close, histVars
    <3>2. \A q \in Pods \ {p} : job'[q] = job[q]
      BY <1>0, <2>3, ActSteps DEF JobStep
    <3>3. job'[p].acct = NoAccount
      <4>1. CASE job[p].task \in {Monitor, Reply}
        BY <1>0, <2>3, <4>1, TaskTypes DEF Close, JobType
      <4>2. CASE job[p].task \notin {Monitor, Reply} /\ job[p].task[1] = "follow_up" /\ job[p].res = "done"
        BY <1>0, <2>3, <4>2 DEF Close, JobType
      <4>3. CASE job[p].task \notin {Monitor, Reply} /\ ~(job[p].task[1] = "follow_up" /\ job[p].res = "done")
        <5>1. Finish(p, job[p].res)
          BY <2>3, <4>3 DEF Close
        <5> QED
          BY <1>0, <5>1 DEF Finish, Idle
      <4> QED
        BY <4>1, <4>2, <4>3
    <3>4. Backed(a)'
      <4>1. Handlers(a)' = Handlers(a) \ {p} /\ Turns(a)' = Turns(a)
        BY <3>0, <3>1, <3>2, <3>3, NonesAssumption, HandlersMove
      <4>2. p \in Handlers(a)
        BY <3>0 DEF Handlers
      <4>3. \/ lock'[a] = lock[a] /\ lock[a] # p
            \/ lock'[a] = NoPod /\ lock[a] = p
        BY <1>0, <3>0, <3>1
      <4> QED
        BY <1>b, <3>0, <3>1, <4>1, <4>2, <4>3, Leaves
    <3>5. ASSUME NEW b \in Accounts \ {a} PROVE Backed(b)'
      <4>1. Handlers(b)' = Handlers(b) /\ Turns(b)' = Turns(b)
        BY <3>0, <3>1, <3>2, <3>3, NonesAssumption, HandlersMove
      <4>2. lock'[b] = lock[b]
        BY <1>0, <3>0, <3>1
      <4> QED
        BY <1>b, <3>1, <4>1, <4>2, Stays
    <3> QED
      BY <3>4, <3>5 DEF LockInv
  <2>4. CASE ~Close(p) /\ ~TakePrimary(p) /\ \A a \in Accounts : ~NextAccount(p, a)
    <3>1. /\ job'[p].acct = job[p].acct
          /\ \A q \in Pods \ {p} : job'[q] = job[q]
          /\ lock' = lock /\ turn' = turn /\ lapses' = lapses
      BY <1>1, <2>4, AccountKept
    <3> QED
      BY <3>1, <1>s
  <2> QED
    BY <2>1, <2>2, <2>3, <2>4
<1>2. ASSUME NEW p \in Pods, Kill(p) \/ ScaleDown(p) PROVE LockInv'
  <2>1. /\ job' = [job EXCEPT ![p] = Idle] /\ turn' = [turn EXCEPT ![p] = NoAccount]
        /\ lock' = lock /\ lapses' = lapses /\ Idle.acct = NoAccount
    BY <1>2 DEF Kill, ScaleDown, PodStops, histVars, Idle
  <2>2. ASSUME NEW a \in Accounts PROVE Backed(a)'
    <3>1. Handlers(a)' = Handlers(a) \ {p} /\ Turns(a)' = Turns(a) \ {p}
      BY <1>0, <2>1, NonesAssumption DEF Handlers, Turns
    <3> QED
      BY <1>b, <2>1, <3>1, Leaves
  <2> QED
    BY <2>2 DEF LockInv
<1>3. ASSUME NEW a \in Accounts, LockExpires(a) \/ LockLapses(a) PROVE LockInv'
  <2>1. /\ lock' = [lock EXCEPT ![a] = NoPod] /\ job' = job /\ turn' = turn
        /\ \A b \in Accounts \ {a} : lapses'[b] = lapses[b]
    BY <1>0, <1>3 DEF LockExpires, LockLapses, histVars
  <2>2. \A b \in Accounts : Handlers(b)' = Handlers(b) /\ Turns(b)' = Turns(b)
    BY <2>1 DEF Handlers, Turns
  <2>3. Backed(a)'
    <3>1. Drivers(a) \in Nat /\ Drivers(a)' = Drivers(a) /\ lapses[a] \in Nat
      BY <1>0, <2>2, DriversFinite DEF Drivers
    <3>2. lock'[a] \notin Handlers(a)' \union Turns(a)'
      BY <1>0, <2>1, NonesAssumption DEF Handlers, Turns
    <3>3. Drivers(a) <= lapses'[a] /\ lapses'[a] \in Nat
      <4>1. CASE LockExpires(a)
        BY <1>b, <3>1, <4>1 DEF LockExpires, Backed, histVars
      <4>2. CASE LockLapses(a)
        <5>1. lapses'[a] = lapses[a] + 1
          BY <1>0, <4>2 DEF LockLapses
        <5> QED
          BY <1>b, <3>1, <5>1 DEF Backed
      <4> QED
        BY <1>3, <4>1, <4>2
    <3> QED
      BY <3>1, <3>2, <3>3 DEF Backed
  <2>4. ASSUME NEW b \in Accounts \ {a} PROVE Backed(b)'
    BY <1>b, <1>0, <2>1, <2>2, Stays
  <2> QED
    BY <2>3, <2>4 DEF LockInv
<1>4. ASSUME NEW p \in Pods, NEW a \in Accounts, TurnTakes(p, a) PROVE LockInv'
  <2>1. /\ lock[a] = NoPod /\ lock' = [lock EXCEPT ![a] = p] /\ lapses' = lapses
        /\ turn[p] = NoAccount /\ turn' = [turn EXCEPT ![p] = a] /\ job' = job
    BY <1>4 DEF TurnTakes, histVars
  <2>2. \A b \in Accounts : Handlers(b)' = Handlers(b)
    BY <2>1 DEF Handlers
  <2>3. Turns(a)' = Turns(a) \union {p} /\ \A b \in Accounts \ {a} : Turns(b)' = Turns(b)
    BY <1>0, <2>1, NonesAssumption DEF Turns
  <2>4. lock'[a] = p /\ \A b \in Accounts \ {a} : lock'[b] = lock[b]
    BY <1>0, <2>1
  <2>5. Backed(a)'
    BY <1>b, <2>1, <2>2, <2>3, <2>4, Joins
  <2>6. ASSUME NEW b \in Accounts \ {a} PROVE Backed(b)'
    BY <1>b, <2>1, <2>2, <2>3, <2>4, Stays
  <2> QED
    BY <2>5, <2>6 DEF LockInv
<1>5. ASSUME NEW p \in Pods, TurnLeaves(p) PROVE LockInv'
  <2>0. PICK a \in Accounts : a = turn[p]
    BY <1>0, <1>5 DEF TurnLeaves
  <2>1. /\ lapses' = lapses
        /\ lock' = IF lock[a] = p THEN [lock EXCEPT ![a] = NoPod] ELSE lock
        /\ turn' = [turn EXCEPT ![p] = NoAccount] /\ job' = job
    BY <1>0, <1>5, <2>0 DEF TurnLeaves, histVars
  <2>2. \A b \in Accounts : Handlers(b)' = Handlers(b)
    BY <2>1 DEF Handlers
  <2>3. /\ Turns(a)' = Turns(a) \ {p} /\ p \in Turns(a)
        /\ \A b \in Accounts \ {a} : Turns(b)' = Turns(b)
    BY <1>0, <2>0, <2>1, NonesAssumption DEF Turns
  <2>4. /\ \/ lock'[a] = lock[a] /\ lock[a] # p
           \/ lock'[a] = NoPod /\ lock[a] = p
        /\ \A b \in Accounts \ {a} : lock'[b] = lock[b]
    BY <1>0, <2>1
  <2>5. Backed(a)'
    BY <1>b, <2>1, <2>2, <2>3, <2>4, Leaves
  <2>6. ASSUME NEW b \in Accounts \ {a} PROVE Backed(b)'
    BY <1>b, <2>1, <2>2, <2>3, <2>4, Stays
  <2> QED
    BY <2>5, <2>6 DEF LockInv
<1>6. ASSUME NEW p \in Pods, PassEnds(p) \/ ReapOrphanedTasks(p) \/ PodStarts(p) PROVE LockInv'
  BY <1>6, <1>u DEF PassEnds, ArmTransition, ReapOrphanedTasks, PodStarts, histVars
<1>7. CASE FinishTransition \/ Operator
  BY <1>7, <1>u DEF FinishTransition, Operator, KeepMonitoring, ArmTransition, Stop, Resume, CheckNow,
                    AutoChecks, histVars
<1>8. CASE \/ \E l \in Leads : AcceptsInvitation(l)
           \/ \E t \in Tasks : BecomeDue(t) \/ ClaimAges(t)
  BY <1>8, <1>u DEF AcceptsInvitation, BecomeDue, ClaimAges, histVars
<1>9. CASE UNCHANGED vars
  BY <1>9, <1>u DEF vars, histVars
<1> QED
  BY <1>1, <1>2, <1>3, <1>4, <1>5, <1>6, <1>7, <1>8, <1>9 DEF Next, Scheduler, World

\* The owner of the lock and those that came in by a lapse are all there are.
LEMMA LockExcludes == TypeInv /\ LockInv => AccountExclusive
<1> SUFFICES ASSUME TypeInv, LockInv, NEW a \in Accounts PROVE Drivers(a) <= 1 + lapses[a]
  BY DEF AccountExclusive, Drivers
<1>1. lapses[a] \in Nat /\ Drivers(a) \in Nat
  BY TypeParts, DriversFinite DEF RestOK, Drivers
<1> QED
  BY <1>1 DEF LockInv, Backed

\* At most one handler or turn, of any pod, drives an account, and one more for each lock
\* of it that lapsed under a handler at work.
THEOREM OneDriverPerAccount == Spec => []AccountExclusive
<1>1. TypeInv /\ LockInv /\ [Next]_vars => LockInv'
  BY LockNext
<1> QED
  BY <1>1, LockInit, TypeInit, TypeNext, LockExcludes, PTL DEF Spec

-----------------------------------------------------------------------------
(* Introductions.                                                          *)

\* Where a sweep has leads to introduce, and where it has one in hand.
WorkPCs == {"gate", "pick", "send", "stamp", "note", "queue"}
HandPCs == {"send", "stamp"}

\* The leads to introduce are the account's; the one in hand is no longer among those to come.
OpenWork(r) ==
    /\ r.pc \in WorkPCs => \A l \in r.work : AccountOf[l] = r.acct
    /\ r.pc \in HandPCs => AccountOf[r.lead] = r.acct /\ r.lead \notin r.work

\* A sweep has the lead's introduction before it, or out and not yet stamped.
ToCome(r, l)  == (r.pc \in WorkPCs /\ l \in r.work) \/ (r.pc = "send" /\ r.lead = l)
InHand(r, l) == r.pc = "stamp" /\ r.lead = l
Pend(l)      == {p \in Pods : ToCome(job[p], l)}
Stamping(l)  == {p \in Pods : InHand(job[p], l)}

\* The lead's slot is open.
Unmade(l) == stage[l] \in {"invited", "accepted", "stamped"}

\* A lead whose slot is open has had no introduction but for faults, or those out this
\* instant; once it is closed, those that took it up while it was open are counted in.
Slot(l) ==
    IF Unmade(l) THEN intros[l] <= faults + Cardinality(Stamping(l))
    ELSE intros[l] + Cardinality(Pend(l)) <= 1 + faults + lapses[AccountOf[l]]

WorkInv   == \A p \in Pods : OpenWork(job[p])
SlotTells == \A l \in Leads : Slot(l)
IntroInv  == WorkInv /\ SlotTells

\* Sets of pods are finite, and what is part of one is no larger.
LEMMA PodSets ==
  ASSUME NEW S \in SUBSET Pods, NEW T \in SUBSET S
  PROVE  /\ IsFiniteSet(S) /\ Cardinality(S) \in Nat
         /\ Cardinality(T) \in Nat /\ Cardinality(T) <= Cardinality(S)
<1>1. IsFiniteSet(S)
  BY PodsAssumption, FS_Subset
<1>2. IsFiniteSet(T) /\ Cardinality(T) <= Cardinality(S)
  BY <1>1, FS_Subset
<1> QED
  BY <1>1, <1>2, FS_CardinalityType

\* A set of pods and one pod more.
LEMMA PodSetAdd ==
  ASSUME NEW S \in SUBSET Pods, NEW p \in Pods, p \notin S
  PROVE  Cardinality(S \union {p}) = Cardinality(S) + 1
<1>1. IsFiniteSet(S)
  BY PodsAssumption, FS_Subset
<1> QED
  BY <1>1, FS_AddElement

\* A set of pods and one pod less.
LEMMA PodSetRemove ==
  ASSUME NEW S \in SUBSET Pods, NEW p \in S
  PROVE  Cardinality(S \ {p}) = Cardinality(S) - 1
<1>1. IsFiniteSet(S)
  BY PodsAssumption, FS_Subset
<1> QED
  BY <1>1, FS_RemoveElement

\* All that have to do with a lead work on its account, of whose handlers there is one and
\* one more for each lapse.
LEMMA FewHands ==
  ASSUME TypeInv, LockInv, WorkInv, NEW l \in Leads
  PROVE  Cardinality(Pend(l)) + Cardinality(Stamping(l)) <= 1 + lapses[AccountOf[l]]
<1> DEFINE a == AccountOf[l]
<1>1. a \in Accounts
  BY AccountsAssumption
<1>2. Pend(l) \union Stamping(l) \subseteq Handlers(a)
  BY DEF Pend, Stamping, ToCome, InHand, WorkInv, OpenWork, WorkPCs, HandPCs, Handlers
<1>3. Pend(l) \intersect Stamping(l) = {}
  BY DEF Pend, Stamping, ToCome, InHand, WorkInv, OpenWork, WorkPCs, HandPCs
<1>4. /\ Pend(l) \subseteq Pods /\ Stamping(l) \subseteq Pods /\ Handlers(a) \subseteq Pods
  BY DEF Pend, Stamping, Handlers
<1>5. IsFiniteSet(Pend(l)) /\ IsFiniteSet(Stamping(l))
  BY <1>4, PodSets
<1>6. Cardinality(Pend(l) \union Stamping(l)) = Cardinality(Pend(l)) + Cardinality(Stamping(l))
  <2>1. Cardinality(Pend(l) \intersect Stamping(l)) = 0
    BY <1>3, FS_EmptySet
  <2>2. Cardinality(Pend(l)) \in Nat /\ Cardinality(Stamping(l)) \in Nat
    BY <1>4, PodSets
  <2> QED
    <3>1. Cardinality(Pend(l) \union Stamping(l)) = Cardinality(Pend(l)) + Cardinality(Stamping(l))
                                              - Cardinality(Pend(l) \intersect Stamping(l))
      BY <1>5, FS_Union
    <3> QED
      BY <2>1, <2>2, <3>1
<1>7. Cardinality(Pend(l) \union Stamping(l)) <= Cardinality(Handlers(a))
  BY <1>2, <1>4, PodSets
<1>8. Drivers(a) <= 1 + lapses[a]
  BY <1>1, LockExcludes DEF AccountExclusive, Drivers
<1>9. /\ Cardinality(Pend(l)) \in Nat /\ Cardinality(Stamping(l)) \in Nat
      /\ Cardinality(Handlers(a)) \in Nat /\ Cardinality(Turns(a)) \in Nat /\ lapses[a] \in Nat
  BY <1>1, <1>4, PodSets, DriversFinite, TypeParts DEF RestOK
<1> QED
  BY <1>6, <1>7, <1>8, <1>9 DEF Drivers

\* The numbers the slots speak of.
LEMMA SlotNumbers ==
  ASSUME TypeInv, NEW l \in Leads
  PROVE  /\ intros[l] \in Nat /\ faults \in Nat /\ lapses[AccountOf[l]] \in Nat
         /\ Cardinality(Pend(l)) \in Nat /\ Cardinality(Stamping(l)) \in Nat
<1>1. AccountOf[l] \in Accounts
  BY AccountsAssumption
<1>2. Pend(l) \subseteq Pods /\ Stamping(l) \subseteq Pods
  BY DEF Pend, Stamping
<1>3. intros[l] \in Nat /\ faults \in Nat /\ lapses[AccountOf[l]] \in Nat
  BY <1>1, TypeParts, BoundsAssumption DEF RestOK
<1> QED
  BY <1>2, <1>3, PodSets

\* The same after a step.
LEMMA SlotNumbersNext ==
  ASSUME TypeInv', NEW l \in Leads
  PROVE  /\ intros'[l] \in Nat /\ faults' \in Nat /\ lapses'[AccountOf[l]] \in Nat
         /\ Cardinality(Pend(l)') \in Nat /\ Cardinality(Stamping(l)') \in Nat
<1>1. AccountOf[l] \in Accounts
  BY AccountsAssumption
<1>2. Pend(l)' \subseteq Pods /\ Stamping(l)' \subseteq Pods
  BY DEF Pend, Stamping
<1>3. intros'[l] \in Nat /\ faults' \in Nat /\ lapses'[AccountOf[l]] \in Nat
  BY <1>1, BoundsAssumption DEF TypeInv, TypeOK
<1> QED
  BY <1>2, <1>3, PodSets

\* A slot that no step opens, while no introduction goes out: what is before it only
\* shrinks once it is closed, and while it is open an introduction is lost by a fault alone.
LEMMA SlotKept ==
  ASSUME TypeInv, TypeInv', LockInv, WorkInv, NEW l \in Leads, Slot(l),
         intros'[l] = intros[l], faults' >= faults,
         lapses'[AccountOf[l]] >= lapses[AccountOf[l]],
         Unmade(l)' => Unmade(l),
         ~Unmade(l)' => Pend(l)' \subseteq Pend(l),
         Unmade(l)' => faults + Cardinality(Stamping(l)) <= faults' + Cardinality(Stamping(l)')
  PROVE  Slot(l)'
<1>1. Cardinality(Pend(l)) + Cardinality(Stamping(l)) <= 1 + lapses[AccountOf[l]]
  BY FewHands
<1>2. ~Unmade(l)' => Cardinality(Pend(l)') <= Cardinality(Pend(l))
  <2>1. Pend(l) \subseteq Pods
    BY DEF Pend
  <2> QED
    BY <2>1, PodSets
<1>3. CASE Unmade(l)'
  BY <1>3, SlotNumbers, SlotNumbersNext DEF Slot
<1>4. CASE ~Unmade(l)' /\ Unmade(l)
  BY <1>1, <1>2, <1>4, SlotNumbers, SlotNumbersNext DEF Slot
<1>5. CASE ~Unmade(l)' /\ ~Unmade(l)
  BY <1>2, <1>5, SlotNumbers, SlotNumbersNext DEF Slot
<1> QED
  BY <1>3, <1>4, <1>5

\* Steps that leave every handler alone and open no slot.
LEMMA IntroStill ==
  ASSUME TypeInv, TypeInv', LockInv, IntroInv, job' = job, intros' = intros, faults' = faults,
         \A a \in Accounts : lapses'[a] >= lapses[a],
         \A l \in Leads : Unmade(l)' => Unmade(l)
  PROVE  IntroInv'
<1>1. WorkInv'
  BY DEF IntroInv, WorkInv
<1>2. ASSUME NEW l \in Leads PROVE Slot(l)'
  <2>1. Pend(l)' = Pend(l) /\ Stamping(l)' = Stamping(l)
    BY DEF Pend, Stamping
  <2>2. AccountOf[l] \in Accounts
    BY AccountsAssumption
  <2>3. faults + Cardinality(Stamping(l)) <= faults' + Cardinality(Stamping(l)') /\ faults' >= faults
    BY <2>1, SlotNumbers
  <2>4. Slot(l) /\ WorkInv
    BY DEF IntroInv, SlotTells
  <2> QED
    BY <2>1, <2>2, <2>3, <2>4, SlotKept
<1> QED
  BY <1>1, <1>2 DEF IntroInv, SlotTells

\* A handler that moves and leaves the others alone, while no introduction goes out.
LEMMA IntroMoved ==
  ASSUME TypeInv, TypeInv', LockInv, IntroInv, NEW p \in Pods,
         \A q \in Pods \ {p} : job'[q] = job[q],
         OpenWork(job'[p]), intros' = intros, faults' \in {faults, faults + 1}, lapses' = lapses,
         \A l \in Leads :
            /\ Unmade(l)' => Unmade(l)
            /\ ~Unmade(l)' /\ ToCome(job'[p], l) => ToCome(job[p], l)
            /\ Unmade(l)' /\ InHand(job[p], l) => InHand(job'[p], l) \/ faults' = faults + 1
  PROVE  IntroInv'
<1>1. WorkInv'
  BY DEF IntroInv, WorkInv
<1>2. ASSUME NEW l \in Leads PROVE Slot(l)'
  <2>1. ~Unmade(l)' => Pend(l)' \subseteq Pend(l)
    BY DEF Pend
  <2>2. faults \in Nat /\ faults' \in Nat /\ Cardinality(Stamping(l)) \in Nat
        /\ Cardinality(Stamping(l)') \in Nat
    BY SlotNumbers, SlotNumbersNext
  <2>s. Stamping(l) \subseteq Pods /\ Stamping(l)' \subseteq Pods
    BY DEF Stamping
  <2>3. ASSUME Unmade(l)'
        PROVE  faults + Cardinality(Stamping(l)) <= faults' + Cardinality(Stamping(l)')
    <3>1. CASE InHand(job[p], l) /\ ~InHand(job'[p], l)
      <4>1. Stamping(l) \ {p} \subseteq Stamping(l)' /\ p \in Stamping(l)
        BY <3>1 DEF Stamping
      <4>2. Cardinality(Stamping(l) \ {p}) = Cardinality(Stamping(l)) - 1
        BY <2>s, <4>1, PodSetRemove
      <4>3. Cardinality(Stamping(l) \ {p}) <= Cardinality(Stamping(l)')
        BY <2>s, <4>1, PodSets
      <4>4. faults' = faults + 1
        BY <2>3, <3>1
      <4> QED
        BY <2>2, <4>2, <4>3, <4>4
    <3>2. CASE ~InHand(job[p], l) \/ InHand(job'[p], l)
      <4>1. Stamping(l) \subseteq Stamping(l)'
        BY <3>2 DEF Stamping
      <4>2. Cardinality(Stamping(l)) <= Cardinality(Stamping(l)')
        BY <2>s, <4>1, PodSets
      <4> QED
        BY <2>2, <4>2
    <3> QED
      BY <3>1, <3>2
  <2>4. Slot(l) /\ WorkInv
    BY DEF IntroInv, SlotTells
  <2>5. faults' >= faults
    BY <2>2
  <2>6. lapses'[AccountOf[l]] >= lapses[AccountOf[l]] /\ intros'[l] = intros[l]
    BY SlotNumbers
  <2> QED
    BY <2>1, <2>3, <2>4, <2>5, <2>6, SlotKept
<1> QED
  BY <1>1, <1>2 DEF IntroInv, SlotTells

\* Nobody is introduced at the start.
LEMMA IntroInit == Init => IntroInv
<1> SUFFICES ASSUME Init PROVE IntroInv
  OBVIOUS
<1>1. WorkInv
  BY DEF Init, WorkInv, OpenWork, WorkPCs, HandPCs, Idle
<1>2. ASSUME NEW l \in Leads PROVE Slot(l)
  <2>1. Unmade(l) /\ intros[l] = 0 /\ faults = 0
    BY DEF Init, Unmade
  <2>2. Stamping(l) \subseteq Pods
    BY DEF Stamping
  <2>3. Cardinality(Stamping(l)) \in Nat
    BY <2>2, PodSets
  <2> QED
    BY <2>1, <2>3 DEF Slot
<1> QED
  BY <1>1, <1>2 DEF IntroInv, SlotTells

\* The introduction itself: one fewer ahead, one more out.
LEMMA IntroSent ==
  ASSUME TypeInv, TypeInv', LockInv, IntroInv, NEW p \in Pods, SendIntro(p)
  PROVE  IntroInv'
<1>0. job \in [Pods -> JobType] /\ job[p] \in JobType /\ Shaped(job[p])
      /\ intros \in [Leads -> Nat]
  BY TypeParts DEF JobInv, RestOK
<1>w. WorkInv /\ OpenWork(job[p]) /\ SlotTells
  BY DEF IntroInv, WorkInv
<1>j. \A q \in Pods \ {p} : job'[q] = job[q]
  BY <1>0 DEF SendIntro, Step
<1>h. PICK h \in Leads : h = job[p].lead
  BY <1>0 DEF SendIntro, Shaped
<1>1. /\ job'[p].acct = job[p].acct /\ job'[p].work = job[p].work /\ job'[p].pc = "stamp"
      /\ job'[p].lead = h /\ job[p].pc = "send"
      /\ stage' = stage /\ intros' = [intros EXCEPT ![h] = @ + 1] /\ faults' = faults
      /\ lapses' = lapses
  BY <1>0, <1>h DEF SendIntro, Step, JobType, bounds, histVars
<1>2. OpenWork(job'[p])
  BY <1>h, <1>w, <1>1 DEF OpenWork, WorkPCs, HandPCs
<1>3. WorkInv'
  BY <1>w, <1>j, <1>2 DEF WorkInv
<1>u. \A l \in Leads : Unmade(l)' <=> Unmade(l)
  BY <1>1 DEF Unmade
<1>4. Slot(h)'
  <2>1. /\ Pend(h)' = Pend(h) \ {p} /\ p \in Pend(h)
        /\ Stamping(h)' = Stamping(h) \union {p} /\ p \notin Stamping(h)
    <3>1. ~ToCome(job'[p], h) /\ InHand(job'[p], h) /\ ToCome(job[p], h) /\ ~InHand(job[p], h)
      BY <1>h, <1>w, <1>1 DEF ToCome, InHand, OpenWork, HandPCs
    <3> QED
      BY <1>j, <3>1 DEF Pend, Stamping
  <2>2. /\ Cardinality(Pend(h)') = Cardinality(Pend(h)) - 1
        /\ Cardinality(Stamping(h)') = Cardinality(Stamping(h)) + 1
    <3>1. Pend(h) \subseteq Pods /\ Stamping(h) \subseteq Pods
      BY DEF Pend, Stamping
    <3> QED
      BY <2>1, <3>1, PodSetAdd, PodSetRemove
  <2>3. intros'[h] = intros[h] + 1
    BY <1>0, <1>1
  <2> QED
    BY <1>w, <1>u, <1>1, <2>2, <2>3, SlotNumbers DEF SlotTells, Slot
<1>5. ASSUME NEW l \in Leads \ {h} PROVE Slot(l)'
  <2>1. /\ ToCome(job'[p], l) <=> ToCome(job[p], l)
        /\ InHand(job'[p], l) <=> InHand(job[p], l)
    BY <1>h, <1>1 DEF ToCome, InHand, WorkPCs
  <2>2. Pend(l)' = Pend(l) /\ Stamping(l)' = Stamping(l)
    BY <1>j, <2>1 DEF Pend, Stamping
  <2>3. intros'[l] = intros[l]
    BY <1>0, <1>1
  <2> QED
    BY <1>w, <1>u, <1>1, <2>2, <2>3 DEF SlotTells, Slot
<1> QED
  BY <1>3, <1>4, <1>5 DEF IntroInv, SlotTells

\* The other steps of an introduction keep the invariant.
LEMMA IntroStepsKeep ==
  ASSUME TypeInv, TypeInv', LockInv, IntroInv, NEW p \in Pods,
         \/ RunBulkCheck(p) \/ PrimaryGate(p) \/ (\E l \in Leads : PickLead(p, l))
         \/ SendFails(p) \/ AlreadyMade(p) \/ BrowserDies(p) \/ StampIntro(p) \/ MarkIntro(p)
         \/ StoreFails(p) \/ QueueFollowUp(p)
  PROVE  IntroInv'
<1>0. /\ job \in [Pods -> JobType] /\ job[p] \in JobType /\ Shaped(job[p])
      /\ stage \in [Leads -> {"invited", "accepted", "stamped", "introduced", "closed"}]
      /\ faults \in Nat
  BY TypeParts DEF JobInv, RestOK
<1>w. OpenWork(job[p])
  BY DEF IntroInv, WorkInv
<1>j. \A q \in Pods \ {p} : job'[q] = job[q]
  BY SweepSteps, IntroSteps, <1>0 DEF JobStep
<1>l. lapses' = lapses /\ intros' = intros
  BY DEF RunBulkCheck, PrimaryGate, PickLead, SendFails, AlreadyMade, BrowserDies, StampIntro, MarkIntro,
         StoreFails, QueueFollowUp, histVars, leadVars
<1>f. ~StoreFails(p) => faults' = faults
  BY DEF RunBulkCheck, PrimaryGate, PickLead, SendFails, AlreadyMade, BrowserDies, StampIntro, MarkIntro,
         QueueFollowUp, bounds
<1>1. CASE RunBulkCheck(p)
  <2> DEFINE open == {l \in Leads : AccountOf[l] = job[p].acct /\ stage[l] \in {"accepted", "stamped"}}
  <2>1. /\ job'[p].work = open /\ job'[p].acct = job[p].acct /\ job'[p].pc \in {"close", "gate"}
        /\ job[p].pc = "check"
    BY <1>0, <1>1 DEF RunBulkCheck, JobType
  <2>2. \A l \in Leads : Unmade(l)' <=> Unmade(l)
    BY <1>0, <1>1 DEF RunBulkCheck, Unmade
  <2>3. \A l \in open : AccountOf[l] = job[p].acct /\ Unmade(l)
    BY DEF Unmade
  <2> HIDE DEF open
  <2>4. OpenWork(job'[p])
    BY <2>1, <2>3 DEF OpenWork, HandPCs
  <2>5. \A l \in Leads : (ToCome(job'[p], l) => Unmade(l)) /\ ~InHand(job[p], l)
    BY <2>1, <2>3 DEF ToCome, InHand
  <2> QED
    BY <1>1, <1>j, <1>l, <1>f, <2>2, <2>4, <2>5, IntroMoved DEF RunBulkCheck, StoreFails
<1>m. ASSUME job[p].pc # "stamp", stage' = stage, faults' = faults,
             job'[p].acct = job[p].acct, job[p].pc \in WorkPCs, job'[p].work \subseteq job[p].work,
             \/ job'[p].pc \notin HandPCs
             \/ /\ job'[p].pc = "send" /\ job'[p].lead \in job[p].work
                /\ job'[p].lead \notin job'[p].work
      PROVE  IntroInv'
  <2>1. OpenWork(job'[p])
    BY <1>w, <1>m DEF OpenWork, HandPCs
  <2>2. \A l \in Leads : Unmade(l)' <=> Unmade(l)
    BY <1>m DEF Unmade
  <2>3. \A l \in Leads : (ToCome(job'[p], l) => ToCome(job[p], l)) /\ ~InHand(job[p], l)
    BY <1>m DEF ToCome, InHand, HandPCs
  <2> QED
    BY <1>j, <1>l, <1>m, <2>1, <2>2, <2>3, IntroMoved
<1>2. CASE PrimaryGate(p)
  <2>1. /\ job'[p].acct = job[p].acct /\ job'[p].pc \in {"close", "pick"} /\ job[p].pc = "gate"
        /\ job'[p].work \subseteq job[p].work /\ stage' = stage
    BY <1>0, <1>2 DEF PrimaryGate, JobType
  <2> QED
    BY <1>2, <1>f, <2>1, <1>m DEF WorkPCs, HandPCs, PrimaryGate, StoreFails
<1>3. ASSUME NEW l \in Leads, PickLead(p, l) PROVE IntroInv'
  <2>1. /\ job'[p].acct = job[p].acct /\ job'[p].work = job[p].work \ {l}
        /\ \/ job'[p].pc = "pick"
           \/ job'[p].pc = "send" /\ job'[p].lead = l
        /\ job[p].pc = "pick" /\ l \in job[p].work
    <3>1. CASE <<"intro", l>> \in marked
      <4>1. /\ job' = [job EXCEPT ![p].work = @ \ {l}]
            /\ job[p].pc = "pick" /\ l \in job[p].work
        BY <1>3, <3>1 DEF PickLead
      <4> QED
        BY <1>0, <4>1 DEF JobType
    <3>2. CASE <<"intro", l>> \notin marked
      <4>1. /\ job' = [job EXCEPT ![p].pc = "send", ![p].work = @ \ {l}, ![p].lead = l]
            /\ job[p].pc = "pick" /\ l \in job[p].work
        BY <1>3, <3>2 DEF PickLead
      <4> QED
        BY <1>0, <4>1 DEF JobType
    <3> QED
      BY <3>1, <3>2
  <2>2. stage' = stage /\ faults' = faults
    BY <1>3 DEF PickLead, leadVars, bounds
  <2> QED
    BY <2>1, <2>2, <1>m DEF WorkPCs, HandPCs
<1>4. CASE QueueFollowUp(p) \/ MarkIntro(p)
  <2>1. /\ job'[p].acct = job[p].acct /\ job'[p].work = job[p].work /\ job'[p].pc \in {"pick", "queue"}
        /\ job[p].pc \in {"note", "queue"}
    <3>1. CASE QueueFollowUp(p)
      BY <1>0, <3>1 DEF QueueFollowUp, JobType
    <3>2. CASE MarkIntro(p)
      BY <1>0, <3>2 DEF MarkIntro, Step, JobType
    <3> QED
      BY <1>4, <3>1, <3>2
  <2>2. stage' = stage /\ faults' = faults
    BY <1>4 DEF QueueFollowUp, MarkIntro, leadVars, bounds
  <2> QED
    BY <2>1, <2>2, <1>m DEF WorkPCs, HandPCs
<1>s. ASSUME job[p].pc \in {"pick", "send", "stamp"}, faults' = faults, OpenWork(job'[p]),
             \A l \in Leads : Unmade(l)' => Unmade(l) /\ ~InHand(job[p], l),
             \A l \in Leads : ToCome(job'[p], l) => ToCome(job[p], l)
      PROVE  IntroInv'
  BY <1>j, <1>l, <1>s, IntroMoved
<1>5. CASE SendFails(p) \/ AlreadyMade(p)
  <2>1. /\ job'[p].acct = job[p].acct /\ job'[p].work = job[p].work /\ job'[p].pc = "pick"
        /\ job[p].pc = "send"
    BY <1>0, <1>5 DEF SendFails, AlreadyMade, JobType
  <2>2. faults' = faults
    BY <1>5 DEF SendFails, AlreadyMade, bounds
  <2>3. PICK v \in {"closed", "introduced"} : stage' = [stage EXCEPT ![job[p].lead] = v]
    BY <1>5 DEF SendFails, AlreadyMade
  <2>4. OpenWork(job'[p])
    BY <1>w, <2>1 DEF OpenWork, WorkPCs, HandPCs
  <2>5. \A l \in Leads : Unmade(l)' => Unmade(l) /\ ~InHand(job[p], l)
    BY <1>0, <2>1, <2>3 DEF Unmade, InHand
  <2>6. \A l \in Leads : ToCome(job'[p], l) => ToCome(job[p], l)
    BY <2>1 DEF ToCome, WorkPCs
  <2> QED
    BY <2>1, <2>2, <2>4, <2>5, <2>6, <1>s
<1>6. CASE BrowserDies(p)
  <2>1. job'[p].pc = "close" /\ job[p].pc \in {"pick", "send"} /\ faults' = faults
    BY <1>0, <1>6 DEF BrowserDies, JobType, bounds
  <2>2. \A l \in Leads : stage'[l] = "closed" \/ stage'[l] = stage[l]
    BY <1>6 DEF BrowserDies
  <2>3. \A l \in Leads : Unmade(l)' => Unmade(l) /\ ~InHand(job[p], l)
    BY <2>1, <2>2 DEF Unmade, InHand
  <2>4. OpenWork(job'[p]) /\ \A l \in Leads : ~ToCome(job'[p], l)
    BY <2>1 DEF OpenWork, ToCome, WorkPCs, HandPCs
  <2> QED
    BY <2>1, <2>3, <2>4, <1>s
<1>7. CASE StampIntro(p)
  <2>1. /\ job'[p].acct = job[p].acct /\ job'[p].work = job[p].work /\ job'[p].pc = "note"
        /\ job[p].pc = "stamp" /\ faults' = faults
        /\ stage' = [stage EXCEPT ![job[p].lead] = "introduced"]
    BY <1>0, <1>7 DEF StampIntro, Step, JobType, bounds
  <2>2. OpenWork(job'[p])
    BY <1>w, <2>1 DEF OpenWork, WorkPCs, HandPCs
  <2>3. \A l \in Leads : Unmade(l)' => Unmade(l) /\ ~InHand(job[p], l)
    BY <1>0, <2>1 DEF Unmade, InHand
  <2>4. \A l \in Leads : ToCome(job'[p], l) => ToCome(job[p], l)
    BY <2>1 DEF ToCome, WorkPCs
  <2> QED
    BY <2>1, <2>2, <2>3, <2>4, <1>s
<1>8. CASE StoreFails(p)
  <2>1. job'[p].pc = "close" /\ stage' = stage /\ faults' = faults + 1
    BY <1>0, <1>8 DEF StoreFails, Fault, leadVars, JobType
  <2>2. OpenWork(job'[p]) /\ \A l \in Leads : ~ToCome(job'[p], l)
    BY <2>1 DEF OpenWork, ToCome, WorkPCs, HandPCs
  <2>3. \A l \in Leads : Unmade(l)' <=> Unmade(l)
    BY <2>1 DEF Unmade
  <2> QED
    BY <1>j, <1>l, <2>1, <2>2, <2>3, IntroMoved
<1> QED
  BY <1>1, <1>2, <1>3, <1>4, <1>5, <1>6, <1>7, <1>8

\* The steps of a handler outside an introduction.
LEMMA IntroOutside ==
  ASSUME TypeInv, NEW p \in Pods,
         \/ BeginMonitor(p) \/ NoAccountLeft(p) \/ CheckFails(p)
         \/ (\E a \in Accounts : NextAccount(p, a))
         \/ NoLeadLeft(p) \/ Close(p) \/ MonitorTail(p) \/ ExpireMonitoring(p)
         \/ BeginReply(p) \/ ReplyTail(p) \/ WasActionSent(p) \/ TakePrimary(p)
         \/ Act(p) \/ ActFails(p) \/ MarkFollowUp(p) \/ Settle(p)
         \/ (\E t \in Tasks : ClaimNextDueTask(p, t))
  PROVE  /\ job'[p].pc \notin WorkPCs /\ job[p].pc # "stamp"
         /\ \A q \in Pods \ {p} : job'[q] = job[q]
         /\ stage' = stage /\ intros' = intros /\ faults' = faults /\ lapses' = lapses
<1>0. job \in [Pods -> JobType] /\ job[p] \in JobType
  BY TypeParts
<1>1. \A q \in Pods \ {p} : job'[q] = job[q]
  BY SweepSteps, IntroSteps, ActSteps, <1>0 DEF JobStep
<1>2. stage' = stage /\ intros' = intros /\ faults' = faults /\ lapses' = lapses
  BY DEF BeginMonitor, NoAccountLeft, CheckFails, NextAccount, NoLeadLeft, Close, MonitorTail,
         ExpireMonitoring, BeginReply, ReplyTail, WasActionSent, TakePrimary, Act, ActFails,
         MarkFollowUp, Settle, ClaimNextDueTask, leadVars, bounds, histVars
<1>3. job[p].pc # "stamp"
  BY DEF BeginMonitor, NoAccountLeft, CheckFails, NextAccount, NoLeadLeft, Close, MonitorTail,
         ExpireMonitoring, BeginReply, ReplyTail, WasActionSent, TakePrimary, Act, ActFails,
         MarkFollowUp, Settle, ClaimNextDueTask
<1> DEFINE out == job'[p].pc \notin WorkPCs
<1> SUFFICES out
  BY <1>1, <1>2, <1>3
<1> USE DEF WorkPCs
<1>f. ASSUME NEW STATE v, Finish(p, v) PROVE out
  BY <1>0, <1>f DEF Finish, Idle
<1>s. ASSUME NEW x \in {"tail", "close", "expire", "take"}, Step(p, x) PROVE out
  BY <1>0, <1>s DEF Step, JobType
<1>4. CASE \/ BeginMonitor(p) \/ BeginReply(p)
  BY <1>0, <1>4, <1>f DEF BeginMonitor, BeginReply, JobType
<1>5. ASSUME NEW a \in Accounts, NextAccount(p, a) PROVE out
  <2>1. CASE lock[a] = NoPod
    <3>1. job' = [job EXCEPT ![p].pc = IF job[p].task = Monitor THEN "check" ELSE "close",
                             ![p].todo = @ \ {a}, ![p].acct = a]
      BY <1>5, <2>1 DEF NextAccount
    <3>2. job'[p].pc = IF job[p].task = Monitor THEN "check" ELSE "close"
      BY <1>0, <3>1 DEF JobType
    <3> QED
      BY <3>2
  <2>2. CASE lock[a] # NoPod
    <3>1. job[p].pc = "next" /\ job' = [job EXCEPT ![p].todo = @ \ {a}]
      BY <1>5, <2>2 DEF NextAccount
    <3> QED
      BY <1>0, <3>1 DEF JobType
  <2> QED
    BY <2>1, <2>2
<1>6. CASE Close(p)
  <2>1. CASE job[p].task \in {Monitor, Reply}
    BY <1>0, <1>6, <2>1, TaskTypes DEF Close, JobType
  <2>2. CASE job[p].task \notin {Monitor, Reply} /\ job[p].task[1] = "follow_up" /\ job[p].res = "done"
    BY <1>0, <1>6, <2>2 DEF Close, JobType
  <2>3. CASE job[p].task \notin {Monitor, Reply} /\ ~(job[p].task[1] = "follow_up" /\ job[p].res = "done")
    <3>1. Finish(p, job[p].res)
      BY <1>6, <2>3 DEF Close
    <3> QED
      BY <3>1, <1>f
  <2> QED
    BY <2>1, <2>2, <2>3
<1>7. CASE MonitorTail(p) \/ ExpireMonitoring(p) \/ ReplyTail(p) \/ MarkFollowUp(p) \/ WasActionSent(p)
  <2>1. (\E v : Finish(p, v)) \/ Step(p, "expire") \/ Step(p, "take")
    BY <1>7 DEF MonitorTail, ExpireMonitoring, ReplyTail, MarkFollowUp, WasActionSent
  <2> QED
    BY <2>1, <1>s, <1>0 DEF Finish, Idle
<1>8. CASE NoAccountLeft(p) \/ CheckFails(p) \/ NoLeadLeft(p) \/ Act(p)
  BY <1>8, <1>s DEF NoAccountLeft, CheckFails, NoLeadLeft, Act
<1>9. CASE TakePrimary(p)
  <2>1. CASE lock[Primary] = NoPod
    BY <1>0, <1>9, <2>1 DEF TakePrimary, JobType
  <2>2. CASE lock[Primary] # NoPod
    BY <1>9, <2>2, <1>f DEF TakePrimary
  <2> QED
    BY <2>1, <2>2
<1>10. CASE ActFails(p) \/ Settle(p)
  BY <1>0, <1>10 DEF ActFails, Settle, Idle, JobType
<1>11. ASSUME NEW t \in Tasks, ClaimNextDueTask(p, t) PROVE out
  <2>1. job'[p].pc \in {"begin", "guard", "take"}
    BY <1>0, <1>11, ClaimStep DEF Claimed
  <2> QED
    BY <2>1
<1> QED
  BY <1>4, <1>5, <1>6, <1>7, <1>8, <1>9, <1>10, <1>11

\* Every step keeps the account of introductions.
LEMMA IntroNext == TypeInv /\ TypeInv' /\ LockInv /\ IntroInv /\ [Next]_vars => IntroInv'
<1> SUFFICES ASSUME TypeInv, TypeInv', LockInv, IntroInv, [Next]_vars PROVE IntroInv'
  OBVIOUS
<1>0. /\ job \in [Pods -> JobType]
      /\ stage \in [Leads -> {"invited", "accepted", "stamped", "introduced", "closed"}]
      /\ faults \in Nat /\ lapses \in [Accounts -> Nat]
  BY TypeParts DEF RestOK
<1>u. ASSUME job' = job, stage' = stage, intros' = intros, faults' = faults, lapses' = lapses
      PROVE  IntroInv'
  <2>1. \A l \in Leads : Unmade(l)' => Unmade(l)
    BY <1>u DEF Unmade
  <2>2. \A a \in Accounts : lapses'[a] >= lapses[a]
    BY <1>0, <1>u
  <2> QED
    BY <1>u, <2>1, <2>2, IntroStill
<1>o. ASSUME NEW p \in Pods, job'[p].pc \notin WorkPCs, \A q \in Pods \ {p} : job'[q] = job[q],
             stage' = stage, intros' = intros, faults' \in {faults, faults + 1}, lapses' = lapses,
             job[p].pc # "stamp" \/ faults' = faults + 1
      PROVE  IntroInv'
  <2>1. OpenWork(job'[p]) /\ \A l \in Leads : ~ToCome(job'[p], l)
    BY <1>o DEF OpenWork, ToCome, WorkPCs, HandPCs
  <2>2. \A l \in Leads : Unmade(l)' <=> Unmade(l)
    BY <1>o DEF Unmade
  <2>3. \A l \in Leads : ~InHand(job[p], l) \/ faults' = faults + 1
    BY <1>o DEF InHand
  <2> QED
    BY <1>o, <2>1, <2>2, <2>3, IntroMoved
<1>1. ASSUME NEW p \in Pods, Handler(p) \/ Settle(p) \/ StoreFails(p) \/ \E t \in Tasks : ClaimNextDueTask(p, t)
      PROVE  IntroInv'
  <2>1. CASE \/ RunBulkCheck(p) \/ PrimaryGate(p) \/ (\E l \in Leads : PickLead(p, l))
             \/ SendFails(p) \/ AlreadyMade(p) \/ BrowserDies(p) \/ StampIntro(p) \/ MarkIntro(p)
             \/ StoreFails(p) \/ QueueFollowUp(p)
    BY <2>1, IntroStepsKeep
  <2>2. CASE SendIntro(p)
    BY <2>2, IntroSent
  <2>3. CASE \/ BeginMonitor(p) \/ NoAccountLeft(p) \/ CheckFails(p)
             \/ (\E a \in Accounts : NextAccount(p, a))
             \/ NoLeadLeft(p) \/ Close(p) \/ MonitorTail(p) \/ ExpireMonitoring(p)
             \/ BeginReply(p) \/ ReplyTail(p) \/ WasActionSent(p) \/ TakePrimary(p)
             \/ Act(p) \/ ActFails(p) \/ MarkFollowUp(p) \/ Settle(p)
             \/ (\E t \in Tasks : ClaimNextDueTask(p, t))
    <3>1. /\ job'[p].pc \notin WorkPCs /\ job[p].pc # "stamp"
          /\ \A q \in Pods \ {p} : job'[q] = job[q]
          /\ stage' = stage /\ intros' = intros /\ faults' = faults /\ lapses' = lapses
      BY <2>3, IntroOutside
    <3> QED
      BY <3>1, <1>o
  <2> QED
    BY <1>1, <2>1, <2>2, <2>3 DEF Handler
<1>2. ASSUME NEW p \in Pods, Kill(p) PROVE IntroInv'
  <2>1. /\ job' = [job EXCEPT ![p] = Idle] /\ stage' = stage /\ intros' = intros
        /\ faults' = faults + 1 /\ lapses' = lapses
    BY <1>2 DEF Kill, Fault, PodStops, leadVars, histVars
  <2>2. Idle.pc = "idle"
    BY DEF Idle
  <2>3. job'[p].pc = "idle" /\ \A q \in Pods \ {p} : job'[q] = job[q]
    BY <1>0, <2>1, <2>2
  <2> QED
    BY <2>1, <2>3, <1>o DEF WorkPCs
<1>3. ASSUME NEW p \in Pods, ScaleDown(p) PROVE IntroInv'
  <2>1. job' = [job EXCEPT ![p] = Idle] /\ job[p] = Idle
    BY <1>3 DEF ScaleDown, PodStops
  <2>2. stage' = stage /\ intros' = intros /\ faults' = faults /\ lapses' = lapses
    BY <1>3 DEF ScaleDown, PodStops, leadVars, histVars
  <2>3. job' = job
    BY <1>0, <2>1
  <2> QED
    BY <2>2, <2>3, <1>u
<1>4. ASSUME NEW l \in Leads, AcceptsInvitation(l) PROVE IntroInv'
  <2>1. /\ stage[l] = "invited" /\ stage' = [stage EXCEPT ![l] = "accepted"]
        /\ job' = job /\ intros' = intros /\ faults' = faults /\ lapses' = lapses
    BY <1>4 DEF AcceptsInvitation, bounds, histVars
  <2>2. \A k \in Leads : Unmade(k)' => Unmade(k)
    BY <1>0, <2>1 DEF Unmade
  <2>3. \A a \in Accounts : lapses'[a] >= lapses[a]
    BY <1>0, <2>1
  <2> QED
    BY <2>1, <2>2, <2>3, IntroStill
<1>5. ASSUME NEW a \in Accounts, LockLapses(a) PROVE IntroInv'
  <2>1. /\ lapses' = [lapses EXCEPT ![a] = @ + 1]
        /\ job' = job /\ intros' = intros /\ faults' = faults /\ stage' = stage
    BY <1>5 DEF LockLapses, leadVars, bounds
  <2>2. \A k \in Leads : Unmade(k)' => Unmade(k)
    BY <2>1 DEF Unmade
  <2>3. \A b \in Accounts : lapses'[b] >= lapses[b]
    BY <1>0, <2>1
  <2> QED
    BY <2>1, <2>2, <2>3, IntroStill
<1>6. CASE \/ \E p \in Pods : \/ PassEnds(p) \/ ReapOrphanedTasks(p) \/ PodStarts(p) \/ TurnLeaves(p)
                             \/ \E a \in Accounts : TurnTakes(p, a)
           \/ \E t \in Tasks : BecomeDue(t) \/ ClaimAges(t)
           \/ \E a \in Accounts : LockExpires(a)
  BY <1>6, <1>u DEF PassEnds, ArmTransition, ReapOrphanedTasks, PodStarts, TurnLeaves, TurnTakes,
                    BecomeDue, ClaimAges, LockExpires, leadVars, bounds, histVars
<1>7. CASE FinishTransition \/ Operator
  BY <1>7, <1>u DEF FinishTransition, Operator, KeepMonitoring, ArmTransition, Stop, Resume, CheckNow,
                    AutoChecks, leadVars, bounds, histVars
<1>8. CASE UNCHANGED vars
  BY <1>8, <1>u DEF vars, leadVars, bounds, histVars
<1> QED
  BY <1>1, <1>2, <1>3, <1>4, <1>5, <1>6, <1>7, <1>8 DEF Next, Scheduler, World

\* What the slots tell bounds the introductions.
LEMMA IntroBounds == TypeInv /\ LockInv /\ IntroInv => IntroBudget
<1> SUFFICES ASSUME TypeInv, LockInv, IntroInv, NEW l \in Leads
             PROVE  intros[l] <= 1 + faults + lapses[AccountOf[l]]
  BY DEF IntroBudget
<1>1. Slot(l) /\ WorkInv
  BY DEF IntroInv, SlotTells
<1> QED
  BY <1>1, FewHands, SlotNumbers DEF Slot

\* A lead is introduced once, and once more for each killed pod and failed write and for
\* each lock of its account that lapsed under a sweep.
THEOREM IntroducedOnce == Spec => []IntroBudget
<1>1. TypeInv /\ LockInv /\ [Next]_vars => LockInv'
  BY LockNext
<1> QED
  BY <1>1, TypeInit, TypeNext, LockInit, IntroInit, IntroNext, IntroBounds, PTL DEF Spec

-----------------------------------------------------------------------------
(* Follow-ups.                                                             *)

\* A pod's handler is about the follow-up of this lead.
Tends(p, l) == job[p].pc # "idle" /\ job[p].task = Follow(l)

\* A follow-up that is worked on is claimed, by one pod.
Claims == \A p \in Pods : \A l \in Leads : Tends(p, l) =>
    /\ row[Follow(l)] = "claimed"
    /\ \A q \in Pods : Tends(q, l) => q = p

\* The leads with a durable mark of their follow-up.
Noted == {l \in Leads : <<"follow_up", l>> \in marked}

\* A handler on its way to send has found the lead unmarked.
Afresh == \A p \in Pods : \A l \in Leads : Tends(p, l) =>
    /\ job[p].pc \in {"guard", "take", "act"} => job[p].res = "done"
    /\ job[p].pc \in {"take", "act"} => l \notin Noted

\* The follow-up of a lead is out and not yet marked.
Sent(p)     == job[p].pc = "mark" \/ (job[p].pc = "close" /\ job[p].res = "done")
Unmarked(l) == \E p \in Pods : Tends(p, l) /\ Sent(p)

\* An unmarked lead has had no follow-up but for faults, or one this instant.
MarkTells == \A l \in Leads :
    /\ fus[l] <= 1 + faults
    /\ fus[l] <= faults \/ l \in Noted \/ Unmarked(l)

FollowInv == Claims /\ Afresh /\ MarkTells

\* Where a follow-up's handler can be, and that its lead is the task's.
LEMMA TendsShape ==
  ASSUME TypeInv, NEW p \in Pods, NEW l \in Leads, Tends(p, l)
  PROVE  /\ job[p].pc \in {"guard", "take", "act", "close", "mark", "settle"}
         /\ job[p].pc # "settle" => job[p].lead = l
<1>0. job[p] \in JobType /\ Shaped(job[p])
  BY TypeParts DEF JobInv
<1>1. job[p].task \notin {Monitor, Reply} /\ job[p].task = Follow(l) /\ job[p].pc # "idle"
  BY TaskTypes DEF Tends
<1>2. job[p].pc \in {"guard", "take", "act", "close", "mark", "settle"}
  BY <1>0, <1>1 DEF Shaped, JobType, PCs, Holding, Sweeps
<1>3. ASSUME job[p].pc # "settle" PROVE job[p].lead = l
  <2>1. Pointed(job[p])
    BY <1>0, <1>1, <1>2, <1>3 DEF Shaped, Acts
  <2> QED
    BY <1>1, <2>1, TaskTypes DEF Pointed
<1> QED
  BY <1>2, <1>3

\* Steps that leave every follow-up's handler, mark and message alone.
LEMMA FollowKept ==
  ASSUME TypeInv, TypeInv', FollowInv, Noted' = Noted, fus' = fus, faults' >= faults,
         \A p \in Pods : \A l \in Leads :
            Tends(p, l) /\ row[Follow(l)] = "claimed" => row'[Follow(l)] = "claimed",
         \A p \in Pods : \/ job'[p] = job[p]
                         \/ \A l \in Leads : ~Tends(p, l) /\ ~Tends(p, l)'
  PROVE  FollowInv'
<1>1. \A p \in Pods : \A l \in Leads : Tends(p, l) <=> Tends(p, l)'
  BY DEF Tends
<1>2. \A p \in Pods : \A l \in Leads : Tends(p, l) => job'[p] = job[p]
  OBVIOUS
<1>3. Claims'
  BY <1>1 DEF FollowInv, Claims
<1>4. Afresh'
  BY <1>1, <1>2 DEF FollowInv, Afresh
<1>5. \A l \in Leads : Unmarked(l) => Unmarked(l)'
  BY <1>1, <1>2 DEF Unmarked, Sent
<1>6. fus \in [Leads -> Nat] /\ faults \in Nat /\ faults' \in Nat
  BY TypeParts DEF TypeInv, TypeOK, RestOK
<1>7. MarkTells'
  BY <1>5, <1>6 DEF FollowInv, MarkTells
<1> QED
  BY <1>3, <1>4, <1>7 DEF FollowInv

\* Nobody is followed up at the start.
LEMMA FollowInit == Init => FollowInv
<1> SUFFICES ASSUME Init PROVE FollowInv
  OBVIOUS
<1>1. \A p \in Pods : \A l \in Leads : ~Tends(p, l)
  BY DEF Init, Tends, Idle
<1>2. MarkTells
  BY BoundsAssumption DEF Init, MarkTells
<1> QED
  BY <1>1, <1>2 DEF FollowInv, Claims, Afresh

\* A handler stays with its task until Settle, whichever way it goes.
LEMMA TaskKept ==
  ASSUME TypeInv, NEW p \in Pods, Handler(p) \/ StoreFails(p)
  PROVE  /\ job'[p].task = job[p].task
         /\ job[p].pc # "idle"
         /\ \A q \in Pods \ {p} : job'[q] = job[q]
<1>0. job[p] \in JobType /\ Shaped(job[p]) /\ job \in [Pods -> JobType]
  BY TypeParts DEF JobInv
<1>1. \A q \in Pods \ {p} : job'[q] = job[q]
  BY SweepSteps, IntroSteps, ActSteps, <1>0 DEF Handler, JobStep
<1>2. job[p].pc # "idle"
  BY DEF Handler, BeginMonitor, NoAccountLeft, RunBulkCheck, CheckFails, PrimaryGate, NextAccount,
         PickLead, NoLeadLeft, SendIntro, SendFails, AlreadyMade, BrowserDies, StampIntro, MarkIntro, StoreFails,
         QueueFollowUp, Close, MonitorTail, ExpireMonitoring, BeginReply, ReplyTail,
         WasActionSent, TakePrimary, Act, ActFails, MarkFollowUp
<1> DEFINE keeps == job'[p].task = job[p].task
<1> SUFFICES keeps
  BY <1>1, <1>2
<1>f. ASSUME NEW STATE v, Finish(p, v) PROVE keeps
  BY <1>0, <1>f DEF Finish, Idle
<1> USE DEF JobType, Step
<1>3. CASE BeginMonitor(p) \/ BeginReply(p)
  BY <1>0, <1>3, <1>f DEF BeginMonitor, BeginReply
<1>4. CASE NoAccountLeft(p) \/ CheckFails(p) \/ NoLeadLeft(p) \/ SendIntro(p)
  BY <1>0, <1>4 DEF NoAccountLeft, CheckFails, NoLeadLeft, SendIntro
<1>5. CASE RunBulkCheck(p) \/ PrimaryGate(p)
  BY <1>0, <1>5 DEF RunBulkCheck, PrimaryGate
<1>6. ASSUME NEW l \in Leads, PickLead(p, l) PROVE keeps
  BY <1>0, <1>6 DEF PickLead
<1>13. ASSUME NEW a \in Accounts, NextAccount(p, a) PROVE keeps
  <2>1. CASE lock[a] = NoPod
    <3>1. job' = [job EXCEPT ![p].pc = IF job[p].task = Monitor THEN "check" ELSE "close",
                             ![p].todo = @ \ {a}, ![p].acct = a]
      BY <1>13, <2>1 DEF NextAccount
    <3> QED
      BY <1>0, <3>1
  <2>2. CASE lock[a] # NoPod
    <3>1. job' = [job EXCEPT ![p].todo = @ \ {a}]
      BY <1>13, <2>2 DEF NextAccount
    <3> QED
      BY <1>0, <3>1
  <2> QED
    BY <2>1, <2>2
<1>7. CASE SendFails(p) \/ AlreadyMade(p) \/ BrowserDies(p)
  BY <1>0, <1>7 DEF SendFails, AlreadyMade, BrowserDies
<1>8. CASE StampIntro(p) \/ MarkIntro(p) \/ StoreFails(p) \/ QueueFollowUp(p)
  BY <1>0, <1>8 DEF StampIntro, MarkIntro, StoreFails, QueueFollowUp
<1>9. CASE Close(p)
  <2>1. CASE job[p].task \in {Monitor, Reply}
    BY <1>0, <1>9, <2>1 DEF Close
  <2>2. CASE job[p].task \notin {Monitor, Reply} /\ job[p].task[1] = "follow_up" /\ job[p].res = "done"
    BY <1>0, <1>9, <2>2 DEF Close
  <2>3. CASE job[p].task \notin {Monitor, Reply} /\ ~(job[p].task[1] = "follow_up" /\ job[p].res = "done")
    <3>1. Finish(p, job[p].res)
      BY <1>9, <2>3 DEF Close
    <3> QED
      BY <3>1, <1>f
  <2> QED
    BY <2>1, <2>2, <2>3
<1>10. CASE MonitorTail(p) \/ ExpireMonitoring(p) \/ ReplyTail(p) \/ MarkFollowUp(p) \/ WasActionSent(p)
  <2>1. (\E v : Finish(p, v)) \/ (\E x : Step(p, x))
    BY <1>10 DEF MonitorTail, ExpireMonitoring, ReplyTail, MarkFollowUp, WasActionSent
  <2>2. ASSUME NEW v, Finish(p, v) PROVE keeps
    BY <1>0, <2>2 DEF Finish, Idle
  <2>3. ASSUME NEW x, Step(p, x) PROVE keeps
    BY <1>0, <2>3
  <2> QED
    BY <2>1, <2>2, <2>3
<1>11. CASE TakePrimary(p)
  <2>1. CASE lock[Primary] = NoPod
    BY <1>0, <1>11, <2>1 DEF TakePrimary
  <2>2. CASE lock[Primary] # NoPod
    BY <1>11, <2>2, <1>f DEF TakePrimary
  <2> QED
    BY <2>1, <2>2
<1>12. CASE Act(p) \/ ActFails(p)
  BY <1>0, <1>12 DEF Act, ActFails
<1> QED
  BY <1>3, <1>4, <1>5, <1>6, <1>7, <1>8, <1>9, <1>10, <1>11, <1>12, <1>13 DEF Handler

\* A follow-up's handler moves on.
LEMMA FollowMoved ==
  ASSUME TypeInv, TypeInv', FollowInv, NEW p \in Pods, NEW l \in Leads,
         Tends(p, l), Tends(p, l)', row' = row, faults' = faults,
         \A q \in Pods \ {p} : job'[q] = job[q],
         job'[p].pc \in {"guard", "take", "act"} => job'[p].res = "done",
         job'[p].pc \in {"take", "act"} => l \notin Noted',
         Noted \subseteq Noted', Noted' \subseteq Noted \union {l},
         \A k \in Leads \ {l} : fus'[k] = fus[k],
         fus'[l] <= 1 + faults, fus'[l] <= faults \/ l \in Noted' \/ Sent(p)'
  PROVE  FollowInv'
<1>1. \A q \in Pods : \A k \in Leads : Tends(q, k)' <=> Tends(q, k)
  BY TaskTypes DEF Tends
<1>2. \A q \in Pods : Tends(q, l) => q = p
  BY DEF FollowInv, Claims
<1>3. ASSUME NEW k \in Leads, Tends(p, k) PROVE k = l
  <2>1. Follow(k) = Follow(l)
    BY <1>3 DEF Tends
  <2>2. Follow(k)[2] = Follow(l)[2]
    BY <2>1
  <2> QED
    BY <2>2 DEF Follow
<1>4. Claims'
  BY <1>1 DEF FollowInv, Claims
<1>5. ASSUME NEW q \in Pods, NEW k \in Leads, Tends(q, k)'
      PROVE  /\ job'[q].pc \in {"guard", "take", "act"} => job'[q].res = "done"
             /\ job'[q].pc \in {"take", "act"} => k \notin Noted'
  <2>1. CASE q = p
    BY <1>1, <1>3, <1>5, <2>1
  <2>2. CASE q # p
    <3>1. Tends(q, k) /\ k # l /\ job'[q] = job[q]
      BY <1>1, <1>2, <1>5, <2>2
    <3> QED
      BY <3>1 DEF FollowInv, Afresh
  <2> QED
    BY <2>1, <2>2
<1>6. Afresh'
  BY <1>5 DEF Afresh
<1>7. \A k \in Leads \ {l} : Unmarked(k) => Unmarked(k)'
  BY <1>1, <1>3 DEF Unmarked, Sent
<1>8. Sent(p)' => Unmarked(l)'
  BY DEF Unmarked
<1>9. MarkTells'
  BY <1>7, <1>8 DEF FollowInv, MarkTells
<1> QED
  BY <1>4, <1>6, <1>9 DEF FollowInv

\* The steps of a follow-up: it is sent only by a pod that claimed it and found it unmarked.
LEMMA FollowSteps ==
  ASSUME TypeInv, TypeInv', FollowInv, NEW p \in Pods, NEW l \in Leads, Tends(p, l),
         \/ WasActionSent(p) \/ TakePrimary(p) \/ Act(p) \/ ActFails(p) \/ Close(p)
         \/ MarkFollowUp(p)
  PROVE  FollowInv'
<1>0. /\ job \in [Pods -> JobType] /\ job[p] \in JobType
      /\ fus \in [Leads -> Nat] /\ faults \in Nat /\ Noted \subseteq Leads
  BY TypeParts DEF RestOK, Noted
<1>1. /\ job'[p].task = Follow(l) /\ \A q \in Pods \ {p} : job'[q] = job[q]
      /\ job[p].task = Follow(l) /\ job[p].task \notin {Monitor, Reply}
      /\ job[p].task[1] = "follow_up"
  BY TaskKept, TaskTypes DEF Handler, Tends
<1>2. row' = row /\ faults' = faults
  BY DEF WasActionSent, TakePrimary, Act, ActFails, Close, MarkFollowUp, taskVars, bounds
<1>3. job[p].pc # "settle" /\ job[p].lead = l
  BY TendsShape DEF WasActionSent, TakePrimary, Act, ActFails, Close, MarkFollowUp
<1>4. /\ job[p].pc \in {"guard", "take", "act"} => job[p].res = "done"
      /\ job[p].pc \in {"take", "act"} => l \notin Noted
  BY DEF FollowInv, Afresh
<1>5. fus[l] <= 1 + faults /\ (~Sent(p) => fus[l] <= faults \/ l \in Noted)
  <2>1. Unmarked(l) => Sent(p)
    BY DEF FollowInv, Claims, Unmarked
  <2> QED
    BY <2>1 DEF FollowInv, MarkTells
<1>6. ASSUME job'[p].pc # "idle", Noted' = Noted, fus' = fus,
             job'[p].pc \in {"guard", "take", "act"} => job'[p].res = "done",
             job'[p].pc \in {"take", "act"} => l \notin Noted,
             Sent(p) => Sent(p)'
      PROVE  FollowInv'
  <2>1. Tends(p, l)'
    BY <1>1, <1>6 DEF Tends
  <2> QED
    BY <1>1, <1>2, <1>5, <1>6, <2>1, FollowMoved
<1>f. ASSUME NEW STATE v, Finish(p, v) PROVE job'[p].pc = "settle"
  BY <1>0, <1>f DEF Finish, Idle
<1>7. CASE WasActionSent(p)
  <2>1. Noted' = Noted /\ fus' = fus /\ job[p].pc = "guard" /\ ~Sent(p)
    BY <1>7 DEF WasActionSent, leadVars, Sent, Noted
  <2>2. CASE l \in Noted
    <3>1. job'[p].pc = "settle"
      BY <1>3, <1>7, <2>2, <1>f DEF WasActionSent, Noted
    <3> QED
      BY <1>6, <2>1, <3>1
  <2>3. CASE l \notin Noted
    <3>1. job'[p].pc = "take" /\ job'[p].res = job[p].res
      BY <1>0, <1>3, <1>7, <2>3 DEF WasActionSent, Step, JobType, Noted
    <3> QED
      BY <1>4, <1>6, <2>1, <2>3, <3>1
  <2> QED
    BY <2>2, <2>3
<1>8. CASE TakePrimary(p)
  <2>1. Noted' = Noted /\ fus' = fus /\ job[p].pc = "take" /\ ~Sent(p)
    BY <1>8 DEF TakePrimary, leadVars, Sent, Noted
  <2>2. CASE lock[Primary] # NoPod
    <3>1. job'[p].pc = "settle"
      BY <1>8, <2>2, <1>f DEF TakePrimary
    <3> QED
      BY <1>6, <2>1, <3>1
  <2>3. CASE lock[Primary] = NoPod
    <3>1. job'[p].pc = "act" /\ job'[p].res = job[p].res
      BY <1>0, <1>8, <2>3 DEF TakePrimary, JobType
    <3> QED
      BY <1>4, <1>6, <2>1, <3>1
  <2> QED
    BY <2>2, <2>3
<1>9. CASE Act(p)
  <2>1. /\ Noted' = Noted /\ job[p].pc = "act" /\ job[p].lead # NoLead
        /\ fus' = [fus EXCEPT ![l] = @ + 1]
    BY <1>3, <1>9, NonesAssumption DEF Act, Noted
  <2>2. job'[p].pc = "close" /\ job'[p].res = job[p].res
    BY <1>0, <1>9 DEF Act, Step, JobType
  <2>3. Tends(p, l)' /\ Sent(p)' /\ ~Sent(p) /\ l \notin Noted
    BY <1>1, <1>4, <2>1, <2>2 DEF Tends, Sent
  <2>4. fus'[l] <= 1 + faults /\ \A k \in Leads \ {l} : fus'[k] = fus[k]
    BY <1>0, <1>5, <2>1, <2>3
  <2> QED
    BY <1>1, <1>2, <2>1, <2>2, <2>3, <2>4, FollowMoved
<1>10. CASE ActFails(p)
  <2>1. Noted' = Noted /\ fus' = fus /\ job[p].pc = "act" /\ ~Sent(p)
    BY <1>10 DEF ActFails, leadVars, Sent, Noted
  <2>2. job'[p].pc = "close"
    BY <1>0, <1>10 DEF ActFails, JobType
  <2> QED
    BY <1>6, <2>1, <2>2
<1>11. CASE Close(p)
  <2>1. Noted' = Noted /\ fus' = fus /\ job[p].pc = "close"
    BY <1>11 DEF Close, leadVars, Noted
  <2>2. CASE job[p].res = "done"
    <3>1. job'[p].pc = "mark"
      BY <1>0, <1>1, <1>11, <2>2 DEF Close, JobType
    <3> QED
      BY <1>6, <2>1, <3>1 DEF Sent
  <2>3. CASE job[p].res # "done"
    <3>1. Finish(p, job[p].res)
      BY <1>1, <1>11, <2>3 DEF Close
    <3>2. job'[p].pc = "settle" /\ ~Sent(p)
      BY <3>1, <1>f, <2>1, <2>3 DEF Sent
    <3> QED
      BY <1>6, <2>1, <3>2
  <2> QED
    BY <2>2, <2>3
<1>12. CASE MarkFollowUp(p)
  <2>1. Noted' = Noted \union {l} /\ fus' = fus
    BY <1>3, <1>12 DEF MarkFollowUp, Noted
  <2>2. job'[p].pc = "settle"
    BY <1>12, <1>f DEF MarkFollowUp
  <2>3. Tends(p, l)'
    BY <1>1, <2>2 DEF Tends
  <2> QED
    BY <1>1, <1>2, <1>5, <2>1, <2>2, <2>3, FollowMoved
<1> QED
  BY <1>7, <1>8, <1>9, <1>10, <1>11, <1>12

\* Nobody takes a claim that is worked on away from its row.
LEMMA ClaimsStand ==
  ASSUME TypeInv, NEW l \in Leads, row[Follow(l)] = "claimed",
         \/ \E p \in Pods : Handler(p) \/ StoreFails(p) \/ PassEnds(p) \/ ReapOrphanedTasks(p)
         \/ \E t \in Tasks : BecomeDue(t)
         \/ FinishTransition \/ Operator
  PROVE  row'[Follow(l)] = "claimed"
<1>0. row \in [Tasks -> {"none", "waiting", "due", "claimed", "overdue", "done", "error"}]
  BY TypeParts DEF RestOK
<1>1. Follow(l) \in Tasks /\ Follow(l) # Monitor
  BY TaskTypes
<1>c. ASSUME NEW STATE ts, CreateTasks(ts) PROVE row'[Follow(l)] = "claimed"
  BY <1>1, <1>c DEF CreateTasks
<1>a. ASSUME NEW s, NEW x, ArmMonitor(s, x) PROVE row'[Follow(l)] = "claimed"
  BY <1>0, <1>1, <1>a DEF ArmMonitor
<1>2. ASSUME NEW p \in Pods, Handler(p) \/ StoreFails(p) PROVE row'[Follow(l)] = "claimed"
  <2>1. CASE PrimaryGate(p)
    <3>1. row' = row \/ CreateTasks({Accept(job[p].acct)})
      BY <2>1 DEF PrimaryGate
    <3> QED
      BY <3>1, <1>c
  <2>2. CASE QueueFollowUp(p)
    <3>1. CreateTasks({Follow(job[p].lead)})
      BY <2>2 DEF QueueFollowUp
    <3> QED
      BY <3>1, <1>c
  <2>3. CASE ~PrimaryGate(p) /\ ~QueueFollowUp(p)
    <3>1. row' = row
      BY <1>2, <2>3 DEF Handler, BeginMonitor, NoAccountLeft, RunBulkCheck, CheckFails, NextAccount,
         PickLead, NoLeadLeft, SendIntro, SendFails, AlreadyMade, BrowserDies, StampIntro, MarkIntro, StoreFails,
         Close, MonitorTail, ExpireMonitoring, BeginReply, ReplyTail,
         WasActionSent, TakePrimary, Act, ActFails, MarkFollowUp, taskVars
    <3> QED
      BY <3>1
  <2> QED
    BY <2>1, <2>2, <2>3
<1>t. ASSUME NEW who, ArmTransition(who) PROVE row'[Follow(l)] = "claimed"
  <2>1. CreateTasks({Monitor, Reply}) \/ CreateTasks({Monitor})
    BY <1>t DEF ArmTransition
  <2> QED
    BY <2>1, <1>c
<1>3. ASSUME NEW p \in Pods, PassEnds(p) PROVE row'[Follow(l)] = "claimed"
  BY <1>3, <1>t DEF PassEnds
<1>4. ASSUME NEW p \in Pods, ReapOrphanedTasks(p) PROVE row'[Follow(l)] = "claimed"
  BY <1>0, <1>1, <1>4 DEF ReapOrphanedTasks
<1>5. ASSUME NEW t \in Tasks, BecomeDue(t) PROVE row'[Follow(l)] = "claimed"
  BY <1>0, <1>1, <1>5 DEF BecomeDue
<1>6. CASE FinishTransition \/ Stop \/ Resume
  BY <1>6 DEF FinishTransition, Stop, Resume, taskVars
<1>7. CASE KeepMonitoring
  BY <1>7, <1>t DEF KeepMonitoring
<1>8. CASE CheckNow
  BY <1>8, <1>a DEF CheckNow
<1>9. ASSUME NEW e \in BOOLEAN, AutoChecks(e) PROVE row'[Follow(l)] = "claimed"
  BY <1>9, <1>a DEF AutoChecks, taskVars
<1> QED
  BY <1>2, <1>3, <1>4, <1>5, <1>6, <1>7, <1>8, <1>9 DEF Operator

\* Every step keeps the account of follow-ups.
LEMMA FollowNext == ~SlowFollowUps /\ TypeInv /\ TypeInv' /\ FollowInv /\ [Next]_vars => FollowInv'
<1> SUFFICES ASSUME ~SlowFollowUps, TypeInv, TypeInv', FollowInv, [Next]_vars PROVE FollowInv'
  OBVIOUS
<1>0. /\ job \in [Pods -> JobType] /\ JobInv
      /\ row \in [Tasks -> {"none", "waiting", "due", "claimed", "overdue", "done", "error"}]
      /\ fus \in [Leads -> Nat] /\ faults \in Nat /\ faults' \in Nat
  BY TypeParts DEF TypeInv, TypeOK, RestOK
<1>w. Claims /\ Afresh /\ MarkTells
  BY DEF FollowInv
<1>1. ASSUME NEW p \in Pods, Handler(p) \/ StoreFails(p) PROVE FollowInv'
  <2>1. ASSUME NEW l \in Leads, Tends(p, l) PROVE FollowInv'
    <3>1. job[p].pc \in {"guard", "take", "act", "close", "mark", "settle"}
      BY <2>1, TendsShape
    <3>2. \/ WasActionSent(p) \/ TakePrimary(p) \/ Act(p) \/ ActFails(p) \/ Close(p)
          \/ MarkFollowUp(p)
      BY <1>1, <3>1 DEF Handler, BeginMonitor, NoAccountLeft, RunBulkCheck, CheckFails, PrimaryGate,
         NextAccount, PickLead, NoLeadLeft, SendIntro, SendFails, AlreadyMade, BrowserDies, StampIntro, MarkIntro,
         StoreFails, QueueFollowUp, MonitorTail, ExpireMonitoring, BeginReply, ReplyTail
    <3> QED
      BY <2>1, <3>2, FollowSteps
  <2>2. CASE \A l \in Leads : ~Tends(p, l)
    <3>1. /\ job'[p].task = job[p].task /\ job[p].pc # "idle"
          /\ \A q \in Pods \ {p} : job'[q] = job[q]
      BY <1>1, TaskKept
    <3>2. \A l \in Leads : ~Tends(p, l)'
      BY <2>2, <3>1 DEF Tends
    <3>3. ASSUME Pointed(job[p]) PROVE job[p].lead = NoLead
      BY <2>2, <3>1, <3>3 DEF Pointed, Tends
    <3>4. ~MarkFollowUp(p)
      <4>1. job[p].pc = "mark" => Pointed(job[p]) /\ job[p].lead \in Leads
        BY <1>0 DEF JobInv, Shaped, Acts
      <4> QED
        BY <3>3, <4>1, NonesAssumption DEF MarkFollowUp
    <3>5. Act(p) => job[p].lead = NoLead
      <4>1. job[p].pc = "act" => Pointed(job[p])
        BY <1>0 DEF JobInv, Shaped, Acts
      <4> QED
        BY <3>3, <4>1 DEF Act
    <3>6. Noted' = Noted /\ fus' = fus /\ faults' >= faults
      <4>1. CASE Act(p)
        BY <1>0, <3>5, <4>1 DEF Act, bounds, Noted
      <4>2. CASE StoreFails(p)
        BY <1>0, <4>2 DEF StoreFails, Fault, leadVars, Noted
      <4>4. CASE MarkIntro(p)
        BY <1>0, <4>4 DEF MarkIntro, Noted, bounds
      <4>3. CASE ~Act(p) /\ ~StoreFails(p) /\ ~MarkIntro(p)
        <5>1. Noted' = Noted /\ fus' = fus
          BY <1>1, <3>4, <4>3 DEF Handler, BeginMonitor, NoAccountLeft, RunBulkCheck, CheckFails,
             PrimaryGate, NextAccount, PickLead, NoLeadLeft, SendIntro, SendFails, AlreadyMade, BrowserDies,
             StampIntro, QueueFollowUp, Close, MonitorTail, ExpireMonitoring, BeginReply, ReplyTail,
             WasActionSent, TakePrimary, ActFails, leadVars, Noted
        <5>2. faults' = faults
          BY <1>1, <3>4, <4>3 DEF Handler, BeginMonitor, NoAccountLeft, RunBulkCheck, CheckFails,
             PrimaryGate, NextAccount, PickLead, NoLeadLeft, SendIntro, SendFails, AlreadyMade, BrowserDies,
             StampIntro, QueueFollowUp, Close, MonitorTail, ExpireMonitoring, BeginReply, ReplyTail,
             WasActionSent, TakePrimary, ActFails, bounds
        <5> QED
          BY <1>0, <5>1, <5>2
      <4> QED
        BY <4>1, <4>2, <4>3, <4>4
    <3>7. \A l \in Leads : row[Follow(l)] = "claimed" => row'[Follow(l)] = "claimed"
      BY <1>1, ClaimsStand
    <3> QED
      BY <2>2, <3>1, <3>2, <3>6, <3>7, FollowKept
  <2> QED
    BY <2>1, <2>2
<1>2. ASSUME NEW p \in Pods, Settle(p) PROVE FollowInv'
  <2>1. /\ job[p].pc = "settle" /\ job' = [job EXCEPT ![p] = Idle]
        /\ row' = [row EXCEPT ![job[p].task] = job[p].res]
        /\ Noted' = Noted /\ fus' = fus /\ faults' = faults
    BY <1>2 DEF Settle, leadVars, bounds, Noted
  <2>2. \A l \in Leads : ~Tends(p, l)'
    BY <1>0, <2>1 DEF Tends, Idle
  <2>3. \A q \in Pods \ {p} : job'[q] = job[q]
    BY <1>0, <2>1
  <2>4. ASSUME NEW q \in Pods, NEW l \in Leads, Tends(q, l)'
        PROVE  q # p /\ Tends(q, l) /\ row'[Follow(l)] = row[Follow(l)]
    <3>1. q # p /\ Tends(q, l)
      BY <2>2, <2>3, <2>4 DEF Tends
    <3>2. job[p].task # Follow(l)
      BY <1>w, <2>1, <3>1 DEF Claims, Tends
    <3> QED
      BY <1>0, <2>1, <3>1, <3>2, TaskTypes
  <2>5. Claims'
    BY <1>w, <2>4 DEF Claims
  <2>6. Afresh'
    BY <1>w, <2>1, <2>3, <2>4 DEF Afresh
  <2>7. \A l \in Leads : Unmarked(l) => Unmarked(l)'
    BY <2>1, <2>3 DEF Unmarked, Tends, Sent
  <2>8. MarkTells'
    BY <1>w, <2>1, <2>7 DEF MarkTells
  <2> QED
    BY <2>5, <2>6, <2>8 DEF FollowInv
<1>3. ASSUME NEW p \in Pods, NEW t \in Tasks, ClaimNextDueTask(p, t) PROVE FollowInv'
  <2>1. /\ job[p].pc = "idle" /\ row[t] = "due" /\ row' = [row EXCEPT ![t] = "claimed"]
        /\ Noted' = Noted /\ fus' = fus /\ faults' = faults
    BY <1>3 DEF ClaimNextDueTask, leadVars, bounds, Noted
  <2>2. PICK r \in JobType : Claimed(r, t) /\ job' = [job EXCEPT ![p] = r]
    BY <1>3, ClaimStep
  <2>3. job'[p] = r /\ \A q \in Pods \ {p} : job'[q] = job[q]
    BY <1>0, <2>2
  <2>4. r.task = t /\ (r.pc \in {"begin", "guard", "take"}) /\ r.res = "done"
    BY <2>2 DEF Claimed
  <2>5. \A q \in Pods : \A l \in Leads : Tends(q, l) => q # p /\ t # Follow(l)
    BY <1>w, <2>1 DEF Claims, Tends
  <2>6. ASSUME NEW l \in Leads, t = Follow(l) PROVE FollowInv'
    <3>1. r.pc = "guard"
      BY <2>2, <2>6, TaskTypes DEF Claimed
    <3>2. \A k \in Leads : Tends(p, k)' => k = l
      <4>1. ASSUME NEW k \in Leads, Tends(p, k)' PROVE k = l
        <5>1. Follow(k)[2] = Follow(l)[2]
          BY <2>3, <2>4, <2>6, <4>1 DEF Tends
        <5> QED
          BY <5>1 DEF Follow
      <4> QED
        BY <4>1
    <3>3. \A q \in Pods \ {p} : \A k \in Leads : Tends(q, k)' <=> Tends(q, k)
      BY <2>3 DEF Tends
    <3>4. row'[t] = "claimed" /\ \A k \in Leads : Follow(k) # t => row'[Follow(k)] = row[Follow(k)]
      BY <1>0, <2>1, TaskTypes
    <3>5. ASSUME NEW q \in Pods, NEW k \in Leads, Tends(q, k)'
          PROVE  row'[Follow(k)] = "claimed" /\ \A o \in Pods : Tends(o, k)' => o = q
      <4>1. CASE q = p
        BY <2>5, <2>6, <3>2, <3>3, <3>4, <3>5, <4>1
      <4>2. CASE q # p
        BY <1>w, <2>5, <2>6, <3>2, <3>3, <3>4, <3>5, <4>2 DEF Claims
      <4> QED
        BY <4>1, <4>2
    <3>6. Claims'
      BY <3>5 DEF Claims
    <3>7. ASSUME NEW q \in Pods, NEW k \in Leads, Tends(q, k)'
          PROVE  /\ job'[q].pc \in {"guard", "take", "act"} => job'[q].res = "done"
                 /\ job'[q].pc \in {"take", "act"} => k \notin Noted'
      <4>1. CASE q = p
        BY <2>3, <2>4, <3>1, <4>1
      <4>2. CASE q # p
        BY <1>w, <2>1, <2>3, <3>3, <3>7, <4>2 DEF Afresh
      <4> QED
        BY <4>1, <4>2
    <3>8. Afresh'
      BY <3>7 DEF Afresh
    <3>9. \A k \in Leads : Unmarked(k) => Unmarked(k)'
      BY <2>3, <2>5, <3>3 DEF Unmarked, Sent
    <3>10. MarkTells'
      BY <1>w, <2>1, <3>9 DEF MarkTells
    <3> QED
      BY <3>6, <3>8, <3>10 DEF FollowInv
  <2>7. CASE \A l \in Leads : t # Follow(l)
    <3>1. \A l \in Leads : ~Tends(p, l) /\ ~Tends(p, l)'
      BY <2>3, <2>4, <2>5, <2>7 DEF Tends
    <3>2. \A l \in Leads : row'[Follow(l)] = row[Follow(l)]
      BY <1>0, <2>1, <2>7, TaskTypes
    <3> QED
      BY <1>0, <2>1, <2>3, <3>1, <3>2, FollowKept
  <2> QED
    BY <2>6, <2>7
<1>4. ASSUME NEW p \in Pods, Kill(p) PROVE FollowInv'
  <2>1. /\ job' = [job EXCEPT ![p] = Idle] /\ row' = row
        /\ Noted' = Noted /\ fus' = fus /\ faults' = faults + 1
    BY <1>4 DEF Kill, Fault, PodStops, leadVars, taskVars, Noted
  <2>2. \A l \in Leads : ~Tends(p, l)'
    BY <1>0, <2>1 DEF Tends, Idle
  <2>3. \A q \in Pods \ {p} : job'[q] = job[q]
    BY <1>0, <2>1
  <2>4. \A q \in Pods : \A l \in Leads : Tends(q, l)' => q # p /\ Tends(q, l)
    BY <2>2, <2>3 DEF Tends
  <2>5. Claims'
    BY <1>w, <2>1, <2>4 DEF Claims
  <2>6. Afresh'
    BY <1>w, <2>1, <2>3, <2>4 DEF Afresh
  <2>7. MarkTells'
    BY <1>0, <1>w, <2>1 DEF MarkTells
  <2> QED
    BY <2>5, <2>6, <2>7 DEF FollowInv
<1>5. ASSUME NEW p \in Pods, ScaleDown(p) PROVE FollowInv'
  <2>1. job' = [job EXCEPT ![p] = Idle] /\ job[p] = Idle
    BY <1>5 DEF ScaleDown, PodStops
  <2>2. row' = row /\ Noted' = Noted /\ fus' = fus /\ faults' = faults
    BY <1>5 DEF ScaleDown, PodStops, leadVars, taskVars, Noted
  <2>3. \A q \in Pods : job'[q] = job[q]
    BY <1>0, <2>1
  <2> QED
    BY <1>0, <2>2, <2>3, FollowKept
<1>6. ASSUME NEW t \in Tasks, ClaimAges(t) PROVE FollowInv'
  <2>1. /\ row' = [row EXCEPT ![t] = "overdue"] /\ job' = job
        /\ Noted' = Noted /\ fus' = fus /\ faults' = faults
    BY <1>6 DEF ClaimAges, leadVars, bounds, Noted
  <2>2. ASSUME NEW p \in Pods, NEW l \in Leads, Tends(p, l) PROVE row'[Follow(l)] = row[Follow(l)]
    <3>1. t # Follow(l)
      BY <1>6, <2>2 DEF ClaimAges, Running, Tends
    <3> QED
      BY <1>0, <2>1, <3>1, TaskTypes
  <2> QED
    BY <1>0, <2>1, <2>2, FollowKept
<1>u. ASSUME job' = job, Noted' = Noted, fus' = fus, faults' = faults,
             \A l \in Leads : row[Follow(l)] = "claimed" => row'[Follow(l)] = "claimed"
      PROVE  FollowInv'
  BY <1>0, <1>u, FollowKept
<1>7. ASSUME NEW p \in Pods, PassEnds(p) \/ ReapOrphanedTasks(p) PROVE FollowInv'
  <2>1. \A l \in Leads : row[Follow(l)] = "claimed" => row'[Follow(l)] = "claimed"
    BY <1>7, ClaimsStand
  <2> QED
    BY <1>7, <2>1, <1>u DEF PassEnds, ArmTransition, ReapOrphanedTasks, leadVars, bounds, Noted
<1>8. ASSUME NEW t \in Tasks, BecomeDue(t) PROVE FollowInv'
  <2>1. \A l \in Leads : row[Follow(l)] = "claimed" => row'[Follow(l)] = "claimed"
    BY <1>8, ClaimsStand
  <2> QED
    BY <1>8, <2>1, <1>u DEF BecomeDue, leadVars, bounds, Noted
<1>9. CASE FinishTransition \/ Operator
  <2>1. \A l \in Leads : row[Follow(l)] = "claimed" => row'[Follow(l)] = "claimed"
    BY <1>9, ClaimsStand
  <2> QED
    BY <1>9, <2>1, <1>u DEF FinishTransition, Operator, KeepMonitoring, ArmTransition, Stop, Resume,
                            CheckNow, AutoChecks, leadVars, bounds, Noted
<1>10. CASE \/ \E p \in Pods : \/ PodStarts(p) \/ TurnLeaves(p) \/ \E a \in Accounts : TurnTakes(p, a)
            \/ \E l \in Leads : AcceptsInvitation(l)
            \/ \E a \in Accounts : LockExpires(a) \/ LockLapses(a)
            \/ UNCHANGED vars
  BY <1>10, <1>u DEF PodStarts, TurnLeaves, TurnTakes, AcceptsInvitation, LockExpires, LockLapses, vars,
                     taskVars, leadVars, bounds, Noted
<1> QED
  BY <1>1, <1>2, <1>3, <1>4, <1>5, <1>6, <1>7, <1>8, <1>9, <1>10 DEF Next, Scheduler, World

\* A follow-up is sent once, and once more for each killed pod and failed write, while no
\* handler outlasts its claim.
THEOREM FollowedUpOnce == ~SlowFollowUps => (Spec => []FollowUpBudget)
<1> SUFFICES ASSUME ~SlowFollowUps PROVE Spec => []FollowUpBudget
  OBVIOUS
<1>1. TypeInv /\ TypeInv' /\ FollowInv /\ [Next]_vars => FollowInv'
  BY FollowNext
<1>2. FollowInv => FollowUpBudget
  BY DEF FollowInv, MarkTells, FollowUpBudget
<1> QED
  BY <1>1, <1>2, TypeInit, TypeNext, FollowInit, PTL DEF Spec

-----------------------------------------------------------------------------
(* Acceptance checks of a stopped campaign.                                *)

\* A handler that is about to sweep, or sweeps, or will ask for another sweep; and one
\* that has the beginning of a sweep still ahead.
Sweeping(r) == r.pc # "idle" /\ r.task = Monitor /\ (r.pc = "settle" => r.res = "waiting")
Ahead(r)    == Sweeping(r) /\ r.pc \in {"begin", "settle"}
Sweepers    == {p \in Pods : Sweeping(job[p])}
Waiters     == {p \in Pods : Ahead(job[p])}

\* The row's own sweep: the monitor task can still be claimed, or created.
RowSweep == IF row[Monitor] \in {"none", "waiting", "due"} THEN 1 ELSE 0

\* There is a sweep for the row's creation and one for each time it was revived: each is
\* the row's, or in a handler, or gone.  While the campaign is stopped none comes back.
SweepInv ==
    /\ IsFiniteSet(Sweepers)
    /\ Cardinality(Sweepers) + RowSweep <= 1 + revived
    /\ late <= 1 + revived
    /\ status = "cancelled" => late + Cardinality(Waiters) + RowSweep <= 1 + revived

\* What the arithmetic below needs to know.
LEMMA SweepTypes ==
  ASSUME TypeInv, SweepInv
  PROVE  /\ late \in Nat /\ revived \in Nat /\ RowSweep \in {0, 1}
         /\ IsFiniteSet(Sweepers) /\ Cardinality(Sweepers) \in Nat
         /\ IsFiniteSet(Waiters) /\ Cardinality(Waiters) \in Nat
         /\ Cardinality(Waiters) <= Cardinality(Sweepers)
<1>1. late \in Nat /\ revived \in Nat /\ RowSweep \in {0, 1}
  BY TypeParts, BoundsAssumption DEF RestOK, RowSweep
<1>2. Waiters \subseteq Sweepers
  BY DEF Waiters, Sweepers, Ahead
<1> QED
  BY <1>1, <1>2, FS_Subset, FS_CardinalityType DEF SweepInv

\* A step that starts no sweep and brings none back.
LEMMA SweepQuiet ==
  ASSUME TypeInv, SweepInv, late' = late, revived' = revived, RowSweep' <= RowSweep,
         RowSweep' \in {0, 1},
         status' = "cancelled" => status = "cancelled",
         \A p \in Pods : Sweeping(job'[p]) => Sweeping(job[p]),
         \A p \in Pods : status' = "cancelled" /\ Ahead(job'[p]) => Ahead(job[p])
  PROVE  SweepInv'
<1>1. /\ late \in Nat /\ revived \in Nat /\ RowSweep \in {0, 1}
      /\ IsFiniteSet(Sweepers) /\ Cardinality(Sweepers) \in Nat
      /\ IsFiniteSet(Waiters) /\ Cardinality(Waiters) \in Nat
  BY SweepTypes
<1>2. Sweepers' \subseteq Sweepers
  BY DEF Sweepers
<1>3. IsFiniteSet(Sweepers') /\ Cardinality(Sweepers') <= Cardinality(Sweepers)
      /\ Cardinality(Sweepers') \in Nat
  BY <1>1, <1>2, FS_Subset, FS_CardinalityType
<1>4. ASSUME status' = "cancelled"
      PROVE  Cardinality(Waiters') <= Cardinality(Waiters) /\ Cardinality(Waiters') \in Nat
  <2>1. Waiters' \subseteq Waiters
    BY <1>4 DEF Waiters
  <2> QED
    BY <1>1, <2>1, FS_Subset, FS_CardinalityType
<1> QED
  BY <1>1, <1>3, <1>4 DEF SweepInv

\* Creating tasks takes nothing from the row and gives it nothing.
LEMMA CreateQuiet ==
  ASSUME TypeInv, NEW ts, CreateTasks(ts)
  PROVE  RowSweep' = RowSweep
<1>1. row'[Monitor] = IF Monitor \in ts /\ row[Monitor] = "none" THEN "waiting" ELSE row[Monitor]
  BY TaskTypes DEF CreateTasks
<1> QED
  BY <1>1 DEF RowSweep

\* What the steps of a handler other than BeginMonitor leave alone.
LEMMA HandlerQuiet ==
  ASSUME TypeInv, NEW p \in Pods, Handler(p) \/ StoreFails(p), ~BeginMonitor(p)
  PROVE  /\ late' = late /\ revived' = revived /\ RowSweep' = RowSweep
         /\ status' = "cancelled" => status = "cancelled"
<1>1. late' = late /\ revived' = revived
  BY DEF Handler, NoAccountLeft, RunBulkCheck, CheckFails, PrimaryGate, NextAccount,
         PickLead, NoLeadLeft, SendIntro, SendFails, AlreadyMade, BrowserDies, StampIntro, MarkIntro, StoreFails,
         QueueFollowUp, Close, MonitorTail, ExpireMonitoring, BeginReply, ReplyTail,
         WasActionSent, TakePrimary, Act, ActFails, MarkFollowUp, histVars
<1>2. status' = "cancelled" => status = "cancelled"
  BY DEF Handler, NoAccountLeft, RunBulkCheck, CheckFails, PrimaryGate, NextAccount,
         PickLead, NoLeadLeft, SendIntro, SendFails, AlreadyMade, BrowserDies, StampIntro, MarkIntro, StoreFails,
         QueueFollowUp, Close, MonitorTail, ExpireMonitoring, BeginReply, ReplyTail,
         WasActionSent, TakePrimary, Act, ActFails, MarkFollowUp, campVars
<1>3. CASE PrimaryGate(p)
  <2>1. row' = row \/ CreateTasks({Accept(job[p].acct)})
    BY <1>3 DEF PrimaryGate
  <2>2. RowSweep' = RowSweep
    <3>1. CASE row' = row
      BY <3>1 DEF RowSweep
    <3>2. CASE CreateTasks({Accept(job[p].acct)})
      BY <3>2, CreateQuiet
    <3> QED
      BY <2>1, <3>1, <3>2
  <2> QED
    BY <1>1, <1>2, <2>2
<1>4. CASE QueueFollowUp(p)
  BY <1>1, <1>2, <1>4, CreateQuiet DEF QueueFollowUp
<1>5. CASE ~PrimaryGate(p) /\ ~QueueFollowUp(p)
  <2>1. row' = row
    BY <1>5 DEF Handler, NoAccountLeft, RunBulkCheck, CheckFails, NextAccount,
         PickLead, NoLeadLeft, SendIntro, SendFails, AlreadyMade, BrowserDies, StampIntro, MarkIntro, StoreFails,
         Close, MonitorTail, ExpireMonitoring, BeginReply, ReplyTail,
         WasActionSent, TakePrimary, Act, ActFails, MarkFollowUp, taskVars
  <2> QED
    BY <1>1, <1>2, <2>1 DEF RowSweep
<1> QED
  BY <1>3, <1>4, <1>5

\* Only the end of a sweep, with the status read again, asks for another.
LEMMA NoneAhead ==
  ASSUME TypeInv, NEW p \in Pods, Handler(p) \/ StoreFails(p), ~BeginMonitor(p),
         job[p].task = Monitor, MonitorTail(p) => status = "cancelled"
  PROVE  ~Ahead(job'[p])
<1>0. job[p] \in JobType /\ Shaped(job[p]) /\ job \in [Pods -> JobType]
  BY TypeParts DEF JobInv
<1> USE DEF JobType
<1>1. job[p].pc \notin Acts
  BY <1>0, TaskTypes DEF Shaped, Pointed
<1>2. ~BeginReply(p) /\ ~ReplyTail(p)
  BY TaskTypes DEF BeginReply, ReplyTail
<1>3. ~WasActionSent(p) /\ ~TakePrimary(p) /\ ~Act(p) /\ ~ActFails(p) /\ ~MarkFollowUp(p)
  BY <1>1 DEF WasActionSent, TakePrimary, Act, ActFails, MarkFollowUp, Acts
<1> DEFINE moved == job'[p].pc \notin {"begin", "settle"}
<1>m. moved => ~Ahead(job'[p])
  BY DEF Ahead
<1>f. ASSUME Finish(p, "done") PROVE ~Ahead(job'[p])
  BY <1>0, <1>f DEF Finish, Idle, Ahead, Sweeping
<1>4. ASSUME NEW to \in {"tail", "close", "pick", "stamp", "queue", "expire"}, Step(p, to)
      PROVE  moved
  BY <1>0, <1>4 DEF Step
<1>5. CASE NoAccountLeft(p) \/ CheckFails(p) \/ NoLeadLeft(p) \/ SendIntro(p)
  BY <1>5, <1>4, <1>m DEF NoAccountLeft, CheckFails, NoLeadLeft, SendIntro
<1>6. CASE RunBulkCheck(p)
  <2>1. job'[p].pc \in {"close", "gate"}
    BY <1>0, <1>6 DEF RunBulkCheck
  <2> QED BY <2>1, <1>m
<1>7. CASE PrimaryGate(p)
  <2>2. job'[p].pc \in {"pick", "close"}
    BY <1>0, <1>7 DEF PrimaryGate
  <2> QED BY <2>2, <1>m
<1>8. ASSUME NEW l \in Leads, PickLead(p, l) PROVE ~Ahead(job'[p])
  <2>1. \/ job' = [job EXCEPT ![p].work = @ \ {l}]
        \/ job' = [job EXCEPT ![p].pc = "send", ![p].work = @ \ {l}, ![p].lead = l]
    BY <1>8 DEF PickLead
  <2>3. job[p].pc = "pick"
    BY <1>8 DEF PickLead
  <2>4. job'[p].pc \in {"pick", "send"}
    BY <1>0, <2>1, <2>3
  <2> QED BY <2>4, <1>m
<1>9. ASSUME NEW a \in Accounts, NextAccount(p, a) PROVE ~Ahead(job'[p])
  <2>1. \/ job' = [job EXCEPT ![p].pc = "check", ![p].todo = @ \ {a}, ![p].acct = a]
        \/ job' = [job EXCEPT ![p].todo = @ \ {a}]
    BY <1>9 DEF NextAccount
  <2>2. job'[p].pc \in {"check", "next"}
    BY <1>0, <1>9, <2>1 DEF NextAccount
  <2> QED BY <2>2, <1>m
<1>10. CASE SendFails(p) \/ AlreadyMade(p) \/ BrowserDies(p)
  <2>1. job'[p].pc \in {"pick", "close"}
    BY <1>0, <1>10 DEF SendFails, AlreadyMade, BrowserDies
  <2> QED BY <2>1, <1>m
<1>11. CASE StampIntro(p) \/ MarkIntro(p)
  <2>1. \/ Step(p, "note") \/ Step(p, "queue")
        \/ job' = [job EXCEPT ![p].pc = "pick", ![p].lead = NoLead]
    BY <1>11 DEF StampIntro, MarkIntro
  <2>2. job'[p].pc \in {"note", "queue", "pick"}
    BY <1>0, <2>1 DEF Step
  <2> QED BY <2>2, <1>m
<1>12. CASE StoreFails(p) \/ QueueFollowUp(p)
  <2>1. job'[p].pc \in {"pick", "close"}
    BY <1>0, <1>12 DEF StoreFails, QueueFollowUp
  <2> QED BY <2>1, <1>m
<1>13. CASE Close(p)
  <2>1. job[p].task \in {Monitor, Reply}
    OBVIOUS
  <2>2. job' = [job EXCEPT ![p].pc = "next", ![p].acct = NoAccount]
    BY <1>0, <1>13, <2>1, TaskTypes DEF Close
  <2>3. job'[p].pc = "next"
    BY <1>0, <2>2
  <2> QED BY <2>3, <1>m
<1>14. CASE MonitorTail(p)
  <2>1. Finish(p, "done")
    BY <1>14 DEF MonitorTail
  <2> QED BY <2>1, <1>f
<1>15. CASE ExpireMonitoring(p)
  BY <1>15, <1>f DEF ExpireMonitoring
<1> QED
  BY <1>2, <1>3, <1>5, <1>6, <1>7, <1>8, <1>9, <1>10, <1>11, <1>12, <1>13, <1>14, <1>15 DEF Handler

\* A sweep that begins has no longer its beginning ahead.
LEMMA SweepBegins ==
  ASSUME TypeInv, SweepInv, NEW p \in Pods, BeginMonitor(p)
  PROVE  SweepInv'
<1>0. /\ job[p] \in JobType /\ Shaped(job[p]) /\ job \in [Pods -> JobType]
      /\ job[p].pc = "begin" /\ job[p].task = Monitor
  BY TypeParts DEF JobInv, BeginMonitor
<1>1. row' = row /\ status' = status /\ revived' = revived
  BY DEF BeginMonitor, campVars, taskVars
<1>2. RowSweep' = RowSweep /\ RowSweep' \in {0, 1}
  BY <1>1 DEF RowSweep
<1>3. /\ \A q \in Pods \ {p} : job'[q] = job[q]
      /\ ~Ahead(job'[p])
  <2>1. CASE Finish(p, "done")
    BY <1>0, <2>1 DEF Finish, Idle, Ahead, Sweeping
  <2>2. CASE job' = [job EXCEPT ![p].pc = "next",
                       ![p].todo = IF job[p].wide THEN Accounts ELSE CampaignAccounts]
    <3>1. job'[p].pc = "next" /\ \A q \in Pods \ {p} : job'[q] = job[q]
      BY <1>0, <2>2 DEF JobType
    <3> QED BY <3>1 DEF Ahead
  <2> QED BY <2>1, <2>2 DEF BeginMonitor
<1>4. Sweeping(job[p]) /\ Ahead(job[p])
  BY <1>0 DEF Sweeping, Ahead
<1>5. CASE status # "cancelled"
  <2>1. late' = late
    BY <1>5 DEF BeginMonitor
  <2>2. \A q \in Pods : Sweeping(job'[q]) => Sweeping(job[q])
    BY <1>3, <1>4
  <2> QED
    BY <1>1, <1>2, <1>5, <2>1, <2>2, SweepQuiet
<1>6. CASE status = "cancelled"
  <2>1. late' = late + 1
    BY <1>6 DEF BeginMonitor
  <2>2. Waiters' = Waiters \ {p} /\ p \in Waiters
    BY <1>3, <1>4 DEF Waiters
  <2>3. Sweepers' \subseteq Sweepers
    BY <1>3, <1>4 DEF Sweepers
  <2>4. /\ late \in Nat /\ revived \in Nat /\ RowSweep \in {0, 1}
        /\ IsFiniteSet(Sweepers) /\ Cardinality(Sweepers) \in Nat
        /\ IsFiniteSet(Waiters) /\ Cardinality(Waiters) \in Nat
    BY SweepTypes
  <2>5. IsFiniteSet(Sweepers') /\ Cardinality(Sweepers') <= Cardinality(Sweepers)
        /\ Cardinality(Sweepers') \in Nat
    BY <2>3, <2>4, FS_Subset, FS_CardinalityType
  <2>6. Cardinality(Waiters') = Cardinality(Waiters) - 1
    BY <2>2, <2>4, FS_RemoveElement
  <2>7. Cardinality(Waiters') \in Nat
    BY <2>2, <2>4, FS_RemoveElement, FS_CardinalityType
  <2> QED
    BY <1>1, <1>2, <1>6, <2>1, <2>4, <2>5, <2>6, <2>7 DEF SweepInv
<1> QED
  BY <1>5, <1>6

\* A result given back: the handler's sweep becomes the row's.
LEMMA SweepSettles ==
  ASSUME TypeInv, SweepInv, NEW p \in Pods, Settle(p)
  PROVE  SweepInv'
<1>0. /\ job[p] \in JobType /\ Shaped(job[p]) /\ job \in [Pods -> JobType]
      /\ row \in [Tasks -> {"none", "waiting", "due", "claimed", "overdue", "done", "error"}]
  BY TypeParts DEF JobInv, RestOK
<1>1. /\ job[p].pc = "settle" /\ job[p].task \in Tasks
      /\ row' = [row EXCEPT ![job[p].task] = job[p].res]
      /\ job' = [job EXCEPT ![p] = Idle]
      /\ status' = status /\ revived' = revived /\ late' = late
  BY <1>0 DEF Settle, Shaped, campVars, histVars
<1>2. /\ \A q \in Pods \ {p} : job'[q] = job[q]
      /\ ~Sweeping(job'[p]) /\ ~Ahead(job'[p])
  BY <1>0, <1>1 DEF Sweeping, Ahead, Idle
<1>3. RowSweep' \in {0, 1}
  BY DEF RowSweep
<1>4. CASE job[p].task # Monitor \/ job[p].res # "waiting"
  <2>1. row'[Monitor] = row[Monitor] \/ row'[Monitor] \in {"done", "error"}
    BY <1>0, <1>1, <1>4, TaskTypes DEF JobType
  <2>2. RowSweep' <= RowSweep
    BY <2>1 DEF RowSweep
  <2> QED
    BY <1>1, <1>2, <1>3, <2>2, SweepQuiet
<1>5. CASE job[p].task = Monitor /\ job[p].res = "waiting"
  <2>1. p \in Sweepers /\ p \in Waiters
    BY <1>1, <1>5 DEF Sweepers, Waiters, Sweeping, Ahead
  <2>2. Sweepers' = Sweepers \ {p} /\ Waiters' = Waiters \ {p}
    BY <1>2 DEF Sweepers, Waiters
  <2>3. /\ late \in Nat /\ revived \in Nat /\ RowSweep \in {0, 1}
        /\ IsFiniteSet(Sweepers) /\ Cardinality(Sweepers) \in Nat
        /\ IsFiniteSet(Waiters) /\ Cardinality(Waiters) \in Nat
    BY SweepTypes
  <2>4. /\ IsFiniteSet(Sweepers') /\ Cardinality(Sweepers') = Cardinality(Sweepers) - 1
        /\ Cardinality(Waiters') = Cardinality(Waiters) - 1
    BY <2>1, <2>2, <2>3, FS_RemoveElement
  <2> QED
    BY <1>1, <1>3, <2>3, <2>4 DEF SweepInv
<1> QED
  BY <1>4, <1>5

\* A claim of the monitor task: the row's sweep becomes the handler's.
LEMMA SweepClaimed ==
  ASSUME TypeInv, SweepInv, NEW p \in Pods, NEW t \in Tasks, ClaimNextDueTask(p, t)
  PROVE  SweepInv'
<1>0. /\ job[p] \in JobType /\ job \in [Pods -> JobType]
      /\ row \in [Tasks -> {"none", "waiting", "due", "claimed", "overdue", "done", "error"}]
  BY TypeParts DEF RestOK
<1>1. /\ row[t] = "due" /\ row' = [row EXCEPT ![t] = "claimed"] /\ job[p].pc = "idle"
      /\ status' = status /\ revived' = revived /\ late' = late
  BY DEF ClaimNextDueTask, campVars, histVars
<1>2. PICK r \in JobType : Claimed(r, t) /\ job' = [job EXCEPT ![p] = r]
  BY ClaimStep
<1>3. job'[p] = r /\ \A q \in Pods \ {p} : job'[q] = job[q]
  BY <1>0, <1>2
<1>4. RowSweep' \in {0, 1}
  BY DEF RowSweep
<1>5. CASE t # Monitor
  <2>1. row'[Monitor] = row[Monitor]
    BY <1>0, <1>1, <1>5, TaskTypes
  <2>2. RowSweep' <= RowSweep
    BY <2>1 DEF RowSweep
  <2>3. ~Sweeping(job'[p]) /\ ~Ahead(job'[p])
    BY <1>2, <1>3, <1>5 DEF Claimed, Sweeping, Ahead
  <2> QED
    BY <1>1, <1>3, <1>4, <2>2, <2>3, SweepQuiet
<1>6. CASE t = Monitor
  <2>1. p \notin Sweepers /\ p \notin Waiters
    BY <1>1 DEF Sweepers, Waiters, Sweeping, Ahead
  <2>2. Sweeping(r) /\ Ahead(r)
    BY <1>2, <1>6, TaskTypes DEF Claimed, Sweeping, Ahead
  <2>3. Sweepers' = Sweepers \union {p} /\ Waiters' = Waiters \union {p}
    BY <1>3, <2>2 DEF Sweepers, Waiters
  <2>4. /\ late \in Nat /\ revived \in Nat
        /\ IsFiniteSet(Sweepers) /\ Cardinality(Sweepers) \in Nat
        /\ IsFiniteSet(Waiters) /\ Cardinality(Waiters) \in Nat
    BY SweepTypes
  <2>5. /\ IsFiniteSet(Sweepers') /\ Cardinality(Sweepers') = Cardinality(Sweepers) + 1
        /\ Cardinality(Waiters') = Cardinality(Waiters) + 1
    BY <2>1, <2>3, <2>4, FS_AddElement
  <2>6. RowSweep = 1 /\ RowSweep' = 0
    BY <1>0, <1>1, <1>6, TaskTypes DEF RowSweep
  <2> QED
    BY <1>1, <2>4, <2>5, <2>6 DEF SweepInv
<1> QED
  BY <1>5, <1>6

\* Every step keeps the account of sweeps.
LEMMA SweepNext == TypeInv /\ SweepInv /\ [Next]_vars => SweepInv'
<1> SUFFICES ASSUME TypeInv, SweepInv, [Next]_vars PROVE SweepInv'
  OBVIOUS
<1>0. /\ job \in [Pods -> JobType] /\ JobInv
      /\ row \in [Tasks -> {"none", "waiting", "due", "claimed", "overdue", "done", "error"}]
  BY TypeParts DEF RestOK
<1>t. /\ late \in Nat /\ revived \in Nat /\ RowSweep \in {0, 1}
      /\ IsFiniteSet(Sweepers) /\ Cardinality(Sweepers) \in Nat
      /\ IsFiniteSet(Waiters) /\ Cardinality(Waiters) \in Nat
      /\ Cardinality(Waiters) <= Cardinality(Sweepers)
  BY SweepTypes
<1>r. RowSweep' \in {0, 1}
  BY DEF RowSweep
<1>u. ASSUME job' = job, late' = late, revived' = revived, RowSweep' <= RowSweep,
             status' = "cancelled" => status = "cancelled"
      PROVE  SweepInv'
  BY <1>u, <1>r, SweepQuiet
<1>s. row' = row => RowSweep' <= RowSweep
  BY DEF RowSweep
<1>c. ASSUME NEW ts, CreateTasks(ts) PROVE RowSweep' <= RowSweep
  BY <1>c, <1>t, CreateQuiet
<1>a. ASSUME NEW s, NEW x, ArmMonitor(s, x), job' = job, late' = late, status' = status
      PROVE  SweepInv'
  <2>1. revived' = revived + 1
    BY <1>a DEF ArmMonitor
  <2>2. Sweepers' = Sweepers /\ Waiters' = Waiters
    BY <1>a DEF Sweepers, Waiters
  <2> HIDE DEF RowSweep
  <2>3. RowSweep' <= RowSweep + 1
    BY <1>r, <1>t
  <2> QED
    BY <1>a, <1>r, <1>t, <2>1, <2>2, <2>3 DEF SweepInv
<1>1. ASSUME NEW p \in Pods, Handler(p) \/ StoreFails(p), ~BeginMonitor(p) PROVE SweepInv'
  <2>1. /\ job'[p].task = job[p].task /\ job[p].pc # "idle"
        /\ \A q \in Pods \ {p} : job'[q] = job[q]
    BY <1>1, TaskKept
  <2>2. /\ late' = late /\ revived' = revived /\ RowSweep' <= RowSweep
        /\ status' = "cancelled" => status = "cancelled"
    BY <1>1, <1>t, HandlerQuiet
  <2>3. CASE job[p].task # Monitor
    <3>1. ~Sweeping(job'[p]) /\ ~Ahead(job'[p])
      BY <2>1, <2>3 DEF Sweeping, Ahead
    <3> QED
      BY <1>r, <2>1, <2>2, <3>1, SweepQuiet
  <2>4. CASE job[p].task = Monitor
    <3>1. Sweeping(job[p])
      <4>1. job[p].pc # "settle"
        BY <1>1 DEF Handler, BeginMonitor, NoAccountLeft, RunBulkCheck, CheckFails, PrimaryGate,
           NextAccount, PickLead, NoLeadLeft, SendIntro, SendFails, AlreadyMade, BrowserDies, StampIntro, MarkIntro,
           StoreFails, QueueFollowUp, Close, MonitorTail, ExpireMonitoring, BeginReply, ReplyTail,
           WasActionSent, TakePrimary, Act, ActFails, MarkFollowUp
      <4> QED BY <2>1, <2>4, <4>1 DEF Sweeping
    <3>2. status' = "cancelled" => ~Ahead(job'[p])
      BY <1>1, <2>2, <2>4, NoneAhead
    <3> QED
      BY <1>r, <2>1, <2>2, <3>1, <3>2, SweepQuiet
  <2> QED
    BY <2>3, <2>4
<1>2. ASSUME NEW p \in Pods, Kill(p) \/ ScaleDown(p) PROVE SweepInv'
  <2>1. /\ job' = [job EXCEPT ![p] = Idle] /\ row' = row
        /\ late' = late /\ revived' = revived /\ status' = status
    BY <1>2 DEF Kill, ScaleDown, PodStops, taskVars, histVars
  <2>2. ~Sweeping(job'[p]) /\ ~Ahead(job'[p]) /\ \A q \in Pods \ {p} : job'[q] = job[q]
    BY <1>0, <2>1 DEF Sweeping, Ahead, Idle
  <2> QED
    BY <1>r, <1>s, <2>1, <2>2, SweepQuiet
<1>3. CASE Stop
  <2>1. row' = row /\ job' = job /\ late' = 0 /\ revived' = revived
    BY <1>3 DEF Stop, taskVars
  <2>2. Sweepers' = Sweepers /\ Waiters' = Waiters /\ RowSweep' = RowSweep
    BY <2>1 DEF Sweepers, Waiters, RowSweep
  <2> HIDE DEF RowSweep
  <2> QED
    BY <1>t, <2>1, <2>2 DEF SweepInv
<1>4. CASE (\E p \in Pods : PassEnds(p)) \/ KeepMonitoring
  <2>1. PICK who : ArmTransition(who)
    BY <1>4 DEF PassEnds, KeepMonitoring
  <2>2. \E ts : CreateTasks(ts)
    BY <2>1 DEF ArmTransition
  <2> QED
    BY <1>c, <1>u, <2>1, <2>2 DEF ArmTransition, histVars
<1>5. CASE FinishTransition \/ Resume
  BY <1>5, <1>u, <1>s DEF FinishTransition, Resume, taskVars, histVars
<1>6. CASE CheckNow
  BY <1>6, <1>a DEF CheckNow, campVars
<1>7. ASSUME NEW e \in BOOLEAN, AutoChecks(e) PROVE SweepInv'
  <2>1. job' = job /\ late' = late /\ status' = status
    BY <1>7 DEF AutoChecks
  <2>2. ArmMonitor("waiting", "campaign") \/ (row' = row /\ revived' = revived)
    BY <1>7 DEF AutoChecks, taskVars
  <2> QED
    BY <1>a, <1>u, <1>s, <2>1, <2>2
<1>8. ASSUME NEW t \in Tasks, BecomeDue(t) \/ ClaimAges(t) PROVE SweepInv'
  <2>1. job' = job /\ late' = late /\ status' = status /\ revived' = revived
    BY <1>8 DEF BecomeDue, ClaimAges, campVars, histVars
  <2>2. \/ row'[Monitor] = row[Monitor]
        \/ row[Monitor] = "waiting" /\ row'[Monitor] = "due"
        \/ row[Monitor] = "claimed" /\ row'[Monitor] = "overdue"
    BY <1>0, <1>8, TaskTypes DEF BecomeDue, ClaimAges
  <2>3. RowSweep' <= RowSweep
    BY <2>2 DEF RowSweep
  <2> QED
    BY <1>u, <2>1, <2>3
<1>9. ASSUME NEW p \in Pods, ReapOrphanedTasks(p) PROVE SweepInv'
  <2>1. Monitor \notin Reapable
    BY DEF Reapable, Monitor, Accept, Follow
  <2>2. row'[Monitor] = row[Monitor]
    BY <1>9, <2>1, TaskTypes DEF ReapOrphanedTasks
  <2>3. RowSweep' <= RowSweep
    BY <2>2 DEF RowSweep
  <2> QED
    BY <1>9, <1>u, <2>3 DEF ReapOrphanedTasks, campVars, histVars
<1>10. CASE \/ \E p \in Pods : \/ PodStarts(p) \/ TurnLeaves(p) \/ \E a \in Accounts : TurnTakes(p, a)
            \/ \E l \in Leads : AcceptsInvitation(l)
            \/ \E a \in Accounts : LockExpires(a) \/ LockLapses(a)
            \/ UNCHANGED vars
  BY <1>10, <1>u, <1>s DEF PodStarts, TurnLeaves, TurnTakes, AcceptsInvitation, LockExpires, LockLapses, vars,
                     taskVars, campVars, histVars
<1> QED
  BY <1>1, <1>2, <1>3, <1>4, <1>5, <1>6, <1>7, <1>8, <1>9, <1>10, SweepBegins, SweepSettles,
     SweepClaimed DEF Next, Scheduler, Operator, World

\* Checking goes on at most once for a stopped campaign, and once more for each request that
\* revived the monitor task (campaign-runtime.js, handleMonitor): however many sweeps overlap,
\* outlast their claims or die, and however often it is stopped and resumed.
THEOREM OneLateSweep == Spec => []OneSweepAfterStop
<1>1. Init => SweepInv
  <2> SUFFICES ASSUME Init PROVE SweepInv
    OBVIOUS
  <2>1. Sweepers = {}
    BY DEF Init, Sweepers, Sweeping, Idle
  <2>2. row[Monitor] = "none" /\ late = 0 /\ revived = 0 /\ status = "running"
    BY TaskTypes DEF Init
  <2>3. RowSweep = 1
    BY <2>2 DEF RowSweep
  <2> QED
    BY <2>1, <2>2, <2>3, FS_EmptySet DEF SweepInv
<1>2. SweepInv => OneSweepAfterStop
  BY DEF SweepInv, OneSweepAfterStop
<1> QED
  BY <1>1, <1>2, SweepNext, TypeInit, TypeNext, PTL DEF Spec

=============================================================================
