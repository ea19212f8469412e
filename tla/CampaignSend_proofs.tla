------------------------ MODULE CampaignSend_proofs ------------------------
(***************************************************************************)
(* What holds of the sending phase for every number of pods, passes,       *)
(* campaigns, leads and accounts, and whatever fails: its types, that one  *)
(* turn drives an account, that a lead in hand is nobody else's, that no   *)
(* row is invited twice, that invitations stay within the credits, that    *)
(* a stopped campaign sends at most one more lead per pass, and that a     *)
(* person, in however many rows, is invited once per account and fault.    *)
(*                                                                         *)
(* The invariants build on one another: TypeInv (with the shape of a       *)
(* pass's local variables), LockInv (who drives an account holds its       *)
(* lock), HandInv (a lead in hand is claimed), and on each of them a       *)
(* theorem's own strengthening.                                            *)
(***************************************************************************)
EXTENDS CampaignSend, FiniteSetTheorems, TLAPS

-----------------------------------------------------------------------------
(* Types.                                                                  *)

\* Where a turn has a lead in hand, and where it or its choice has an account.
HandPCs == {"dup", "gate", "act", "markSent", "markAlready", "stampSent", "stampAlready"}
AcctPCs == InTurn \union {"acquire", "cool"}

\* The local variables of a pass, by where it is.
Shaped(r) ==
    /\ r.pc # "idle" => r.camp \in Campaigns
    /\ r.pc = "idle" => r.camp = NoCampaign
    /\ r.pc \in AcctPCs => r.acct \in AccountsOf[r.camp] /\ r.acct \in Accounts
    /\ r.pc \in HandPCs => r.hand \in Leads
    /\ r.pc \notin HandPCs => r.hand = NoLead
    /\ r.pc \in InTurn \ {"close"} => r.left \in 1 .. BatchSize

PassType == [pc: PCs, camp: Campaigns \union {NoCampaign}, queued: BOOLEAN,
             tried: SUBSET Accounts, acct: Accounts \union {NoAccount},
             hand: Leads \union {NoLead}, left: 0 .. BatchSize,
             actioned: BOOLEAN, thrown: BOOLEAN, abandoned: BOOLEAN]

PassInv == \A x \in Passes : Shaped(pass[x])
TypeInv == TypeOK /\ PassInv

\* A step of one pass keeps the types of all passes when it keeps those of its own.
LEMMA OnePass ==
  ASSUME TypeInv, NEW x \in Passes, NEW r \in PassType, Shaped(r),
         pass' = [pass EXCEPT ![x] = r]
  PROVE  pass' \in [Passes -> PassType] /\ PassInv'
  BY DEF TypeInv, TypeOK, PassInv, PassType

\* A pass that is over leaves its campaign's place in its pod.
LEMMA EndPassType ==
  ASSUME TypeInv, NEW x \in Passes, EndPass(x)
  PROVE  /\ pass' = [pass EXCEPT ![x] = NoPass]
         /\ pass' \in [Passes -> PassType] /\ PassInv'
         /\ inflight' \in [Pods -> SUBSET Campaigns]
<1>1. NoPass \in PassType /\ Shaped(NoPass)
  BY BoundsAssumption
     DEF NoPass, PassType, PCs, InTurn, Shaped, AcctPCs, HandPCs
<1>2. pass' = [pass EXCEPT ![x] = NoPass]
  BY DEF EndPass
<1>3. inflight' \in [Pods -> SUBSET Campaigns]
  BY DEF EndPass, TypeInv, TypeOK
<1> QED
  BY <1>1, <1>2, <1>3, OnePass

\* The initial state is well typed.
LEMMA TypeInit == Init => TypeInv
  BY BoundsAssumption, NonesAssumption
  DEF Init, TypeInv, TypeOK, PassInv, Shaped, NoPass, PCs, InTurn, AcctPCs, HandPCs,
      Active, Halted

\* The operator's requests leave the passes alone.
LEMMA OperatorType ==
  ASSUME TypeInv, NEW c \in Campaigns, Operator(c)
  PROVE  TypeInv'
<1> USE BoundsAssumption
    DEF TypeInv, TypeOK, storeVars, worldVars, bounds, Active, Halted
<1>1. pass' = pass /\ (PassInv => PassInv')
  BY DEF Operator, CreateCampaign, AddLeads, SkipActioned, Stop, Resume, Restart, PassInv
<1>2. CASE CreateCampaign(c)
  BY <1>1, <1>2 DEF CreateCampaign
<1>3. CASE AddLeads(c)
  BY <1>1, <1>3 DEF AddLeads
<1>4. CASE SkipActioned(c)
  BY <1>1, <1>4 DEF SkipActioned, SkipElsewhere
<1>5. CASE Stop(c)
  BY <1>1, <1>5 DEF Stop, Operate
<1>6. CASE Resume(c)
  BY <1>1, <1>6 DEF Resume, Operate, SetActive
<1>7. CASE Restart(c)
  BY <1>1, <1>7 DEF Restart, Operate, SetActive, SkipElsewhere
<1> QED
  BY <1>2, <1>3, <1>4, <1>5, <1>6, <1>7 DEF Operator

\* What every step of a pass does to the passes: the others stay as they are, and its own
\* local variables keep their types and their shape.
Steps(x) == pass' \in [Passes -> PassType] /\ PassInv'
            /\ \A y \in Passes \ {x} : pass'[y] = pass[y]

\* A step that gives a pass the local variables r.
LEMMA PassMoves ==
  ASSUME TypeInv, NEW x \in Passes, NEW r \in PassType, Shaped(r),
         pass' = [pass EXCEPT ![x] = r]
  PROVE  Steps(x) /\ pass'[x] = r
<1>1. pass' \in [Passes -> PassType] /\ PassInv'
  BY OnePass
<1> QED
  BY <1>1 DEF Steps, TypeInv, TypeOK

\* A turn settles its lead and goes on to the next one or to the end of its batch.
LEMMA NextLeadSteps ==
  ASSUME TypeInv, NEW x \in Passes, NEW sent \in BOOLEAN, NextLead(x, sent),
         pass[x].pc \in HandPCs
  PROVE  /\ Steps(x)
         /\ pass'[x].pc \in {"close", "status"} /\ pass'[x].hand = NoLead
         /\ pass'[x].acct = pass[x].acct /\ pass'[x].camp = pass[x].camp
<1> DEFINE old == pass[x]
           r == [old EXCEPT !.pc = IF old.left = 1 THEN "close" ELSE "status",
                            !.hand = NoLead, !.left = @ - 1, !.actioned = @ \/ sent]
<1>1. old \in PassType /\ Shaped(old)
  BY DEF TypeInv, TypeOK, PassInv, PassType
<1>2. r \in PassType /\ Shaped(r)
  <2>1. /\ old.left - 1 \in 0 .. BatchSize
        /\ old.left # 1 => old.left - 1 \in 1 .. BatchSize
    <3>1. old.left \in 1 .. BatchSize
      BY <1>1 DEF Shaped, HandPCs, InTurn
    <3> QED
      BY <3>1, BoundsAssumption
  <2>2. r \in PassType
    <3>1. /\ (IF old.left = 1 THEN "close" ELSE "status") \in PCs
          /\ (old.actioned \/ sent) \in BOOLEAN
      BY DEF PCs, InTurn
    <3> QED
      BY <1>1, <2>1, <3>1 DEF PassType
  <2>3. old.pc \in AcctPCs /\ old.pc # "idle"
    BY DEF HandPCs, AcctPCs, InTurn
  <2>4. Shaped(r)
    BY <1>1, <2>1, <2>3 DEF PassType, Shaped, HandPCs, AcctPCs, InTurn
  <2> QED
    BY <2>2, <2>4
<1>4. pass' = [pass EXCEPT ![x] = r]
  BY DEF NextLead
<1>5. /\ r.pc \in {"close", "status"} /\ r.hand = NoLead
      /\ r.acct = old.acct /\ r.camp = old.camp
  BY <1>1 DEF PassType
<1> HIDE DEF r
<1> QED
  BY <1>2, <1>4, <1>5, PassMoves

\* A turn gives its lead back and closes.
LEMMA GiveBackSteps ==
  ASSUME TypeInv, NEW x \in Passes, GiveBack(x), pass[x].pc \in HandPCs
  PROVE  /\ Steps(x)
         /\ pass'[x].pc = "close" /\ pass'[x].hand = NoLead
         /\ pass'[x].acct = pass[x].acct /\ pass'[x].camp = pass[x].camp
<1> DEFINE old == pass[x]
           r == [old EXCEPT !.pc = "close", !.hand = NoLead]
<1>1. old \in PassType /\ Shaped(old)
  BY DEF TypeInv, TypeOK, PassInv, PassType
<1>2. r \in PassType
  BY <1>1 DEF PassType, PCs, InTurn
<1>3. Shaped(r)
  BY <1>1 DEF PassType, PCs, InTurn, Shaped, HandPCs, AcctPCs
<1>4. pass' = [pass EXCEPT ![x] = r]
  BY DEF GiveBack
<1>5. r.pc = "close" /\ r.hand = NoLead /\ r.acct = old.acct /\ r.camp = old.camp
  BY <1>1 DEF PassType
<1> HIDE DEF r
<1> QED
  BY <1>2, <1>3, <1>4, <1>5, PassMoves

\* A turn that only moves on keeps its lead, its account and its campaign.
JumpsTo(x, c) == pass' = [pass EXCEPT ![x].pc = c]

\* Such a step, when the new place asks for nothing that the old one did not have.
LEMMA JumpSteps ==
  ASSUME TypeInv, NEW x \in Passes, NEW c \in PCs, JumpsTo(x, c),
         pass[x].pc # "idle", c # "idle",
         c \in AcctPCs => pass[x].pc \in AcctPCs,
         c \in HandPCs <=> pass[x].pc \in HandPCs,
         c \in InTurn \ {"close"} => pass[x].pc \in InTurn \ {"close"}
  PROVE  /\ Steps(x)
         /\ pass'[x].pc = c /\ pass'[x].hand = pass[x].hand
         /\ pass'[x].acct = pass[x].acct /\ pass'[x].camp = pass[x].camp
<1> DEFINE old == pass[x]
           r == [old EXCEPT !.pc = c]
<1>1. old \in PassType /\ Shaped(old)
  BY DEF TypeInv, TypeOK, PassInv, PassType
<1>2. r \in PassType
  BY <1>1 DEF PassType
<1>3. Shaped(r)
  BY <1>1 DEF PassType, Shaped
<1>4. pass' = [pass EXCEPT ![x] = r]
  BY DEF JumpsTo
<1>5. r.pc = c /\ r.hand = old.hand /\ r.acct = old.acct /\ r.camp = old.camp
  BY <1>1 DEF PassType
<1> HIDE DEF r
<1> QED
  BY <1>2, <1>3, <1>4, <1>5, PassMoves

\* Every other step of a pass, and every fault that hits one.
LEMMA OtherSteps ==
  ASSUME TypeInv, NEW x \in Passes,
         \/ \E c \in Campaigns : Poll(x, c)
         \/ Begin(x) \/ SkipBegin(x) \/ NoneFree(x) \/ CheckAccount(x) \/ AcquireAccount(x)
         \/ OpenSession(x) \/ ClaimNextLead(x) \/ ReleaseAccount(x) \/ Cool(x)
         \/ More(x) \/ Final(x) \/ Transition(x) \/ StoreFails(x) \/ Abandon(x)
  PROVE  Steps(x)
<1> USE BoundsAssumption
<1> DEFINE old == pass[x]
<1>0. old \in PassType /\ Shaped(old)
  BY DEF TypeInv, TypeOK, PassInv, PassType
<1>b. /\ 0 \in 0 .. BatchSize
      /\ BatchSize \in 0 .. BatchSize /\ BatchSize \in 1 .. BatchSize
  OBVIOUS
<1>e. ASSUME EndPass(x) \/ pass' = [pass EXCEPT ![x] = NoPass] PROVE Steps(x)
  <2>1. NoPass \in PassType /\ Shaped(NoPass)
    BY DEF NoPass, PassType, PCs, InTurn, Shaped, AcctPCs, HandPCs
  <2> QED
    BY <1>e, <2>1, PassMoves DEF EndPass
<1>1. ASSUME NEW c \in Campaigns, Poll(x, c) PROVE Steps(x)
  <2> DEFINE r == [old EXCEPT !.pc = "listed", !.camp = c, !.queued = status[c] = "queued"]
  <2>1. r \in PassType /\ Shaped(r)
    BY <1>0, <1>1 DEF Poll, Shaped, AcctPCs, HandPCs, InTurn, PassType, PCs
  <2>2. pass' = [pass EXCEPT ![x] = r]
    BY <1>1 DEF Poll
  <2> HIDE DEF r
  <2> QED
    BY <2>1, <2>2, PassMoves
<1>2. ASSUME Begin(x) PROVE Steps(x)
  <2> DEFINE r == [old EXCEPT !.pc = "select", !.queued = FALSE]
  <2>1. r \in PassType /\ Shaped(r)
    BY <1>0, <1>2 DEF Begin, Shaped, AcctPCs, HandPCs, InTurn, PassType, PCs
  <2>2. pass' = [pass EXCEPT ![x] = r]
    BY <1>2 DEF Begin
  <2> HIDE DEF r
  <2> QED
    BY <2>1, <2>2, PassMoves
<1>3. ASSUME NoneFree(x) PROVE Steps(x)
  <2> DEFINE r == [old EXCEPT !.pc = "more", !.tried = {}]
  <2>1. r \in PassType /\ Shaped(r)
    BY <1>0, <1>3 DEF NoneFree, Shaped, AcctPCs, HandPCs, InTurn, PassType, PCs
  <2>2. pass' = [pass EXCEPT ![x] = r]
    BY <1>3 DEF NoneFree
  <2> HIDE DEF r
  <2> QED
    BY <2>1, <2>2, PassMoves
<1>4. ASSUME CheckAccount(x) PROVE Steps(x)
  <2>1. PICK a \in AccountsOf[old.camp] :
               \/ pass' = [pass EXCEPT ![x].tried = @ \union {a}]
               \/ pass' = [pass EXCEPT ![x].pc = "acquire", ![x].acct = a]
    BY <1>4 DEF CheckAccount
  <2>2. old.pc = "select" /\ a \in Accounts
    BY <1>0, <1>4, MapsAssumption DEF CheckAccount, Shaped
  <2>3. CASE pass' = [pass EXCEPT ![x].tried = @ \union {a}]
    <3> DEFINE r == [old EXCEPT !.tried = @ \union {a}]
    <3>1. r \in PassType /\ Shaped(r)
      BY <1>0, <2>2 DEF Shaped, AcctPCs, HandPCs, InTurn, PassType, PCs
    <3>2. pass' = [pass EXCEPT ![x] = r]
      BY <2>3
    <3> HIDE DEF r
    <3> QED
      BY <3>1, <3>2, PassMoves
  <2>4. CASE pass' = [pass EXCEPT ![x].pc = "acquire", ![x].acct = a]
    <3> DEFINE r == [old EXCEPT !.pc = "acquire", !.acct = a]
    <3>1. r \in PassType /\ Shaped(r)
      BY <1>0, <2>1, <2>2 DEF Shaped, AcctPCs, HandPCs, InTurn, PassType, PCs
    <3>2. pass' = [pass EXCEPT ![x] = r]
      BY <2>4
    <3> HIDE DEF r
    <3> QED
      BY <3>1, <3>2, PassMoves
  <2> QED
    BY <2>1, <2>3, <2>4
<1>5. ASSUME AcquireAccount(x) PROVE Steps(x)
  <2>1. CASE lock[old.acct] = NoPod
    <3> DEFINE r == [old EXCEPT !.pc = "open", !.left = BatchSize, !.tried = {}]
    <3>1. r \in PassType /\ Shaped(r)
      BY <1>0, <1>5, <2>1, <1>b DEF AcquireAccount, Shaped, AcctPCs, HandPCs, InTurn, PassType, PCs
    <3>2. pass' = [pass EXCEPT ![x] = r]
      BY <1>5, <2>1 DEF AcquireAccount
    <3> HIDE DEF r
    <3> QED
      BY <3>1, <3>2, PassMoves
  <2>2. CASE lock[old.acct] # NoPod
    <3> DEFINE r == [old EXCEPT !.pc = "select", !.acct = NoAccount, !.tried = @ \union {old.acct}]
    <3>1. r \in PassType /\ Shaped(r)
      BY <1>0, <1>5, <2>2, <1>b DEF AcquireAccount, Shaped, AcctPCs, HandPCs, InTurn, PassType, PCs
    <3>2. pass' = [pass EXCEPT ![x] = r]
      BY <1>5, <2>2 DEF AcquireAccount
    <3> HIDE DEF r
    <3> QED
      BY <3>1, <3>2, PassMoves
  <2> QED
    BY <2>1, <2>2
<1>6. ASSUME OpenSession(x) PROVE Steps(x)
  <2>1. PICK ok \in BOOLEAN :
          pass' = [pass EXCEPT ![x].pc = IF ok THEN "status" ELSE "close", ![x].thrown = ~ok]
    BY <1>6 DEF OpenSession
  <2> DEFINE r == [old EXCEPT !.pc = IF ok THEN "status" ELSE "close", !.thrown = ~ok]
  <2>2. r \in PassType /\ Shaped(r)
    BY <1>0, <1>6 DEF OpenSession, Shaped, AcctPCs, HandPCs, InTurn, PassType, PCs
  <2>3. pass' = [pass EXCEPT ![x] = r]
    BY <2>1
  <2> HIDE DEF r
  <2> QED
    BY <2>2, <2>3, PassMoves
<1>7. ASSUME ClaimNextLead(x) PROVE Steps(x)
  <2>1. PICK l \in Claimable(x) : pass' = [pass EXCEPT ![x].pc = "dup", ![x].hand = l]
    BY <1>7 DEF ClaimNextLead
  <2>2. l \in Leads
    BY <2>1 DEF Claimable, Pending, LeadsOf
  <2> DEFINE r == [old EXCEPT !.pc = "dup", !.hand = l]
  <2>3. r \in PassType /\ Shaped(r)
    BY <1>0, <1>7, <2>2 DEF ClaimNextLead, Shaped, AcctPCs, HandPCs, InTurn, PassType, PCs
  <2>4. pass' = [pass EXCEPT ![x] = r]
    BY <2>1
  <2> HIDE DEF r
  <2> QED
    BY <2>3, <2>4, PassMoves
<1>8. ASSUME ReleaseAccount(x) PROVE Steps(x)
  <2> DEFINE r == [old EXCEPT !.pc = "cool", !.left = 0]
  <2>1. r \in PassType /\ Shaped(r)
    BY <1>0, <1>8, <1>b DEF ReleaseAccount, Shaped, AcctPCs, HandPCs, InTurn, PassType, PCs
  <2>2. pass' = [pass EXCEPT ![x] = r]
    BY <1>8 DEF ReleaseAccount
  <2> HIDE DEF r
  <2> QED
    BY <2>1, <2>2, PassMoves
<1>9. ASSUME Cool(x) PROVE Steps(x)
  <2>1. CASE old.thrown
    BY <1>9, <2>1, <1>e DEF Cool
  <2>2. CASE ~old.thrown
    <3> DEFINE r == [old EXCEPT !.pc = "more", !.acct = NoAccount]
    <3>1. r \in PassType /\ Shaped(r)
      BY <1>0, <1>9, <2>2 DEF Cool, Shaped, AcctPCs, HandPCs, InTurn, PassType, PCs
    <3>2. pass' = [pass EXCEPT ![x] = r]
      BY <1>9, <2>2 DEF Cool
    <3> HIDE DEF r
    <3> QED
      BY <3>1, <3>2, PassMoves
  <2> QED
    BY <2>1, <2>2
<1>10. ASSUME More(x) PROVE Steps(x)
  <2>1. PICK next \in {"select", "final"} :
          pass' = [pass EXCEPT ![x].pc = next, ![x].actioned = FALSE]
    BY <1>10 DEF More
  <2> DEFINE r == [old EXCEPT !.pc = next, !.actioned = FALSE]
  <2>2. r \in PassType /\ Shaped(r)
    BY <1>0, <1>10 DEF More, Shaped, AcctPCs, HandPCs, InTurn, PassType, PCs
  <2>3. pass' = [pass EXCEPT ![x] = r]
    BY <2>1
  <2> HIDE DEF r
  <2> QED
    BY <2>2, <2>3, PassMoves
<1>11. ASSUME Final(x) PROVE Steps(x)
  <2>1. CASE Pending(old.camp) # {}
    BY <1>11, <2>1, <1>e DEF Final
  <2>2. CASE Pending(old.camp) = {}
    <3> DEFINE r == [old EXCEPT !.pc = "transition"]
    <3>1. r \in PassType /\ Shaped(r)
      BY <1>0, <1>11, <2>2 DEF Final, Shaped, AcctPCs, HandPCs, InTurn, PassType, PCs
    <3>2. pass' = [pass EXCEPT ![x] = r]
      BY <1>11, <2>2 DEF Final
    <3> HIDE DEF r
    <3> QED
      BY <3>1, <3>2, PassMoves
  <2> QED
    BY <2>1, <2>2
<1>12. ASSUME Transition(x) PROVE Steps(x)
  BY <1>12, <1>e DEF Transition
<1>13. ASSUME SkipBegin(x) PROVE Steps(x)
  BY <1>13, <1>e DEF SkipBegin
<1>14. ASSUME StoreFails(x) PROVE Steps(x)
  <2>1. CASE EndPass(x)
    BY <2>1, <1>e
  <2>2. CASE ~EndPass(x)
    <3> DEFINE r == [old EXCEPT !.pc = "close", !.hand = NoLead, !.thrown = TRUE]
    <3>1. r \in PassType /\ Shaped(r)
      BY <1>0, <1>14, <2>2 DEF StoreFails, Shaped, AcctPCs, HandPCs, InTurn, PassType, PCs
    <3>2. pass' = [pass EXCEPT ![x] = r]
      BY <1>14, <2>2 DEF StoreFails
    <3> HIDE DEF r
    <3> QED
      BY <3>1, <3>2, PassMoves
  <2> QED
    BY <2>1, <2>2
<1>15. ASSUME Abandon(x) PROVE Steps(x)
  <2> DEFINE r == [old EXCEPT !.abandoned = TRUE]
  <2>1. r \in PassType /\ Shaped(r)
    BY <1>0, <1>15 DEF Abandon, Shaped, AcctPCs, HandPCs, InTurn, PassType, PCs
  <2>2. pass' = [pass EXCEPT ![x] = r]
    BY <1>15 DEF Abandon
  <2> HIDE DEF r
  <2> QED
    BY <2>1, <2>2, PassMoves
<1> QED
  BY <1>1, <1>2, <1>3, <1>4, <1>5, <1>6, <1>7, <1>8, <1>9, <1>10, <1>11, <1>12, <1>13, <1>14, <1>15

\* A step of a turn that has a lead in hand.
LEMMA LeadSteps ==
  ASSUME TypeInv, NEW x \in Passes, LeadStep(x) \/ ReadStatus(x) \/ NoLeadLeft(x)
  PROVE  /\ Steps(x)
         /\ pass'[x].acct = pass[x].acct /\ pass'[x].camp = pass[x].camp
         /\ pass'[x].hand \in {pass[x].hand, NoLead}
         /\ pass'[x].pc \in InTurn
<1> USE DEF HandPCs, AcctPCs, InTurn, PCs
<1>1. CASE ReadStatus(x)
  <2>1. JumpsTo(x, "claim") \/ JumpsTo(x, "close")
    BY <1>1 DEF ReadStatus, JumpsTo
  <2> QED
    BY <1>1, <2>1, JumpSteps DEF ReadStatus
<1>2. CASE NoLeadLeft(x)
  <2>1. JumpsTo(x, "close")
    BY <1>2 DEF NoLeadLeft, JumpsTo
  <2> QED
    BY <1>2, <2>1, JumpSteps DEF NoLeadLeft
<1>3. CASE SkipDuplicate(x) \/ Fails(x)
  BY <1>3, NextLeadSteps DEF SkipDuplicate, Fails
<1>4. CASE NotActioned(x)
  <2>1. JumpsTo(x, "gate")
    BY <1>4 DEF NotActioned, JumpsTo
  <2> QED
    BY <1>4, <2>1, JumpSteps DEF NotActioned
<1>5. CASE TakeCredit(x)
  <2>1. JumpsTo(x, "act")
    BY <1>5 DEF TakeCredit, JumpsTo
  <2> QED
    BY <1>5, <2>1, JumpSteps DEF TakeCredit
<1>6. CASE NoCredit(x) \/ BackOff(x)
  BY <1>6, GiveBackSteps DEF NoCredit, BackOff
<1>7. CASE Sent(x)
  <2>1. JumpsTo(x, "markSent")
    BY <1>7 DEF Sent, JumpsTo
  <2> QED
    BY <1>7, <2>1, JumpSteps DEF Sent
<1>8. CASE AlreadyConnected(x)
  <2>1. JumpsTo(x, "markAlready")
    BY <1>8 DEF AlreadyConnected, JumpsTo
  <2> QED
    BY <1>8, <2>1, JumpSteps DEF AlreadyConnected
<1>9. CASE Mark(x)
  <2>1. \/ pass[x].pc = "markSent" /\ JumpsTo(x, "stampSent")
        \/ pass[x].pc = "markAlready" /\ JumpsTo(x, "stampAlready")
    BY <1>9 DEF Mark, JumpsTo, TypeInv, TypeOK
  <2> QED
    BY <2>1, JumpSteps
<1>10. CASE Stamp(x)
  BY <1>10, NextLeadSteps DEF Stamp
<1> QED
  BY <1>1, <1>2, <1>3, <1>4, <1>5, <1>6, <1>7, <1>8, <1>9, <1>10 DEF LeadStep

\* Every step of a pass concerns that pass alone.
LEMMA AllSteps ==
  ASSUME TypeInv, NEW x \in Passes, PassStep(x) \/ StoreFails(x) \/ Abandon(x)
  PROVE  Steps(x)
  BY LeadSteps, OtherSteps DEF PassStep, TurnStep

\* An invitation is counted for its lead, its account and, when it is late, its pass.
LEMMA InviteType ==
  ASSUME NEW x \in Passes, Invite(x), pass[x].hand \in Leads, pass[x].acct \in Accounts,
         invites \in [Leads -> Nat], sends \in [Accounts -> Nat], late \in [Passes -> Nat]
  PROVE  invites' \in [Leads -> Nat] /\ sends' \in [Accounts -> Nat] /\ late' \in [Passes -> Nat]
<1>1. invites' \in [Leads -> Nat] /\ sends' \in [Accounts -> Nat]
  BY DEF Invite
<1>2. late' = late \/ late' = [late EXCEPT ![x] = @ + 1]
  BY DEF Invite
<1> QED
  BY <1>1, <1>2

\* A fault stays within the bound.
LEMMA FaultType == faults \in 0 .. MaxFaults /\ Fault => faults' \in 0 .. MaxFaults
  BY BoundsAssumption DEF Fault

\* Every step keeps the types.
LEMMA TypeNext == TypeInv /\ [Next]_vars => TypeInv'
<1> SUFFICES ASSUME TypeInv, [Next]_vars PROVE TypeInv'
  OBVIOUS
<1>1. ASSUME NEW x \in Passes, PassStep(x) \/ StoreFails(x) \/ Abandon(x) PROVE TypeInv'
  <2> DEFINE old == pass[x]
  <2>1. pass' \in [Passes -> PassType] /\ PassInv'
    BY <1>1, AllSteps DEF Steps
  <2>2. old \in PassType /\ Shaped(old)
    BY DEF TypeInv, TypeOK, PassInv, PassType
  <2>3. old.acct \in Accounts \union {NoAccount} /\ old.hand \in Leads \union {NoLead}
        /\ (old.camp \in Campaigns \/ old.pc = "idle") /\ PodOf[x] \in Pods
    BY <2>2, MapsAssumption DEF PassType, Shaped
  <2>4. /\ old.pc \in HandPCs => old.hand \in Leads
        /\ old.pc \in HandPCs \union {"acquire"} => old.acct \in Accounts
    BY <2>2 DEF Shaped, HandPCs, AcctPCs, InTurn
  <2> USE <2>1, <2>3, <2>4 DEF TypeInv, TypeOK, storeVars, worldVars, bounds, HandPCs, PassType
  <2>5. CASE \E c \in Campaigns : Poll(x, c)
    BY <2>5 DEF Poll
  <2>6. CASE Begin(x)
    BY <2>6 DEF Begin, SetActive, Active
  <2>7. CASE SkipBegin(x) \/ CheckAccount(x) \/ NoneFree(x) \/ OpenSession(x) \/ ReadStatus(x)
             \/ NoLeadLeft(x) \/ NotActioned(x) \/ More(x)
    BY <2>7 DEF SkipBegin, CheckAccount, NoneFree, OpenSession, ReadStatus, NoLeadLeft, NotActioned,
                More
  <2>8. CASE AcquireAccount(x)
    BY <2>8 DEF AcquireAccount
  <2>9. CASE ClaimNextLead(x)
    BY <2>9 DEF ClaimNextLead
  <2>9b. CASE SkipDuplicate(x) \/ Stamp(x)
    BY <2>9b DEF SkipDuplicate, Stamp
  <2>10. CASE NoCredit(x)
    BY <2>10 DEF NoCredit, GiveBack
  <2>10b. CASE BackOff(x)
    <3>1. resting' \in [Accounts -> BOOLEAN]
      <4>1. PICK parked \in BOOLEAN : resting' = [resting EXCEPT ![old.acct] = @ \/ parked]
        BY <2>10b DEF BackOff
      <4> QED
        BY <4>1
    <3>2. lead' = [lead EXCEPT ![old.hand] = "pending"] /\ old.hand \in Leads
      BY <2>10b DEF BackOff, GiveBack
    <3> QED
      BY <2>10b, <3>1, <3>2 DEF BackOff
  <2>11. CASE TakeCredit(x) \/ AlreadyConnected(x)
    <3>1. old.acct \in Accounts
      BY <2>11 DEF TakeCredit, AlreadyConnected
    <3>2. \/ credit' = [credit EXCEPT ![old.acct] = @ + 1]
          \/ credit' = [credit EXCEPT ![old.acct] = IF @ > 0 THEN @ - 1 ELSE @]
      BY <2>11 DEF TakeCredit, AlreadyConnected
    <3> HIDE <2>1, <2>3, <2>4
    <3>3. credit' \in [Accounts -> Nat]
      <4>1. credit \in [Accounts -> Nat]
        OBVIOUS
      <4> HIDE DEF TypeInv, TypeOK
      <4> QED BY <3>1, <3>2, <4>1
    <3>4. UNCHANGED <<status, starting, lead, marks, lock, resting, inflight, worldVars, bounds>>
      BY <2>11 DEF TakeCredit, AlreadyConnected
    <3> QED
      BY <2>1, <3>3, <3>4
  <2>12. CASE Sent(x)
    BY <2>12, InviteType DEF Sent
  <2>13. CASE Fails(x)
    <3>1. /\ lead' = [lead EXCEPT ![old.hand] = "error"]
          /\ (Fault /\ Invite(x)) \/ UNCHANGED <<worldVars, faults>>
          /\ UNCHANGED <<status, starting, marks, lock, credit, resting, inflight, ops>>
      BY <2>13 DEF Fails
    <3> QED
      BY <2>13, <3>1, FaultType, InviteType DEF Fails
  <2>14. CASE Mark(x)
    <3>1. KeyOf(old.hand) \in Campaigns \X Persons
      BY <2>14, MapsAssumption DEF Mark, KeyOf
    <3> QED
      BY <2>14, <3>1 DEF Mark
  <2>15. CASE ReleaseAccount(x)
    BY <2>15 DEF ReleaseAccount
  <2>16. CASE Cool(x)
    BY <2>16, EndPassType DEF Cool
  <2>17. CASE Final(x)
    BY <2>17, EndPassType DEF Final
  <2>18. CASE Transition(x)
    BY <2>18, EndPassType DEF Transition, Active, Halted
  <2>19. CASE StoreFails(x)
    <3>1. inflight' \in [Pods -> SUBSET Campaigns]
      BY <2>19, EndPassType DEF StoreFails
    <3> QED
      BY <2>19, <3>1, FaultType DEF StoreFails
  <2>20. CASE Abandon(x)
    <3>1. inflight' \in [Pods -> SUBSET Campaigns]
      BY <2>20 DEF Abandon
    <3> QED
      BY <2>20, <3>1, FaultType DEF Abandon
  <2> QED
    BY <1>1, <2>5, <2>6, <2>7, <2>8, <2>9, <2>9b, <2>10, <2>10b, <2>11, <2>12, <2>13, <2>14,
       <2>15, <2>16, <2>17, <2>18, <2>19, <2>20 DEF PassStep, TurnStep, LeadStep
<1>2. ASSUME NEW p \in Pods, PodExit(p) PROVE TypeInv'
  <2>1. NoPass \in PassType /\ Shaped(NoPass)
    BY BoundsAssumption DEF NoPass, PassType, PCs, InTurn, Shaped, AcctPCs, HandPCs
  <2>2. pass' \in [Passes -> PassType] /\ PassInv'
    BY <1>2, <2>1 DEF PodExit, TypeInv, TypeOK, PassInv, PassType
  <2> QED
    BY <1>2, <2>2, BoundsAssumption
       DEF PodExit, Fault, TypeInv, TypeOK, storeVars, worldVars, PassType
<1>3. ASSUME NEW a \in Accounts, LockExpire(a) \/ RestEnds(a) PROVE TypeInv'
  <2>1. PassInv'
    BY <1>3 DEF LockExpire, RestEnds, TypeInv, PassInv
  <2> QED
    BY <1>3, <2>1 DEF LockExpire, RestEnds, TypeInv, TypeOK, worldVars, bounds
<1>4. CASE UNCHANGED vars
  BY <1>4 DEF vars, storeVars, worldVars, bounds, TypeInv, TypeOK, PassInv
<1> QED
  BY <1>1, <1>2, <1>3, <1>4, OperatorType DEF Next

\* The state of the sending phase is always well typed: a turn that has a lead in hand knows
\* its lead, account and campaign, and refundDailySend never takes a counter below 0.
THEOREM TypeCorrect == Spec => []TypeOK
<1>1. TypeInv => TypeOK
  BY DEF TypeInv
<1> QED
  BY TypeInit, TypeNext, <1>1, PTL DEF Spec

-----------------------------------------------------------------------------
(* The account locks.                                                      *)

\* Whoever drives an account holds its lock: the lock names his pod.  One lock value serves
\* every pass of a pod, so that two holders differ must be said as well.
DriverHoldsLock == \A x \in Passes : \A a \in Accounts : Holds(x, a) => lock[a] = PodOf[x]
LockInv == DriverHoldsLock /\ AccountExclusive

\* A pass takes an account only from AcquireAccount, and keeps it until its turn is over.
LEMMA HoldsStep ==
  ASSUME TypeInv, NEW x \in Passes, NEW a \in Accounts,
         PassStep(x) \/ StoreFails(x) \/ Abandon(x), Holds(x, a)'
  PROVE  Holds(x, a) \/ (AcquireAccount(x) /\ lock[a] = NoPod /\ lock'[a] = PodOf[x])
<1> USE DEF Holds
<1>1. CASE LeadStep(x) \/ ReadStatus(x) \/ NoLeadLeft(x)
  <2>1. pass[x].pc \in InTurn
    BY <1>1 DEF LeadStep, ReadStatus, NoLeadLeft, SkipDuplicate, NotActioned, TakeCredit, NoCredit,
                Sent, AlreadyConnected, BackOff, Fails, Mark, Stamp, InTurn
  <2> QED
    BY <1>1, <2>1, LeadSteps
<1>2. Steps(x) /\ pass \in [Passes -> PassType]
  BY AllSteps DEF TypeInv, TypeOK, PassType
<1>3. CASE AcquireAccount(x)
  <2>1. pass[x].pc = "acquire"
    BY <1>3 DEF AcquireAccount
  <2>2. CASE lock[pass[x].acct] = NoPod
    <3>1. pass'[x].acct = pass[x].acct
      BY <1>2, <1>3, <2>2 DEF AcquireAccount, PassType
    <3>2. lock' = [lock EXCEPT ![pass[x].acct] = PodOf[x]]
      BY <1>3, <2>2 DEF AcquireAccount
    <3> QED
      BY <1>3, <2>2, <3>1, <3>2 DEF TypeInv, TypeOK
  <2>3. CASE lock[pass[x].acct] # NoPod
    <3>1. pass'[x].pc = "select"
      BY <1>2, <1>3, <2>3 DEF AcquireAccount, PassType
    <3> QED
      BY <3>1 DEF InTurn
  <2> QED
    BY <2>2, <2>3
<1>4. CASE OpenSession(x) \/ ClaimNextLead(x) \/ Abandon(x)
  <2>1. pass'[x].acct = pass[x].acct
    <3>1. CASE OpenSession(x)
      BY <1>2, <3>1 DEF OpenSession, PassType
    <3>2. CASE ClaimNextLead(x)
      BY <1>2, <3>2 DEF ClaimNextLead, PassType
    <3>3. CASE Abandon(x)
      BY <1>2, <3>3 DEF Abandon, PassType
    <3> QED
      BY <1>4, <3>1, <3>2, <3>3
  <2>2. CASE OpenSession(x) \/ ClaimNextLead(x)
    BY <2>1, <2>2 DEF OpenSession, ClaimNextLead, InTurn
  <2>3. CASE Abandon(x)
    <3>1. pass'[x].pc = pass[x].pc
      BY <1>2, <2>3 DEF Abandon, PassType
    <3> QED
      BY <2>1, <3>1
  <2> QED
    BY <1>4, <2>2, <2>3
<1>5. CASE StoreFails(x)
  BY <1>2, <1>5 DEF StoreFails, EndPass, NoPass, PassType, InTurn
<1>6. CASE (\E c \in Campaigns : Poll(x, c)) \/ Begin(x) \/ SkipBegin(x) \/ CheckAccount(x)
           \/ NoneFree(x) \/ ReleaseAccount(x)
  <2>1. pass'[x].pc \in {"listed", "select", "idle", "acquire", "more", "cool"}
    <3>1. CASE \E c \in Campaigns : Poll(x, c)
      BY <1>2, <3>1 DEF Poll, PassType
    <3>2. CASE Begin(x) \/ SkipBegin(x)
      BY <1>2, <3>2 DEF Begin, SkipBegin, NoPass, PassType
    <3>3. CASE CheckAccount(x)
      BY <1>2, <3>3 DEF CheckAccount, PassType
    <3>4. CASE NoneFree(x) \/ ReleaseAccount(x)
      BY <1>2, <3>4 DEF NoneFree, ReleaseAccount, PassType
    <3> QED
      BY <1>6, <3>1, <3>2, <3>3, <3>4
  <2> QED
    BY <2>1 DEF InTurn
<1>7. CASE Cool(x) \/ More(x) \/ Final(x) \/ Transition(x)
  BY <1>2, <1>7 DEF Cool, More, Final, Transition, EndPass, NoPass, PassType, InTurn
<1> QED
  BY <1>1, <1>3, <1>4, <1>5, <1>6, <1>7 DEF PassStep, TurnStep

\* No pass drives an account at the start.
LEMMA LockInit == Init => LockInv
  BY DEF Init, LockInv, DriverHoldsLock, AccountExclusive, Holds, NoPass, InTurn

\* Every step keeps the holders' locks.
LEMMA LockNext == TypeInv /\ LockInv /\ [Next]_vars => LockInv'
<1> SUFFICES ASSUME TypeInv, LockInv, [Next]_vars PROVE LockInv'
  OBVIOUS
<1> USE DEF LockInv, DriverHoldsLock
<1>1. ASSUME NEW x \in Passes, PassStep(x) \/ StoreFails(x) \/ Abandon(x) PROVE LockInv'
  <2>1. Steps(x)
    BY <1>1, AllSteps
  <2>2. ASSUME NEW y \in Passes \ {x}, NEW a \in Accounts
        PROVE  Holds(y, a)' <=> Holds(y, a)
    BY <2>1 DEF Steps, Holds
  <2>3. CASE AcquireAccount(x)
    <3>1. /\ lock \in [Accounts -> Pods \union {NoPod}] /\ PodOf[x] \in Pods
          /\ lock' = lock \/ (lock[pass[x].acct] = NoPod
                              /\ lock' = [lock EXCEPT ![pass[x].acct] = PodOf[x]])
      BY <2>3, MapsAssumption DEF TypeInv, TypeOK, AcquireAccount
    <3>2. \A y \in Passes : PodOf[y] # NoPod
      BY MapsAssumption, NonesAssumption
    <3>3. ASSUME NEW a \in Accounts, NEW y \in Passes, Holds(y, a) PROVE lock'[a] = PodOf[y]
      BY <3>1, <3>2, <3>3
    <3>4. ASSUME NEW a \in Accounts, Holds(x, a)', NEW y \in Passes \ {x} PROVE ~Holds(y, a)'
      <4>1. CASE Holds(x, a)
        BY <2>2, <4>1 DEF AccountExclusive
      <4>2. CASE lock[a] = NoPod
        BY <2>2, <3>2, <4>2
      <4> QED
        BY <1>1, <3>4, <4>1, <4>2, HoldsStep
    <3>5. DriverHoldsLock'
      <4> SUFFICES ASSUME NEW y \in Passes, NEW a \in Accounts, Holds(y, a)'
                   PROVE  lock'[a] = PodOf[y]
        OBVIOUS
      <4>1. CASE y # x
        BY <2>2, <3>3, <4>1
      <4>2. CASE y = x
        BY <1>1, <3>3, <4>2, HoldsStep
      <4> QED
        BY <4>1, <4>2
    <3>6. AccountExclusive'
      <4> SUFFICES ASSUME NEW y \in Passes, NEW z \in Passes, NEW a \in Accounts,
                          Holds(y, a)', Holds(z, a)', y # z
                   PROVE  FALSE
        BY DEF AccountExclusive
      <4> QED
        BY <2>2, <3>4 DEF AccountExclusive
    <3> QED
      BY <3>5, <3>6
  <2>4. CASE ~AcquireAccount(x)
    <3>1. \A y \in Passes, a \in Accounts : Holds(y, a)' => Holds(y, a)
      BY <1>1, <2>2, <2>4, HoldsStep
    <3>2. AccountExclusive'
      BY <3>1 DEF AccountExclusive
    <3>3. CASE ReleaseAccount(x)
      <4>1. ASSUME NEW a \in Accounts PROVE ~Holds(x, a)'
        <5>1. pass'[x].pc = "cool"
          BY <3>3 DEF ReleaseAccount, TypeInv, TypeOK
        <5> QED
          BY <5>1 DEF Holds, InTurn
      <4>2. lock' = lock \/ lock' = [lock EXCEPT ![pass[x].acct] = NoPod]
        BY <3>3 DEF ReleaseAccount, TypeInv, TypeOK
      <4>3. ASSUME NEW y \in Passes, Holds(y, pass[x].acct), y # x, pass[x].acct \in Accounts
            PROVE  FALSE
        <5>1. Holds(x, pass[x].acct)
          BY <3>3 DEF ReleaseAccount, Holds, InTurn
        <5> QED
          BY <4>3, <5>1 DEF AccountExclusive
      <4>4. DriverHoldsLock'
        BY <3>1, <4>1, <4>2, <4>3 DEF TypeInv, TypeOK
      <4> QED
        BY <3>2, <4>4
    <3>4. CASE ~ReleaseAccount(x)
      <4>1. lock' = lock
        BY <1>1, <2>4, <3>4
           DEF PassStep, TurnStep, LeadStep, Poll, Begin, SkipBegin, CheckAccount, NoneFree,
               OpenSession, ReadStatus, ClaimNextLead, NoLeadLeft, SkipDuplicate, NotActioned,
               TakeCredit, NoCredit, Sent, AlreadyConnected, BackOff, Fails, Mark, Stamp, Cool,
               More, Final, Transition, StoreFails, Abandon, storeVars
      <4> QED
        BY <3>1, <3>2, <4>1
    <3> QED
      BY <3>3, <3>4
  <2> QED
    BY <2>3, <2>4
<1>2. ASSUME NEW p \in Pods, PodExit(p) PROVE LockInv'
  <2>1. \A y \in Passes, a \in Accounts : Holds(y, a)' => Holds(y, a)
    BY <1>2 DEF PodExit, Holds, NoPass, InTurn, TypeInv, TypeOK
  <2>2. lock' = lock
    BY <1>2 DEF PodExit, storeVars
  <2> QED
    BY <2>1, <2>2 DEF AccountExclusive
<1>3. ASSUME NEW a \in Accounts, LockExpire(a) PROVE LockInv'
  BY <1>3 DEF LockExpire, Holds, AccountExclusive, TypeInv, TypeOK
<1>4. ASSUME NEW c \in Campaigns, Operator(c) PROVE LockInv'
  BY <1>4 DEF Operator, CreateCampaign, AddLeads, SkipActioned, Stop, Resume, Restart, Holds,
              AccountExclusive
<1>5. ASSUME NEW a \in Accounts, RestEnds(a) PROVE LockInv'
  BY <1>5 DEF RestEnds, Holds, AccountExclusive
<1>6. CASE UNCHANGED vars
  BY <1>6 DEF vars, storeVars, Holds, AccountExclusive
<1> QED
  BY <1>1, <1>2, <1>3, <1>4, <1>5, <1>6 DEF Next

\* One account is driven by one turn at a time, although the lock of an account names a pod
\* and not a turn, passes outlive their pod's patience, and pods die with locks in their
\* names: acquireAccount and releaseAccount of campaign-store.js.
THEOREM OneTurnPerAccount == Spec => []AccountExclusive
<1>1. LockInv => AccountExclusive
  BY DEF LockInv
<1> QED
  BY TypeInit, TypeNext, LockInit, LockNext, <1>1, PTL DEF Spec

-----------------------------------------------------------------------------
(* The leads in hand.                                                      *)

\* The leads of a campaign appear with the second statement of POST /start.
LeadsAppear == \A c \in Campaigns : starting[c] \in {"create", "leads"} =>
                   \A l \in LeadsOf(c) : lead[l] = "absent"
HandInv == LeadsAppear /\ LeadInHand

\* A step of a pass that neither claims nor settles a lead leaves the leads alone; it may
\* drop the lead in hand.
Keeps(x) == lead' = lead /\ pass'[x].hand \in {pass[x].hand, NoLead}
Settles(x) == /\ pass'[x].hand = NoLead
              /\ \E v \in {"pending", "skipped", "sent", "error"} :
                   lead' = [lead EXCEPT ![pass[x].hand] = v]

\* The steps that settle a lead or give it back.
Settling(x) == SkipDuplicate(x) \/ NoCredit(x) \/ BackOff(x) \/ Fails(x) \/ Stamp(x)

\* A step of a pass keeps the leads, settles the one in hand or claims one.
LEMMA LeadEffect ==
  ASSUME TypeInv, NEW x \in Passes, PassStep(x) \/ StoreFails(x) \/ Abandon(x)
  PROVE  Keeps(x) \/ (Settling(x) /\ Settles(x)) \/ ClaimNextLead(x)
<1>0. pass \in [Passes -> PassType] /\ Steps(x)
  BY AllSteps DEF TypeInv, TypeOK, PassType
<1>1. CASE SkipDuplicate(x) \/ Fails(x) \/ Stamp(x)
  <2>1. pass'[x].hand = NoLead
    <3>1. (NextLead(x, FALSE) \/ NextLead(x, pass[x].pc = "stampSent")) /\ pass[x].pc \in HandPCs
      BY <1>1 DEF SkipDuplicate, Fails, Stamp, HandPCs
    <3> QED
      BY <3>1, NextLeadSteps
  <2> QED
    BY <1>1, <2>1 DEF SkipDuplicate, Fails, Stamp, Settles, Settling
<1>2. CASE NoCredit(x) \/ BackOff(x)
  <2>1. pass'[x].hand = NoLead
    BY <1>2, GiveBackSteps DEF NoCredit, BackOff, HandPCs
  <2> QED
    BY <1>2, <2>1 DEF NoCredit, BackOff, GiveBack, Settles, Settling
<1>3. CASE NotActioned(x) \/ TakeCredit(x) \/ Sent(x) \/ AlreadyConnected(x) \/ Mark(x)
           \/ ReadStatus(x) \/ NoLeadLeft(x)
  <2>1. pass'[x].hand \in {pass[x].hand, NoLead}
    BY <1>3, LeadSteps DEF LeadStep
  <2> QED
    BY <1>3, <2>1 DEF NotActioned, TakeCredit, Sent, AlreadyConnected, Mark, ReadStatus, NoLeadLeft,
                      storeVars, Keeps
<1>4. CASE (\E c \in Campaigns : Poll(x, c)) \/ Begin(x) \/ SkipBegin(x)
  <2>1. CASE \E c \in Campaigns : Poll(x, c)
    BY <1>0, <2>1 DEF Poll, PassType, storeVars, Keeps
  <2>2. CASE Begin(x)
    BY <1>0, <2>2 DEF Begin, PassType, Keeps
  <2>3. CASE SkipBegin(x)
    BY <1>0, <2>3 DEF SkipBegin, NoPass, PassType, storeVars, Keeps
  <2> QED
    BY <1>4, <2>1, <2>2, <2>3
<1>5. CASE CheckAccount(x)
  BY <1>0, <1>5 DEF CheckAccount, PassType, storeVars, Keeps
<1>6. CASE NoneFree(x) \/ AcquireAccount(x)
  BY <1>0, <1>6 DEF NoneFree, AcquireAccount, PassType, storeVars, Keeps
<1>7. CASE OpenSession(x)
  BY <1>0, <1>7 DEF OpenSession, PassType, storeVars, Keeps
<1>8. CASE ReleaseAccount(x) \/ More(x)
  BY <1>0, <1>8 DEF ReleaseAccount, More, PassType, storeVars, Keeps
<1>9. CASE Cool(x) \/ Final(x) \/ Transition(x)
  BY <1>0, <1>9 DEF Cool, Final, Transition, EndPass, NoPass, PassType, storeVars, Keeps
<1>10. CASE StoreFails(x)
  BY <1>0, <1>10 DEF StoreFails, EndPass, NoPass, PassType, storeVars, Keeps
<1>11. CASE Abandon(x)
  BY <1>0, <1>11 DEF Abandon, PassType, storeVars, Keeps
<1> QED
  BY <1>1, <1>2, <1>3, <1>4, <1>5, <1>6, <1>7, <1>8, <1>9, <1>10, <1>11
     DEF PassStep, TurnStep, LeadStep

\* No lead is in hand at the start.
LEMMA HandInit == Init => HandInv
  BY DEF Init, HandInv, LeadsAppear, LeadInHand, LeadsOf, NoPass

\* Every step keeps the leads in hand.
LEMMA HandNext == TypeInv /\ HandInv /\ [Next]_vars => HandInv'
<1> SUFFICES ASSUME TypeInv, HandInv, [Next]_vars PROVE HandInv'
  OBVIOUS
<1> USE DEF HandInv, LeadsAppear, LeadInHand, LeadsOf
<1>0. lead \in [Leads -> {"absent", "pending", "claimed", "sent", "skipped", "error"}]
      /\ \A x \in Passes : pass[x].hand \in Leads \union {NoLead}
  BY DEF TypeInv, TypeOK
<1>1. ASSUME NEW x \in Passes, PassStep(x) \/ StoreFails(x) \/ Abandon(x) PROVE HandInv'
  <2>1. \A y \in Passes \ {x} : pass'[y] = pass[y]
    BY <1>1, AllSteps DEF Steps
  <2>2. starting' = starting
    BY <1>1
       DEF PassStep, TurnStep, LeadStep, Poll, Begin, SkipBegin, CheckAccount, NoneFree,
           AcquireAccount, OpenSession, ReadStatus, ClaimNextLead, NoLeadLeft, SkipDuplicate,
           NotActioned, TakeCredit, NoCredit, Sent, AlreadyConnected, BackOff, Fails, Mark, Stamp,
           ReleaseAccount, Cool, More, Final, Transition, StoreFails, Abandon, storeVars
  <2>3. CASE Keeps(x)
    BY <2>1, <2>2, <2>3 DEF Keeps
  <2>4. CASE Settling(x) /\ Settles(x)
    <3>1. pass[x].hand \in Leads /\ pass[x].hand # NoLead
      <4>1. pass[x].pc \in HandPCs
        BY <2>4 DEF Settling, SkipDuplicate, NoCredit, BackOff, Fails, Stamp, HandPCs
      <4> QED
        BY <4>1, NonesAssumption DEF TypeInv, PassInv, Shaped
    <3>2. lead[pass[x].hand] = "claimed"
      BY <3>1
    <3>3. \A l \in Leads : l # pass[x].hand => lead'[l] = lead[l]
      BY <2>4 DEF Settles, TypeInv, TypeOK
    <3>4. LeadInHand'
      BY <2>1, <2>4, <3>1, <3>3 DEF Settles
    <3>5. LeadsAppear'
      BY <2>2, <3>2, <3>3
    <3> QED
      BY <3>4, <3>5
  <2>5. CASE ClaimNextLead(x)
    <3>1. PICK l \in Claimable(x) : /\ lead' = [lead EXCEPT ![l] = "claimed"]
                                    /\ pass' = [pass EXCEPT ![x].pc = "dup", ![x].hand = l]
      BY <2>5 DEF ClaimNextLead
    <3>2. l \in Leads /\ lead[l] = "pending"
      BY <3>1 DEF Claimable, Pending
    <3>3. pass'[x].hand = l
      BY <3>1 DEF TypeInv, TypeOK
    <3>4. LeadInHand'
      <4>1. \A y \in Passes \ {x} : pass[y].hand # l
        BY <3>2, NonesAssumption
      <4>2. \A k \in Leads : lead'[k] = IF k = l THEN "claimed" ELSE lead[k]
        BY <1>0, <3>1
      <4>3. \A y \in Passes : pass'[y].hand # NoLead => lead'[pass'[y].hand] = "claimed"
        BY <1>0, <2>1, <3>2, <3>3, <4>2
      <4>4. \A y, z \in Passes : pass'[y].hand # NoLead /\ pass'[z].hand = pass'[y].hand => y = z
        BY <2>1, <3>3, <4>1
      <4> QED
        BY <4>3, <4>4
    <3>5. LeadsAppear'
      BY <1>0, <2>2, <3>1, <3>2
    <3> QED
      BY <3>4, <3>5
  <2> QED
    BY <1>1, <2>3, <2>4, <2>5, LeadEffect
<1>2. ASSUME NEW c \in Campaigns, Operator(c) PROVE HandInv'
  <2>1. pass' = pass
    BY <1>2 DEF Operator, CreateCampaign, AddLeads, SkipActioned, Stop, Resume, Restart
  <2>2. CASE CreateCampaign(c)
    BY <2>1, <2>2 DEF CreateCampaign, TypeInv, TypeOK
  <2>3. CASE AddLeads(c)
    <3>1. \A l \in Leads : lead'[l] = IF CampaignOf[l] = c THEN "pending" ELSE lead[l]
      BY <2>3 DEF AddLeads
    <3>2. \A l \in Leads : CampaignOf[l] = c => lead[l] = "absent"
      BY <2>3 DEF AddLeads
    <3>3. \A d \in Campaigns : starting'[d] \in {"create", "leads"} => d # c /\ starting[d] = starting'[d]
      BY <2>3 DEF AddLeads, TypeInv, TypeOK
    <3>4. LeadInHand'
      BY <1>0, <2>1, <3>1, <3>2
    <3>5. LeadsAppear'
      BY <3>1, <3>3
    <3> QED
      BY <3>4, <3>5
  <2>4. CASE SkipActioned(c) \/ Restart(c)
    <3>1. \A l \in Leads : lead[l] # "pending" => lead'[l] = lead[l]
      BY <2>4 DEF SkipActioned, Restart, SkipElsewhere, Pending
    <3>2. \A d \in Campaigns : starting'[d] \in {"create", "leads"} => starting[d] = starting'[d]
      BY <2>4 DEF SkipActioned, Restart, TypeInv, TypeOK
    <3>3. LeadInHand'
      BY <1>0, <2>1, <3>1
    <3>4. LeadsAppear'
      BY <3>1, <3>2
    <3> QED
      BY <3>3, <3>4
  <2>5. CASE Stop(c) \/ Resume(c)
    BY <2>1, <2>5 DEF Stop, Resume
  <2> QED
    BY <1>2, <2>2, <2>3, <2>4, <2>5 DEF Operator
<1>3. ASSUME NEW p \in Pods, PodExit(p) PROVE HandInv'
  <2>1. \A y \in Passes : pass'[y].hand \in {pass[y].hand, NoLead}
    BY <1>3 DEF PodExit, NoPass, TypeInv, TypeOK
  <2> QED
    BY <1>3, <2>1 DEF PodExit, storeVars
<1>4. ASSUME NEW a \in Accounts, LockExpire(a) \/ RestEnds(a) PROVE HandInv'
  BY <1>4 DEF LockExpire, RestEnds
<1>5. CASE UNCHANGED vars
  BY <1>5 DEF vars, storeVars
<1> QED
  BY <1>1, <1>2, <1>3, <1>4, <1>5 DEF Next

\* A lead in hand is claimed, and in one hand only, whoever restarts its campaign or skips
\* what the sheet has done meanwhile: claimNextLead of campaign-store.js.
THEOREM LeadHeldOnce == Spec => []LeadInHand
<1>1. HandInv => LeadInHand
  BY DEF HandInv
<1> QED
  BY TypeInit, TypeNext, HandInit, HandNext, <1>1, PTL DEF Spec

-----------------------------------------------------------------------------
(* What LinkedIn sees: invitations, credits, and the reach of a stop.      *)

\* A turn between its status check and the outcome of its lead.
WorkPCs == {"claim", "dup", "gate", "act"}

\* It comes there only from the status check, and goes on only one place at a time.
LEMMA WorkStep ==
  ASSUME TypeInv, NEW x \in Passes, PassStep(x) \/ StoreFails(x) \/ Abandon(x),
         pass'[x].pc \in WorkPCs
  PROVE  /\ pass'[x].camp = pass[x].camp /\ pass'[x].acct = pass[x].acct
         /\ \/ ReadStatus(x) /\ pass'[x].pc = "claim" /\ status[pass[x].camp] \in Active
            \/ ClaimNextLead(x) /\ pass[x].pc = "claim" /\ pass'[x].pc = "dup"
            \/ /\ pass'[x].hand = pass[x].hand
               /\ \/ NotActioned(x) /\ pass[x].pc = "dup" /\ pass'[x].pc = "gate"
                  \/ TakeCredit(x) /\ pass[x].pc = "gate" /\ pass'[x].pc = "act"
                  \/ Abandon(x) /\ pass[x].pc = pass'[x].pc
<1> USE DEF WorkPCs
<1>0. pass \in [Passes -> PassType] /\ Steps(x)
  BY AllSteps DEF TypeInv, TypeOK, PassType
<1>1. CASE SkipDuplicate(x) \/ Fails(x) \/ Stamp(x)
  <2>1. (NextLead(x, FALSE) \/ NextLead(x, pass[x].pc = "stampSent")) /\ pass[x].pc \in HandPCs
    BY <1>1 DEF SkipDuplicate, Fails, Stamp, HandPCs
  <2> QED
    BY <2>1, NextLeadSteps
<1>2. CASE NoCredit(x) \/ BackOff(x)
  BY <1>2, GiveBackSteps DEF NoCredit, BackOff, HandPCs
<1>3. CASE Sent(x) \/ AlreadyConnected(x) \/ NoLeadLeft(x)
  BY <1>0, <1>3 DEF Sent, AlreadyConnected, NoLeadLeft, PassType
<1>4. CASE Mark(x)
  <2>1. pass'[x].pc \in {"stampSent", "stampAlready"}
    BY <1>0, <1>4 DEF Mark, PassType
  <2> QED
    BY <2>1
<1>5. CASE (\E c \in Campaigns : Poll(x, c)) \/ Begin(x) \/ SkipBegin(x) \/ NoneFree(x)
  <2>1. pass'[x].pc \in {"listed", "select", "idle", "more"}
    <3>1. CASE \E c \in Campaigns : Poll(x, c)
      BY <1>0, <3>1 DEF Poll, PassType
    <3> QED
      BY <1>0, <1>5, <3>1 DEF Begin, SkipBegin, NoneFree, NoPass, PassType
  <2> QED
    BY <2>1
<1>6. CASE CheckAccount(x)
  BY <1>0, <1>6 DEF CheckAccount, PassType
<1>7. CASE AcquireAccount(x)
  <2>1. pass'[x].pc \in {"open", "select"}
    BY <1>0, <1>7 DEF AcquireAccount, PassType
  <2> QED
    BY <2>1
<1>8. CASE OpenSession(x) \/ ReleaseAccount(x) \/ More(x)
  <2>1. pass'[x].pc \in {"status", "close", "cool", "select", "final"}
    <3>1. CASE OpenSession(x)
      BY <1>0, <3>1 DEF OpenSession, PassType
    <3> QED
      BY <1>0, <1>8, <3>1 DEF ReleaseAccount, More, PassType
  <2> QED
    BY <2>1
<1>9. CASE Cool(x) \/ Final(x) \/ Transition(x)
  BY <1>0, <1>9 DEF Cool, Final, Transition, EndPass, NoPass, PassType
<1>10. CASE StoreFails(x)
  BY <1>0, <1>10 DEF StoreFails, EndPass, NoPass, PassType
<1>11. CASE Abandon(x)
  BY <1>0, <1>11 DEF Abandon, PassType
<1>12. CASE ReadStatus(x)
  <2>1. status[pass[x].camp] \in Active
    BY <1>0, <1>12 DEF ReadStatus, PassType
  <2> QED
    BY <1>0, <1>12, <2>1 DEF ReadStatus, PassType
<1>13. CASE ClaimNextLead(x)
  <2>1. pass[x].pc = "claim" /\ pass'[x].pc = "dup"
    BY <1>0, <1>13 DEF ClaimNextLead, PassType
  <2>2. pass'[x].camp = pass[x].camp /\ pass'[x].acct = pass[x].acct
    BY <1>0, <1>13 DEF ClaimNextLead, PassType
  <2> QED
    BY <1>13, <2>1, <2>2
<1>14. CASE NotActioned(x) \/ TakeCredit(x)
  BY <1>0, <1>14 DEF NotActioned, TakeCredit, PassType
<1> QED
  BY <1>1, <1>2, <1>3, <1>4, <1>5, <1>6, <1>7, <1>8, <1>9, <1>10, <1>11, <1>12, <1>13, <1>14
     DEF PassStep, TurnStep, LeadStep

\* A lead that waits, or that a turn has not yet acted on, was never invited.
UninvitedWaits  == \A l \in Leads : invites[l] <= 1
                                    /\ (lead[l] \in {"absent", "pending"} => invites[l] = 0)
UninvitedInHand == \A x \in Passes : pass[x].pc \in WorkPCs \ {"claim"} =>
                                         invites[pass[x].hand] = 0
ContactInv == UninvitedWaits /\ UninvitedInHand

\* Nobody is invited at the start.
LEMMA ContactInit == Init => ContactInv
  BY DEF Init, ContactInv, UninvitedWaits, UninvitedInHand, NoPass, WorkPCs

\* Every step invites only whom nobody invited.
LEMMA ContactNext == TypeInv /\ HandInv /\ ContactInv /\ [Next]_vars => ContactInv'
<1> SUFFICES ASSUME TypeInv, HandInv, ContactInv, [Next]_vars PROVE ContactInv'
  OBVIOUS
<1> USE DEF ContactInv, UninvitedWaits, UninvitedInHand
<1>0. /\ lead \in [Leads -> {"absent", "pending", "claimed", "sent", "skipped", "error"}]
      /\ invites \in [Leads -> Nat]
      /\ \A x \in Passes : pass[x].pc \in HandPCs => pass[x].hand \in Leads
  BY DEF TypeInv, TypeOK, PassInv, Shaped
<1>1. ASSUME NEW x \in Passes, PassStep(x) \/ StoreFails(x) \/ Abandon(x) PROVE ContactInv'
  <2>1. \A y \in Passes \ {x} : pass'[y] = pass[y]
    BY <1>1, AllSteps DEF Steps
  <2>2. ASSUME NEW y \in Passes \ {x}, pass[x].pc \in HandPCs, pass[y].pc \in WorkPCs \ {"claim"}
        PROVE  pass[y].hand # pass[x].hand /\ pass[y].hand \in Leads
    <3>1. pass[x].hand \in Leads /\ pass[y].hand \in Leads
      BY <1>0, <2>2 DEF HandPCs, WorkPCs
    <3> QED
      BY <3>1, NonesAssumption DEF HandInv, LeadInHand
  <2>3. CASE Sent(x) \/ Fails(x)
    <3> DEFINE h == pass[x].hand
    <3>1. pass[x].pc = "act" /\ h \in Leads
      BY <1>0, <2>3 DEF Sent, Fails, HandPCs
    <3>2. invites[h] = 0 /\ (invites' = invites \/ invites' = [invites EXCEPT ![h] = @ + 1])
      BY <2>3, <3>1 DEF Sent, Fails, Invite, worldVars, WorkPCs
    <3>3. lead[h] = "claimed"
      BY <3>1, NonesAssumption DEF HandInv, LeadInHand
    <3>4. \A l \in Leads : /\ l # h => lead'[l] = lead[l] /\ invites'[l] = invites[l]
                           /\ l = h => lead'[l] \in {"claimed", "error"} /\ invites'[l] <= 1
      <4>1. lead' = lead \/ lead' = [lead EXCEPT ![h] = "error"]
        BY <2>3 DEF Sent, Fails, storeVars
      <4>2. \A l \in Leads : /\ l # h => lead'[l] = lead[l]
                             /\ l = h => lead'[l] \in {"claimed", "error"}
        BY <1>0, <3>1, <3>3, <4>1
      <4>3. \A l \in Leads : /\ l # h => invites'[l] = invites[l]
                             /\ l = h => invites'[l] <= 1
        BY <1>0, <3>1, <3>2
      <4> QED
        BY <4>2, <4>3
    <3>5. UninvitedWaits'
      BY <3>4
    <3>6. pass'[x].pc \notin WorkPCs
      <4>1. ~ReadStatus(x) /\ ~ClaimNextLead(x) /\ ~NotActioned(x) /\ ~TakeCredit(x)
        BY <3>1 DEF ReadStatus, ClaimNextLead, NotActioned, TakeCredit
      <4>2. CASE Sent(x)
        BY <4>2 DEF Sent, WorkPCs, TypeInv, TypeOK
      <4>3. CASE Fails(x)
        <5>1. pass'[x].pc \in {"close", "status"}
          BY <3>1, <4>3, NextLeadSteps DEF Fails, HandPCs
        <5> QED
          BY <5>1 DEF WorkPCs
      <4> QED
        BY <2>3, <4>2, <4>3
    <3>7. UninvitedInHand'
      BY <2>1, <2>2, <3>1, <3>4, <3>6 DEF HandPCs
    <3> QED
      BY <3>5, <3>7
  <2>4. CASE ~Sent(x) /\ ~Fails(x)
    <3>1. invites' = invites
      BY <1>1, <2>4
         DEF PassStep, TurnStep, LeadStep, Poll, Begin, SkipBegin, CheckAccount, NoneFree,
             AcquireAccount, OpenSession, ReadStatus, ClaimNextLead, NoLeadLeft, SkipDuplicate,
             NotActioned, TakeCredit, NoCredit, AlreadyConnected, BackOff, Mark, Stamp,
             ReleaseAccount, Cool, More, Final, Transition, StoreFails, Abandon, worldVars
    <3>2. UninvitedWaits'
      <4>1. CASE Keeps(x)
        BY <3>1, <4>1 DEF Keeps
      <4>2. CASE ClaimNextLead(x)
        BY <1>0, <3>1, <4>2 DEF ClaimNextLead
      <4>3. CASE NoCredit(x) \/ BackOff(x)
        <5>1. pass[x].pc \in {"gate", "act"} /\ lead' = [lead EXCEPT ![pass[x].hand] = "pending"]
          BY <4>3 DEF NoCredit, BackOff, GiveBack
        <5>2. invites[pass[x].hand] = 0
          BY <5>1 DEF WorkPCs
        <5> QED
          BY <1>0, <3>1, <5>1, <5>2
      <4>4. CASE SkipDuplicate(x) \/ Stamp(x)
        <5>1. \E v \in {"skipped", "sent"} : lead' = [lead EXCEPT ![pass[x].hand] = v]
          BY <4>4 DEF SkipDuplicate, Stamp
        <5> QED
          BY <1>0, <3>1, <5>1
      <4> QED
        BY <1>1, <2>4, <4>1, <4>2, <4>3, <4>4, LeadEffect DEF Settling
    <3>3. ASSUME pass'[x].pc \in WorkPCs \ {"claim"} PROVE invites'[pass'[x].hand] = 0
      <4>1. CASE ClaimNextLead(x)
        <5>1. PICK l \in Claimable(x) : pass' = [pass EXCEPT ![x].pc = "dup", ![x].hand = l]
          BY <4>1 DEF ClaimNextLead
        <5>2. pass'[x].hand = l
          BY <5>1 DEF TypeInv, TypeOK
        <5>3. l \in Leads /\ lead[l] = "pending"
          BY <5>1 DEF Claimable, Pending, LeadsOf
        <5> QED
          BY <3>1, <5>2, <5>3
      <4>2. CASE ~ClaimNextLead(x)
        <5>1. pass'[x].hand = pass[x].hand /\ pass[x].pc \in WorkPCs \ {"claim"}
          BY <1>1, <3>3, <4>2, WorkStep DEF WorkPCs
        <5> QED
          BY <3>1, <5>1
      <4> QED
        BY <4>1, <4>2
    <3>4. UninvitedInHand'
      BY <2>1, <3>1, <3>3
    <3> QED
      BY <3>2, <3>4
  <2> QED
    BY <2>3, <2>4
<1>2. ASSUME NEW c \in Campaigns, Operator(c) PROVE ContactInv'
  <2>1. pass' = pass /\ invites' = invites
    BY <1>2 DEF Operator, CreateCampaign, AddLeads, SkipActioned, Stop, Resume, Restart, worldVars
  <2>2. CASE AddLeads(c)
    BY <2>1, <2>2 DEF AddLeads, HandInv, LeadsAppear, LeadsOf
  <2>3. CASE SkipActioned(c) \/ Restart(c)
    BY <2>1, <2>3 DEF SkipActioned, Restart, SkipElsewhere, Pending
  <2>4. CASE CreateCampaign(c) \/ Stop(c) \/ Resume(c)
    BY <2>1, <2>4 DEF CreateCampaign, Stop, Resume
  <2> QED
    BY <1>2, <2>2, <2>3, <2>4 DEF Operator
<1>3. ASSUME NEW p \in Pods, PodExit(p) PROVE ContactInv'
  <2>1. \A y \in Passes : pass'[y] = pass[y] \/ pass'[y].pc = "idle"
    BY <1>3 DEF PodExit, NoPass, TypeInv, TypeOK
  <2> QED
    BY <1>3, <2>1 DEF PodExit, storeVars, worldVars, WorkPCs
<1>4. ASSUME NEW a \in Accounts, LockExpire(a) \/ RestEnds(a) PROVE ContactInv'
  BY <1>4 DEF LockExpire, RestEnds, worldVars
<1>5. CASE UNCHANGED vars
  BY <1>5 DEF vars, storeVars, worldVars
<1> QED
  BY <1>1, <1>2, <1>3, <1>4, <1>5 DEF Next

\* No row is invited twice, whatever fails between the invitation and its mark, and an
\* invited row is never in the queue again: runTurn and markLead.
THEOREM InvitedOnce == Spec => []ContactedOnce
<1>1. TypeInv /\ ContactInv => ContactedOnce
  BY DEF TypeInv, TypeOK, ContactInv, UninvitedWaits, ContactedOnce
<1> QED
  BY TypeInit, TypeNext, HandInit, HandNext, ContactInit, ContactNext, <1>1, PTL DEF Spec

\* Who is about to act on the page has a credit that no invitation has used up; every credit
\* was taken under the limit of a campaign that has the account.
CreditHeld == \A x \in Passes : pass[x].pc = "act" => sends[pass[x].acct] < credit[pass[x].acct]
CreditInv  == DailyCap /\ CreditHeld

\* Nothing is sent at the start.
LEMMA CreditInit == Init => CreditInv
  BY DEF Init, CreditInv, CreditHeld, DailyCap, NoPass

\* Every step keeps the invitations within the credits.
LEMMA CreditNext == TypeInv /\ LockInv /\ CreditInv /\ [Next]_vars => CreditInv'
<1> SUFFICES ASSUME TypeInv, LockInv, CreditInv, [Next]_vars PROVE CreditInv'
  OBVIOUS
<1> USE DEF CreditInv, CreditHeld, DailyCap
<1>0. credit \in [Accounts -> Nat] /\ sends \in [Accounts -> Nat]
      /\ \A c \in Campaigns : LimitOf[c] \in Nat
  BY MapsAssumption DEF TypeInv, TypeOK
<1>1. ASSUME NEW x \in Passes, PassStep(x) \/ StoreFails(x) \/ Abandon(x) PROVE CreditInv'
  <2>1. \A y \in Passes \ {x} : pass'[y] = pass[y]
    BY <1>1, AllSteps DEF Steps
  <2> DEFINE a == pass[x].acct
             c == pass[x].camp
  <2>2. pass[x].pc \in {"gate", "act"} => a \in Accounts /\ a \in AccountsOf[c] /\ c \in Campaigns
    BY DEF TypeInv, PassInv, Shaped, AcctPCs, InTurn
  <2>3. ASSUME NEW y \in Passes \ {x}, pass[x].pc = "act", pass[y].pc = "act"
        PROVE  pass[y].acct # a
    BY <2>2, <2>3 DEF LockInv, AccountExclusive, Holds, InTurn
  <2>4. \A y \in Passes : pass[y].pc = "act" => pass[y].acct \in Accounts
    BY DEF TypeInv, PassInv, Shaped, AcctPCs, InTurn
  <2>5. CASE TakeCredit(x)
    <3>1. /\ pass[x].pc = "gate" /\ credit[a] < LimitOf[c]
          /\ credit' = [credit EXCEPT ![a] = @ + 1] /\ sends' = sends
      BY <2>5 DEF TakeCredit, worldVars
    <3>2. \A b \in Accounts : /\ b # a => credit'[b] = credit[b]
                              /\ b = a => credit'[b] = credit[b] + 1
      BY <1>0, <2>2, <3>1
    <3>3. pass'[x].acct = a
      BY <2>5 DEF TakeCredit, TypeInv, TypeOK
    <3>4. CreditHeld'
      BY <1>0, <2>1, <2>2, <2>4, <3>1, <3>2, <3>3
    <3>5. ASSUME NEW b \in Accounts
          PROVE  /\ sends'[b] <= credit'[b]
                 /\ credit'[b] > 0 => \E d \in Campaigns : b \in AccountsOf[d] /\ credit'[b] <= LimitOf[d]
      <4>1. CASE b = a
        <5>1. credit'[b] <= LimitOf[c] /\ sends'[b] <= credit'[b]
          BY <1>0, <2>2, <3>1, <3>2, <4>1
        <5> QED
          BY <2>2, <3>1, <4>1, <5>1
      <4>2. CASE b # a
        BY <3>1, <3>2, <4>2
      <4> QED
        BY <4>1, <4>2
    <3> QED
      BY <3>4, <3>5
  <2>6. CASE Sent(x) \/ AlreadyConnected(x) \/ Fails(x)
    <3>1. pass[x].pc = "act" /\ sends[a] < credit[a] /\ a \in Accounts
      BY <2>2, <2>6 DEF Sent, AlreadyConnected, Fails
    <3>2. pass'[x].pc # "act"
      <4>1. CASE Sent(x) \/ AlreadyConnected(x)
        BY <4>1 DEF Sent, AlreadyConnected, TypeInv, TypeOK
      <4>2. CASE Fails(x)
        <5>1. pass'[x].pc \in {"close", "status"}
          BY <3>1, <4>2, NextLeadSteps DEF Fails, HandPCs
        <5> QED
          BY <5>1
      <4> QED
        BY <2>6, <4>1, <4>2
    <3>3. \/ credit' = credit /\ (sends' = sends \/ sends' = [sends EXCEPT ![a] = @ + 1])
          \/ sends' = sends /\ credit' = [credit EXCEPT ![a] = IF @ > 0 THEN @ - 1 ELSE @]
      BY <2>6 DEF Sent, AlreadyConnected, Fails, Invite, worldVars, storeVars
    <3>4. \A b \in Accounts : /\ b # a => credit'[b] = credit[b] /\ sends'[b] = sends[b]
                              /\ b = a => sends'[b] <= credit'[b] /\ credit'[b] <= credit[b]
                              /\ credit'[b] \in Nat
      BY <1>0, <3>1, <3>3
    <3>5. CreditHeld'
      BY <2>1, <2>3, <2>4, <3>1, <3>2, <3>4
    <3>6. ASSUME NEW b \in Accounts
          PROVE  /\ sends'[b] <= credit'[b]
                 /\ credit'[b] > 0 => \E d \in Campaigns : b \in AccountsOf[d] /\ credit'[b] <= LimitOf[d]
      <4>1. sends'[b] <= credit'[b]
        BY <3>4
      <4>2. ASSUME credit'[b] > 0
            PROVE  \E d \in Campaigns : b \in AccountsOf[d] /\ credit'[b] <= LimitOf[d]
        <5>1. credit[b] > 0 /\ credit'[b] <= credit[b] /\ credit'[b] \in Nat /\ credit[b] \in Nat
          BY <1>0, <3>4, <4>2
        <5>2. PICK d \in Campaigns : b \in AccountsOf[d] /\ credit[b] <= LimitOf[d]
          BY <5>1
        <5> QED
          BY <1>0, <5>1, <5>2
      <4> QED
        BY <4>1, <4>2
    <3> QED
      BY <3>5, <3>6
  <2>7. CASE ~TakeCredit(x) /\ ~Sent(x) /\ ~AlreadyConnected(x) /\ ~Fails(x)
    <3>1. credit' = credit /\ sends' = sends
      BY <1>1, <2>7
         DEF PassStep, TurnStep, LeadStep, Poll, Begin, SkipBegin, CheckAccount, NoneFree,
             AcquireAccount, OpenSession, ReadStatus, ClaimNextLead, NoLeadLeft, SkipDuplicate,
             NotActioned, NoCredit, BackOff, Mark, Stamp, ReleaseAccount, Cool, More, Final,
             Transition, StoreFails, Abandon, storeVars, worldVars
    <3>2. pass'[x].pc = "act" => pass[x].pc = "act" /\ pass'[x].acct = a
      BY <1>1, <2>7, WorkStep DEF WorkPCs
    <3> QED
      BY <2>1, <3>1, <3>2
  <2> QED
    BY <2>5, <2>6, <2>7
<1>2. ASSUME NEW c \in Campaigns, Operator(c) PROVE CreditInv'
  BY <1>2 DEF Operator, CreateCampaign, AddLeads, SkipActioned, Stop, Resume, Restart, worldVars
<1>3. ASSUME NEW p \in Pods, PodExit(p) PROVE CreditInv'
  <2>1. \A y \in Passes : pass'[y] = pass[y] \/ pass'[y].pc = "idle"
    BY <1>3 DEF PodExit, NoPass, TypeInv, TypeOK
  <2> QED
    BY <1>3, <2>1 DEF PodExit, storeVars, worldVars
<1>4. ASSUME NEW a \in Accounts, LockExpire(a) \/ RestEnds(a) PROVE CreditInv'
  BY <1>4 DEF LockExpire, RestEnds, worldVars
<1>5. CASE UNCHANGED vars
  BY <1>5 DEF vars, storeVars, worldVars
<1> QED
  BY <1>1, <1>2, <1>3, <1>4, <1>5 DEF Next

\* An account never sends more invitations in a day than it has credits, and its credits
\* never exceed the limit of the most generous of its campaigns, through refunds, errors and
\* deaths between the credit and the invitation: tryConsumeDailySend and refundDailySend.
THEOREM InvitationsCovered == Spec => []DailyCap
<1>1. CreditInv => DailyCap
  BY DEF CreditInv
<1> QED
  BY TypeInit, TypeNext, LockInit, LockNext, CreditInit, CreditNext, <1>1, PTL DEF Spec

\* A pass works for the campaign it was listed with.
LEMMA CampaignStep ==
  ASSUME TypeInv, NEW x \in Passes, PassStep(x) \/ StoreFails(x) \/ Abandon(x)
  PROVE  \/ pass'[x].camp = pass[x].camp /\ pass[x].pc # "idle"
         \/ pass'[x].camp = NoCampaign /\ pass'[x].pc = "idle"
         \/ \E c \in Campaigns : Poll(x, c) /\ pass'[x].camp = c
<1>0. pass \in [Passes -> PassType]
  BY DEF TypeInv, TypeOK, PassType
<1>1. CASE LeadStep(x) \/ ReadStatus(x) \/ NoLeadLeft(x)
  <2>1. pass[x].pc # "idle"
    BY <1>1 DEF LeadStep, ReadStatus, NoLeadLeft, SkipDuplicate, NotActioned, TakeCredit, NoCredit,
                Sent, AlreadyConnected, BackOff, Fails, Mark, Stamp
  <2> QED
    BY <1>1, <2>1, LeadSteps
<1>2. ASSUME NEW c \in Campaigns, Poll(x, c) PROVE pass'[x].camp = c
  BY <1>0, <1>2 DEF Poll, PassType
<1>3. CASE Begin(x) \/ SkipBegin(x) \/ NoneFree(x)
  BY <1>0, <1>3 DEF Begin, SkipBegin, NoneFree, NoPass, PassType
<1>4. CASE CheckAccount(x)
  BY <1>0, <1>4 DEF CheckAccount, PassType
<1>5. CASE AcquireAccount(x)
  BY <1>0, <1>5 DEF AcquireAccount, PassType
<1>6. CASE OpenSession(x) \/ ReleaseAccount(x) \/ More(x)
  <2>1. pass[x].pc # "idle"
    BY <1>6 DEF OpenSession, ReleaseAccount, More
  <2>2. CASE OpenSession(x)
    BY <1>0, <2>1, <2>2 DEF OpenSession, PassType
  <2>3. CASE ReleaseAccount(x) \/ More(x)
    BY <1>0, <2>1, <2>3 DEF ReleaseAccount, More, PassType
  <2> QED
    BY <1>6, <2>2, <2>3
<1>7. CASE ClaimNextLead(x)
  BY <1>0, <1>7 DEF ClaimNextLead, PassType
<1>8. CASE Cool(x) \/ Final(x) \/ Transition(x)
  BY <1>0, <1>8 DEF Cool, Final, Transition, EndPass, NoPass, PassType
<1>9. CASE StoreFails(x)
  BY <1>0, <1>9 DEF StoreFails, EndPass, NoPass, PassType, InTurn
<1>10. CASE Abandon(x)
  BY <1>0, <1>10 DEF Abandon, PassType
<1> QED
  BY <1>1, <1>2, <1>3, <1>4, <1>5, <1>6, <1>7, <1>8, <1>9, <1>10 DEF PassStep, TurnStep

\* Nobody works for a campaign before it exists; a pass that has invited a lead of a stopped
\* campaign is past its status check, and the campaign is still stopped.
NobodyEarly == \A c \in Campaigns : starting[c] = "create" =>
                   status[c] = "absent" /\ \A x \in Passes : pass[x].camp # c
LateIsStopped == \A x \in Passes :
    /\ late[x] \in {0, 1}
    /\ late[x] = 1 /\ pass[x].pc # "idle" =>
           pass[x].pc \notin WorkPCs /\ status[pass[x].camp] \notin Active
StopInv == NobodyEarly /\ LateIsStopped

\* Nothing is late at the start.
LEMMA StopInit == Init => StopInv
  BY NonesAssumption DEF Init, StopInv, NobodyEarly, LateIsStopped, NoPass

\* Every step keeps the reach of a stop.
LEMMA StopNext == TypeInv /\ StopInv /\ [Next]_vars => StopInv'
<1> SUFFICES ASSUME TypeInv, StopInv, [Next]_vars PROVE StopInv'
  OBVIOUS
<1> USE DEF StopInv, NobodyEarly, LateIsStopped
<1>0. /\ status \in [Campaigns -> Active \union Halted \union {"absent", "ended"}]
      /\ late \in [Passes -> Nat]
      /\ \A x \in Passes : IF pass[x].pc = "idle" THEN pass[x].camp = NoCampaign
                           ELSE pass[x].camp \in Campaigns
  BY DEF TypeInv, TypeOK, PassInv, Shaped
<1>1. ASSUME NEW x \in Passes, PassStep(x) \/ StoreFails(x) \/ Abandon(x) PROVE StopInv'
  <2> DEFINE c == pass[x].camp
  <2>1. \A y \in Passes \ {x} : pass'[y] = pass[y]
    BY <1>1, AllSteps DEF Steps
  <2>2. starting' = starting
    BY <1>1
       DEF PassStep, TurnStep, LeadStep, Poll, Begin, SkipBegin, CheckAccount, NoneFree,
           AcquireAccount, OpenSession, ReadStatus, ClaimNextLead, NoLeadLeft, SkipDuplicate,
           NotActioned, TakeCredit, NoCredit, Sent, AlreadyConnected, BackOff, Fails, Mark, Stamp,
           ReleaseAccount, Cool, More, Final, Transition, StoreFails, Abandon, storeVars
  <2>3. \/ Begin(x)
        \/ Transition(x)
        \/ status' = status
    BY <1>1
       DEF PassStep, TurnStep, LeadStep, Poll, SkipBegin, CheckAccount, NoneFree, AcquireAccount,
           OpenSession, ReadStatus, ClaimNextLead, NoLeadLeft, SkipDuplicate, NotActioned,
           TakeCredit, NoCredit, Sent, AlreadyConnected, BackOff, Fails, Mark, Stamp,
           ReleaseAccount, Cool, More, Final, StoreFails, Abandon, storeVars
  <2>4. \A d \in Campaigns : status'[d] = status[d] \/ (d = c /\ pass[x].pc # "idle")
    BY <1>0, <2>3 DEF Begin, Transition, SetActive
  <2>5. NobodyEarly'
    <3> SUFFICES ASSUME NEW d \in Campaigns, starting[d] = "create"
                 PROVE  status'[d] = "absent" /\ \A y \in Passes : pass'[y].camp # d
      BY <2>2
    <3>1. status[d] = "absent" /\ \A y \in Passes : pass[y].camp # d
      OBVIOUS
    <3>2. pass'[x].camp # d
      <4>1. ~Poll(x, d)
        BY <3>1 DEF Poll, Active
      <4> QED
        BY <1>1, <3>1, <4>1, CampaignStep, NonesAssumption
    <3> QED
      BY <2>1, <2>4, <3>1, <3>2
  <2>6. CASE Sent(x) \/ Fails(x)
    <3>1. pass[x].pc = "act" /\ late[x] = 0
      BY <2>6 DEF Sent, Fails, WorkPCs
    <3>2. \/ late' = late
          \/ status[c] \notin Active /\ late' = [late EXCEPT ![x] = @ + 1]
      BY <2>6 DEF Sent, Fails, Invite, worldVars
    <3>3. pass'[x].pc \notin WorkPCs /\ pass'[x].camp = c
      <4>1. CASE Sent(x)
        BY <4>1 DEF Sent, WorkPCs, TypeInv, TypeOK
      <4>2. CASE Fails(x)
        BY <3>1, <4>2, NextLeadSteps DEF Fails, HandPCs, WorkPCs
      <4> QED
        BY <2>6, <4>1, <4>2
    <3>4. status' = status
      BY <2>6 DEF Sent, Fails, storeVars
    <3>5. \A y \in Passes : /\ y # x => late'[y] = late[y]
                            /\ y = x => late'[y] = 0 \/ (late'[y] = 1 /\ status[c] \notin Active)
      BY <1>0, <3>1, <3>2
    <3>6. LateIsStopped'
      BY <2>1, <3>3, <3>4, <3>5
    <3> QED
      BY <2>5, <3>6
  <2>7. CASE ~Sent(x) /\ ~Fails(x)
    <3>1. \A y \in Passes : late'[y] \in {0, late[y]}
      <4>1. CASE \E d \in Campaigns : Poll(x, d)
        BY <1>0, <4>1 DEF Poll
      <4>2. CASE Begin(x)
        BY <1>0, <4>2 DEF Begin, SetActive
      <4>3. CASE ~(\E d \in Campaigns : Poll(x, d)) /\ ~Begin(x)
        <5>1. late' = late
          BY <1>1, <2>7, <4>3
             DEF PassStep, TurnStep, LeadStep, SkipBegin, CheckAccount, NoneFree, AcquireAccount,
                 OpenSession, ReadStatus, ClaimNextLead, NoLeadLeft, SkipDuplicate, NotActioned,
                 TakeCredit, NoCredit, AlreadyConnected, BackOff, Mark, Stamp, ReleaseAccount, Cool,
                 More, Final, Transition, StoreFails, Abandon, worldVars
        <5> QED
          BY <5>1
      <4> QED
        BY <4>1, <4>2, <4>3
    <3>2. ASSUME NEW y \in Passes, late'[y] = 1, pass[y].pc # "idle"
          PROVE  status'[pass[y].camp] \notin Active
      <4>1. late[y] = 1 /\ status[pass[y].camp] \notin Active /\ pass[y].camp \in Campaigns
        BY <1>0, <3>1, <3>2
      <4>2. CASE Begin(x)
        <5>1. CASE pass[x].queued
          <6>1. pass[y].camp # c
            BY <3>2, <4>2, <5>1 DEF Begin, SetActive
          <6> QED
            BY <2>4, <4>1, <6>1
        <5>2. CASE ~pass[x].queued
          BY <4>1, <4>2, <5>2 DEF Begin
        <5> QED
          BY <5>1, <5>2
      <4>3. CASE Transition(x)
        BY <1>0, <4>1, <4>3 DEF Transition, Active
      <4> QED
        BY <2>3, <4>1, <4>2, <4>3
    <3>3. ASSUME late'[x] = 1, pass'[x].pc # "idle"
          PROVE  pass'[x].pc \notin WorkPCs /\ status'[pass'[x].camp] \notin Active
      <4>1. \A d \in Campaigns : ~Poll(x, d)
        BY <3>3 DEF Poll, TypeInv, TypeOK
      <4>2. pass'[x].camp = c /\ pass[x].pc # "idle"
        BY <1>1, <3>3, <4>1, CampaignStep
      <4>3. late[x] = 1
        BY <3>1, <3>3
      <4>4. pass[x].pc \notin WorkPCs /\ status[c] \notin Active
        BY <4>2, <4>3
      <4>5. pass'[x].pc \notin WorkPCs
        BY <1>1, <4>4, WorkStep DEF WorkPCs
      <4> QED
        BY <3>2, <3>3, <4>2, <4>5
    <3>4. LateIsStopped'
      BY <2>1, <3>1, <3>2, <3>3
    <3> QED
      BY <2>5, <3>4
  <2> QED
    BY <2>6, <2>7
<1>2. ASSUME NEW c \in Campaigns, Operator(c) PROVE StopInv'
  <2>1. pass' = pass
    BY <1>2 DEF Operator, CreateCampaign, AddLeads, SkipActioned, Stop, Resume, Restart
  <2>2. CASE CreateCampaign(c)
    BY <1>0, <2>1, <2>2 DEF CreateCampaign, worldVars, TypeInv, TypeOK
  <2>3. CASE AddLeads(c) \/ SkipActioned(c)
    BY <1>0, <2>1, <2>3 DEF AddLeads, SkipActioned, worldVars, TypeInv, TypeOK
  <2>4. CASE Stop(c)
    <3>1. \A d \in Campaigns : status'[d] = status[d] \/ (d = c /\ status'[d] \notin Active)
      BY <1>0, <2>4 DEF Stop, Active, Halted
    <3>2. status[c] # "absent" /\ UNCHANGED <<starting, late>>
      BY <2>4 DEF Stop, worldVars
    <3> QED
      BY <1>0, <2>1, <3>1, <3>2
  <2>5. CASE Resume(c) \/ Restart(c)
    <3>1. status[c] # "absent" /\ starting' = starting
      BY <2>5 DEF Resume, Restart
    <3>2. \A d \in Campaigns : d # c => status'[d] = status[d]
      BY <1>0, <2>5 DEF Resume, Restart, SetActive
    <3>3. \A y \in Passes : late'[y] = IF pass[y].camp = c THEN 0 ELSE late[y]
      BY <2>5 DEF Resume, Restart, SetActive
    <3> QED
      BY <1>0, <2>1, <3>1, <3>2, <3>3
  <2> QED
    BY <1>2, <2>2, <2>3, <2>4, <2>5 DEF Operator
<1>3. ASSUME NEW p \in Pods, PodExit(p) PROVE StopInv'
  <2>1. \A y \in Passes : pass'[y] = pass[y] \/ (pass'[y].pc = "idle" /\ pass'[y].camp = NoCampaign)
    BY <1>3 DEF PodExit, NoPass, TypeInv, TypeOK
  <2> QED
    BY <1>3, <2>1, NonesAssumption DEF PodExit, storeVars, worldVars
<1>4. ASSUME NEW a \in Accounts, LockExpire(a) \/ RestEnds(a) PROVE StopInv'
  BY <1>4 DEF LockExpire, RestEnds, worldVars
<1>5. CASE UNCHANGED vars
  BY <1>5 DEF vars, storeVars, worldVars
<1> QED
  BY <1>1, <1>2, <1>3, <1>4, <1>5 DEF Next

\* However often campaigns are stopped, resumed and restarted while passes run, a pass sends
\* at most one invitation of a campaign after it was stopped: the status check of runTurn.
THEOREM OneAfterStop == Spec => []StopsAfterLead
<1>1. StopInv => StopsAfterLead
  BY DEF StopInv, LateIsStopped, StopsAfterLead
<1> QED
  BY TypeInit, TypeNext, StopInit, StopNext, <1>1, PTL DEF Spec

-----------------------------------------------------------------------------
(* What a person sees: one invitation per account.                         *)

\* The accounts whose turn is at one of the places S with a row of the person k.
AcctsAt(k, S) == {pass[x].acct : x \in {y \in Passes : pass[y].pc \in S /\ KeyOf(pass[y].hand) = k}}

\* Turns that found the person unmarked and have not invited, and turns that have and are
\* about to set the mark.
Deciding(k) == AcctsAt(k, {"gate", "act"})
Unmarked(k) == AcctsAt(k, {"markSent"})

\* A lead in hand belongs to the campaign of its pass.
HandOfCampaign == \A x \in Passes : pass[x].pc \in HandPCs => CampaignOf[pass[x].hand] = pass[x].camp

\* The number of the campaign's accounts, of the person's invited rows and of its turns.
Width(k)    == Cardinality(AccountsOf[k[1]])
Got(k)      == Cardinality(Invited(k))
Deciders(k) == Cardinality(Deciding(k))
Markers(k)  == Cardinality(Unmarked(k))

\* Before the mark, only turns about to set it and faults have invited the person; and
\* the invitations that are still decided on fit into the budget.
Counted(k) == /\ IsFiniteSet(Invited(k))
              /\ k \notin marks => Got(k) <= Markers(k) + Width(k) * faults
              /\ Got(k) + Deciders(k) <= Width(k) + Width(k) * faults
PersonInv == HandOfCampaign /\ \A k \in Campaigns \X Persons : Counted(k)

\* Each turn with a row of the person is on an account of its own, which the campaign has.
LEMMA Crowd ==
  ASSUME IsFiniteSet(Accounts), TypeInv, LockInv, HandOfCampaign, NEW k \in Campaigns \X Persons
  PROVE  /\ Width(k) \in Nat /\ Deciders(k) \in Nat /\ Markers(k) \in Nat
         /\ IsFiniteSet(Deciding(k)) /\ IsFiniteSet(Unmarked(k))
         /\ Deciders(k) + Markers(k) <= Width(k)
         /\ \A x \in Passes : pass[x].pc \in HandPCs /\ KeyOf(pass[x].hand) = k
                => /\ pass[x].acct \in AccountsOf[k[1]] /\ Width(k) >= 1
                   /\ pass[x].pc = "dup" => Deciders(k) + Markers(k) + 1 <= Width(k)
                                            /\ pass[x].acct \notin Deciding(k)
                   /\ pass[x].pc = "act" => pass[x].acct \in Deciding(k) /\ pass[x].acct \notin Unmarked(k)
<1> DEFINE A == AccountsOf[k[1]]
           D == Deciding(k)
           U == Unmarked(k)
           Own(x) == pass[x].pc \in HandPCs /\ KeyOf(pass[x].hand) = k
<1>1. A \subseteq Accounts /\ IsFiniteSet(A)
  BY MapsAssumption, FS_Subset
<1>2. ASSUME NEW x \in Passes, Own(x) PROVE pass[x].acct \in A /\ pass[x].acct \in Accounts
  <2>1. pass[x].hand \in Leads /\ CampaignOf[pass[x].hand] = k[1]
    BY <1>2 DEF TypeInv, PassInv, Shaped, KeyOf
  <2>2. pass[x].pc \in AcctPCs /\ pass[x].camp = k[1]
    BY <1>2, <2>1 DEF HandOfCampaign, HandPCs, AcctPCs, InTurn
  <2> QED
    BY <2>2 DEF TypeInv, PassInv, Shaped
<1>3. ASSUME NEW x \in Passes, Own(x), NEW y \in Passes, Own(y), pass[x].acct = pass[y].acct
      PROVE  x = y
  <2>1. Holds(x, pass[x].acct) /\ Holds(y, pass[x].acct) /\ pass[x].acct \in Accounts
    BY <1>2, <1>3 DEF Holds, HandPCs, InTurn
  <2> QED
    BY <2>1 DEF LockInv, AccountExclusive
<1>4. /\ \A a \in D : \E x \in Passes : Own(x) /\ pass[x].acct = a /\ pass[x].pc \in {"gate", "act"}
      /\ \A a \in U : \E x \in Passes : Own(x) /\ pass[x].acct = a /\ pass[x].pc = "markSent"
  BY DEF Deciding, Unmarked, AcctsAt, HandPCs
<1>5. \A x \in Passes : Own(x) /\ pass[x].pc \in {"gate", "act"} => pass[x].acct \in D
  BY DEF Deciding, AcctsAt
<1> HIDE DEF D, U, A, Own
<1>6. D \subseteq A /\ U \subseteq A /\ D \cap U = {}
  <2>1. D \subseteq A /\ U \subseteq A
    BY <1>2, <1>4
  <2>2. ASSUME NEW a \in D, a \in U PROVE FALSE
    BY <1>3, <1>4, <2>2
  <2> QED
    BY <2>1, <2>2
<1>7. IsFiniteSet(D) /\ IsFiniteSet(U)
  BY <1>1, <1>6, FS_Subset
<1>8. /\ Cardinality(A) \in Nat /\ Cardinality(D) \in Nat /\ Cardinality(U) \in Nat
      /\ Cardinality(D \union U) = Cardinality(D) + Cardinality(U)
      /\ IsFiniteSet(D \union U)
  <2>1. Cardinality(D \union U) = Cardinality(D) + Cardinality(U) - Cardinality(D \cap U)
    BY <1>7, FS_Union
  <2>2. Cardinality(D \cap U) = 0
    BY <1>6, FS_EmptySet
  <2>3. IsFiniteSet(D \union U)
    BY <1>7, FS_Union
  <2>4. Cardinality(A) \in Nat /\ Cardinality(D) \in Nat /\ Cardinality(U) \in Nat
    BY <1>1, <1>7, FS_CardinalityType
  <2> QED
    BY <2>1, <2>2, <2>3, <2>4
<1>9. Cardinality(D) + Cardinality(U) <= Cardinality(A)
  <2>1. Cardinality(D \union U) <= Cardinality(A)
    BY <1>1, <1>6, FS_Subset
  <2> QED
    BY <1>8, <2>1
<1>10. ASSUME NEW x \in Passes, Own(x)
       PROVE  /\ pass[x].acct \in A /\ Cardinality(A) >= 1
              /\ pass[x].pc = "dup" => /\ Cardinality(D) + Cardinality(U) + 1 <= Cardinality(A)
                                       /\ pass[x].acct \notin D
              /\ pass[x].pc = "act" => pass[x].acct \in D /\ pass[x].acct \notin U
  <2>1. pass[x].acct \in A
    BY <1>2, <1>10
  <2>2. Cardinality(A) >= 1
    BY <1>1, <1>8, <2>1, FS_EmptySet
  <2>3. ASSUME pass[x].pc = "dup"
        PROVE  Cardinality(D) + Cardinality(U) + 1 <= Cardinality(A) /\ pass[x].acct \notin D
    <3> DEFINE W == D \union U
               a == pass[x].acct
    <3>1. a \notin W
      BY <1>3, <1>4, <1>10, <2>3
    <3>2. Cardinality(W \union {a}) = Cardinality(W) + 1 /\ IsFiniteSet(W \union {a})
      BY <1>8, <3>1, FS_AddElement
    <3>3. W \union {a} \subseteq A
      BY <1>6, <2>1
    <3>4. Cardinality(W \union {a}) <= Cardinality(A)
      BY <1>1, <3>3, FS_Subset
    <3> QED
      BY <1>8, <3>1, <3>2, <3>4
  <2>4. pass[x].pc = "act" => pass[x].acct \in D /\ pass[x].acct \notin U
    <3> SUFFICES ASSUME pass[x].pc = "act" PROVE pass[x].acct \in D /\ pass[x].acct \notin U
      OBVIOUS
    <3>1. pass[x].acct \in D
      BY <1>5, <1>10
    <3> QED
      BY <1>6, <3>1
  <2> QED
    BY <2>1, <2>2, <2>3, <2>4
<1> QED
  BY <1>7, <1>8, <1>9, <1>10 DEF Width, Deciders, Markers, D, U, A, Own

\* A turn has the row it claimed, and its campaign, to the end.
LEMMA HandOfCampaignStep ==
  ASSUME TypeInv, HandOfCampaign, NEW x \in Passes, PassStep(x) \/ StoreFails(x) \/ Abandon(x),
         pass'[x].pc \in HandPCs
  PROVE  CampaignOf[pass'[x].hand] = pass'[x].camp
<1>0. pass \in [Passes -> PassType] /\ Steps(x)
  BY AllSteps DEF TypeInv, TypeOK, PassType
<1>1. Shaped(pass[x]) /\ Shaped(pass'[x])
  BY <1>0 DEF TypeInv, PassInv, Steps
<1>2. pass'[x].hand \in Leads /\ pass'[x].hand # NoLead
  BY <1>1, NonesAssumption DEF Shaped
<1>3. CASE ClaimNextLead(x)
  <2>1. PICK l \in Claimable(x) : pass' = [pass EXCEPT ![x].pc = "dup", ![x].hand = l]
    BY <1>3 DEF ClaimNextLead
  <2>2. pass'[x].hand = l /\ pass'[x].camp = pass[x].camp
    BY <1>0, <2>1 DEF PassType
  <2>3. CampaignOf[l] = pass[x].camp
    BY <2>1 DEF Claimable, Pending, LeadsOf
  <2> QED
    BY <2>2, <2>3
<1>4. CASE ~ClaimNextLead(x)
  <2>1. pass'[x].hand = pass[x].hand
    BY <1>2, <1>4, LeadEffect DEF Keeps, Settles
  <2>2. pass[x].pc \in HandPCs
    BY <1>1, <1>2, <2>1 DEF Shaped
  <2>3. pass[x].pc # "idle" /\ pass'[x].pc # "idle"
    BY <2>2 DEF HandPCs
  <2>4. \A c \in Campaigns : ~Poll(x, c)
    BY <2>3 DEF Poll
  <2>5. pass'[x].camp = pass[x].camp
    BY <2>3, <2>4, CampaignStep
  <2> QED
    BY <2>1, <2>2, <2>5 DEF HandOfCampaign
<1> QED
  BY <1>3, <1>4

\* Only the invitation brings a turn to its mark, and only the mark or a fault takes it on.
LEMMA MarkStep ==
  ASSUME TypeInv, NEW x \in Passes, PassStep(x) \/ StoreFails(x) \/ Abandon(x)
  PROVE  /\ pass'[x].pc = "markSent" =>
               /\ pass'[x].hand = pass[x].hand /\ pass'[x].acct = pass[x].acct
               /\ Sent(x) \/ (Abandon(x) /\ pass[x].pc = "markSent")
         /\ pass[x].pc = "markSent" => Mark(x) \/ StoreFails(x) \/ Abandon(x)
<1>0. pass \in [Passes -> PassType] /\ Steps(x)
  BY AllSteps DEF TypeInv, TypeOK, PassType
<1>1. pass[x].pc = "markSent" => Mark(x) \/ StoreFails(x) \/ Abandon(x)
  BY DEF PassStep, TurnStep, LeadStep, Poll, Begin, SkipBegin, CheckAccount, NoneFree,
         AcquireAccount, OpenSession, ReadStatus, ClaimNextLead, NoLeadLeft, SkipDuplicate,
         NotActioned, TakeCredit, NoCredit, Sent, AlreadyConnected, BackOff, Fails, Stamp,
         ReleaseAccount, Cool, More, Final, Transition
<1>2. SUFFICES ASSUME pass'[x].pc = "markSent"
               PROVE  /\ pass'[x].hand = pass[x].hand /\ pass'[x].acct = pass[x].acct
                      /\ Sent(x) \/ (Abandon(x) /\ pass[x].pc = "markSent")
  BY <1>1
<1>3. CASE Sent(x) \/ Abandon(x)
  BY <1>0, <1>2, <1>3 DEF Sent, Abandon, PassType
<1>4. CASE SkipDuplicate(x) \/ Fails(x) \/ Stamp(x)
  <2>1. (NextLead(x, FALSE) \/ NextLead(x, pass[x].pc = "stampSent")) /\ pass[x].pc \in HandPCs
    BY <1>4 DEF SkipDuplicate, Fails, Stamp, HandPCs
  <2> QED
    BY <1>2, <2>1, NextLeadSteps
<1>5. CASE NoCredit(x) \/ BackOff(x)
  BY <1>2, <1>5, GiveBackSteps DEF NoCredit, BackOff, HandPCs
<1>6. CASE AlreadyConnected(x) \/ NoLeadLeft(x) \/ NotActioned(x) \/ TakeCredit(x) \/ Mark(x)
           \/ ReadStatus(x) \/ ClaimNextLead(x)
  <2>1. pass'[x].pc \in {"markAlready", "close", "gate", "act", "stampSent", "stampAlready",
                         "claim", "dup"}
    BY <1>0, <1>6 DEF AlreadyConnected, NoLeadLeft, NotActioned, TakeCredit, Mark, ReadStatus,
                      ClaimNextLead, PassType
  <2> QED
    BY <1>2, <2>1
<1>7. CASE (\E c \in Campaigns : Poll(x, c)) \/ Begin(x) \/ SkipBegin(x) \/ NoneFree(x)
           \/ CheckAccount(x) \/ AcquireAccount(x)
  <2>1. CASE \E c \in Campaigns : Poll(x, c)
    BY <1>0, <1>2, <2>1 DEF Poll, PassType
  <2>2. CASE CheckAccount(x)
    <3>1. pass[x].pc = "select" /\ pass'[x].pc \in {"select", "acquire"}
      BY <1>0, <2>2 DEF CheckAccount, PassType
    <3> QED
      BY <1>2, <3>1
  <2> QED
    BY <1>0, <1>2, <1>7, <2>1, <2>2 DEF Begin, SkipBegin, NoneFree, AcquireAccount, NoPass, PassType
<1>8. CASE OpenSession(x) \/ ReleaseAccount(x) \/ More(x)
  <2>1. pass'[x].pc \in {"status", "close", "cool", "select", "final"}
    <3>1. CASE OpenSession(x)
      BY <1>0, <3>1 DEF OpenSession, PassType
    <3> QED
      BY <1>0, <1>8, <3>1 DEF ReleaseAccount, More, PassType
  <2> QED
    BY <1>2, <2>1
<1>9. CASE Cool(x) \/ Final(x) \/ Transition(x) \/ StoreFails(x)
  <2>1. pass'[x].pc \in {"more", "idle", "transition", "close"}
    BY <1>0, <1>9 DEF Cool, Final, Transition, StoreFails, EndPass, NoPass, PassType
  <2> QED
    BY <1>2, <2>1
<1> QED
  BY <1>3, <1>4, <1>5, <1>6, <1>7, <1>8, <1>9 DEF PassStep, TurnStep, LeadStep

\* What a step of a pass does to the accounts that decide on a person or mark it.
LEMMA TurnsStep ==
  ASSUME TypeInv, LockInv, NEW x \in Passes, PassStep(x) \/ StoreFails(x) \/ Abandon(x),
         NEW k \in Campaigns \X Persons
  PROVE  LET own == KeyOf(pass[x].hand) = k
             a   == pass[x].acct
         IN  /\ Deciding(k)' \subseteq Deciding(k) \union {a}
             /\ ~(NotActioned(x) /\ own) => Deciding(k)' \subseteq Deciding(k)
             /\ Sent(x) \/ Fails(x) => a \notin Deciding(k)'
             /\ Unmarked(k) \ {a} \subseteq Unmarked(k)'
             /\ Unmarked(k)' \subseteq Unmarked(k) \union (IF Sent(x) /\ own THEN {a} ELSE {})
             /\ Sent(x) /\ own => Unmarked(k)' = Unmarked(k) \union {a}
             /\ ~StoreFails(x) /\ ~(Mark(x) /\ own) => Unmarked(k) \subseteq Unmarked(k)'
<1> DEFINE own == KeyOf(pass[x].hand) = k
           a == pass[x].acct
           AtD(r) == r.pc \in {"gate", "act"} /\ KeyOf(r.hand) = k
           AtU(r) == r.pc = "markSent" /\ KeyOf(r.hand) = k
<1>0. pass \in [Passes -> PassType] /\ \A y \in Passes \ {x} : pass'[y] = pass[y]
  BY AllSteps DEF TypeInv, TypeOK, PassType, Steps
<1>1. /\ \A b : b \in Deciding(k) <=> \E y \in Passes : AtD(pass[y]) /\ pass[y].acct = b
      /\ \A b : b \in Unmarked(k) <=> \E y \in Passes : AtU(pass[y]) /\ pass[y].acct = b
      /\ \A b : b \in Deciding(k)' <=> \E y \in Passes : AtD(pass'[y]) /\ pass'[y].acct = b
      /\ \A b : b \in Unmarked(k)' <=> \E y \in Passes : AtU(pass'[y]) /\ pass'[y].acct = b
  BY DEF Deciding, Unmarked, AcctsAt
<1>2. ASSUME AtD(pass'[x])
      PROVE  /\ pass'[x].acct = a
             /\ AtD(pass[x]) \/ (NotActioned(x) /\ own)
             /\ ~Sent(x) /\ ~Fails(x)
  <2>1. pass'[x].pc \in WorkPCs /\ pass'[x].pc \notin {"claim", "dup"}
    BY <1>2 DEF WorkPCs
  <2>2. /\ pass'[x].acct = a /\ pass'[x].hand = pass[x].hand
        /\ \/ NotActioned(x) /\ pass[x].pc = "dup"
           \/ TakeCredit(x) /\ pass[x].pc = "gate"
           \/ Abandon(x) /\ pass[x].pc = pass'[x].pc
    BY <2>1, WorkStep
  <2>3. ~Sent(x) /\ ~Fails(x)
    <3>1. CASE Sent(x)
      BY <1>0, <1>2, <3>1 DEF Sent, PassType
    <3>2. CASE Fails(x)
      <4>1. pass'[x].pc \in {"close", "status"}
        BY <3>2, NextLeadSteps DEF Fails, HandPCs
      <4> QED BY <1>2, <4>1
    <3> QED BY <3>1, <3>2
  <2> QED
    BY <1>2, <2>2, <2>3
<1>3. AtU(pass'[x]) => /\ pass'[x].acct = a
                       /\ AtU(pass[x]) \/ (Sent(x) /\ own)
  BY MarkStep
<1>4. AtU(pass[x]) => own /\ (Mark(x) \/ StoreFails(x) \/ Abandon(x))
  BY MarkStep
<1>5. Abandon(x) => pass'[x].pc = pass[x].pc /\ pass'[x].hand = pass[x].hand /\ pass'[x].acct = a
  BY <1>0 DEF Abandon, PassType
<1>6. Sent(x) => pass'[x].pc = "markSent" /\ pass'[x].hand = pass[x].hand /\ pass'[x].acct = a
  BY <1>0 DEF Sent, PassType
<1>7. ASSUME Sent(x) \/ Fails(x), NEW y \in Passes \ {x}, AtD(pass[y])
      PROVE  pass[y].acct # a
  <2>1. pass[x].pc = "act"
    BY <1>7 DEF Sent, Fails
  <2>2. a \in Accounts
    BY <2>1 DEF TypeInv, PassInv, Shaped, AcctPCs, InTurn
  <2> QED
    BY <1>7, <2>1, <2>2 DEF LockInv, AccountExclusive, Holds, InTurn
<1> HIDE DEF AtD, AtU, own
<1>8. /\ Deciding(k)' \subseteq Deciding(k) \union {a}
      /\ ~(NotActioned(x) /\ own) => Deciding(k)' \subseteq Deciding(k)
  BY <1>0, <1>1, <1>2
<1>9. Sent(x) \/ Fails(x) => a \notin Deciding(k)'
  BY <1>0, <1>1, <1>2, <1>7
<1>10. /\ Unmarked(k) \ {a} \subseteq Unmarked(k)'
       /\ Unmarked(k)' \subseteq Unmarked(k) \union (IF Sent(x) /\ own THEN {a} ELSE {})
  BY <1>0, <1>1, <1>3
<1>11. ~StoreFails(x) /\ ~(Mark(x) /\ own) => Unmarked(k) \subseteq Unmarked(k)'
  <2>1. AtU(pass[x]) /\ Abandon(x) => AtU(pass'[x])
    BY <1>5 DEF AtU
  <2> QED
    BY <1>0, <1>1, <1>4, <1>5, <2>1
<1>12. Sent(x) /\ own => Unmarked(k)' = Unmarked(k) \union {a}
  <2>1. Sent(x) => pass[x].pc = "act" /\ ~Mark(x)
    BY DEF Sent, Mark
  <2>2. StoreFails(x) => pass'[x].pc = "close" \/ pass[x].pc # "act"
    BY <1>0 DEF StoreFails, PassType
  <2>3. Sent(x) /\ own => AtU(pass'[x])
    BY <1>6 DEF AtU, own
  <2> QED
    BY <1>1, <1>6, <1>10, <1>11, <2>1, <2>2, <2>3
<1> QED
  BY <1>8, <1>9, <1>10, <1>11, <1>12 DEF own

\* What a step of a pass does to the invited rows, the marks and the faults.
LEMMA InvitedStep ==
  ASSUME TypeInv, NEW x \in Passes, PassStep(x) \/ StoreFails(x) \/ Abandon(x),
         NEW k \in Campaigns \X Persons
  PROVE  LET own == KeyOf(pass[x].hand) = k
         IN  /\ Invited(k)' \subseteq Invited(k) \union {pass[x].hand}
             /\ ~own \/ (~Sent(x) /\ ~Fails(x)) => Invited(k)' \subseteq Invited(k)
             /\ faults' = faults \/ faults' = faults + 1
             /\ StoreFails(x) => faults' = faults + 1
             /\ Fails(x) /\ faults' = faults => Invited(k)' \subseteq Invited(k)
             /\ k \in marks => k \in marks'
             /\ Mark(x) /\ own => k \in marks'
             /\ ~Mark(x) => marks' = marks
<1>0. invites \in [Leads -> Nat] /\ faults \in Nat
  BY DEF TypeInv, TypeOK
<1>1. /\ invites' = invites \/ (invites' = [invites EXCEPT ![pass[x].hand] = @ + 1] /\ (Sent(x) \/ Fails(x)))
      /\ Fails(x) /\ invites' # invites => faults' = faults + 1
  BY DEF PassStep, TurnStep, LeadStep, Poll, Begin, SkipBegin, CheckAccount, NoneFree,
         AcquireAccount, OpenSession, ReadStatus, ClaimNextLead, NoLeadLeft, SkipDuplicate,
         NotActioned, TakeCredit, NoCredit, Sent, AlreadyConnected, BackOff, Fails, Mark, Stamp,
         ReleaseAccount, Cool, More, Final, Transition, StoreFails, Abandon, worldVars, Invite, Fault
<1>2. /\ faults' = faults \/ faults' = faults + 1
      /\ StoreFails(x) => faults' = faults + 1
  BY DEF PassStep, TurnStep, LeadStep, Poll, Begin, SkipBegin, CheckAccount, NoneFree,
         AcquireAccount, OpenSession, ReadStatus, ClaimNextLead, NoLeadLeft, SkipDuplicate,
         NotActioned, TakeCredit, NoCredit, Sent, AlreadyConnected, BackOff, Fails, Mark, Stamp,
         ReleaseAccount, Cool, More, Final, Transition, StoreFails, Abandon, bounds, Fault
<1>3. /\ Mark(x) => marks' = marks \union {KeyOf(pass[x].hand)}
      /\ ~Mark(x) => marks' = marks
  BY DEF PassStep, TurnStep, LeadStep, Poll, Begin, SkipBegin, CheckAccount, NoneFree,
         AcquireAccount, OpenSession, ReadStatus, ClaimNextLead, NoLeadLeft, SkipDuplicate,
         NotActioned, TakeCredit, NoCredit, Sent, AlreadyConnected, BackOff, Fails, Mark, Stamp,
         ReleaseAccount, Cool, More, Final, Transition, StoreFails, Abandon, storeVars
<1>4. \A l \in Leads : l # pass[x].hand => invites'[l] = invites[l]
  BY <1>0, <1>1
<1>5. Invited(k)' = {l \in Leads : KeyOf(l) = k /\ invites'[l] > 0}
  BY DEF Invited, KeyOf
<1>6. Invited(k)' \subseteq Invited(k) \union {pass[x].hand}
  BY <1>4, <1>5 DEF Invited
<1>7. KeyOf(pass[x].hand) # k \/ invites' = invites => Invited(k)' \subseteq Invited(k)
  BY <1>4, <1>5 DEF Invited
<1>8. faults + 1 # faults
  BY <1>0
<1> QED
  BY <1>1, <1>2, <1>3, <1>6, <1>7, <1>8

\* How the size of a set changes with one element.
LEMMA OneMore ==
  ASSUME NEW S, IsFiniteSet(S), NEW e, NEW T, T \subseteq S \union {e}
  PROVE  LET s == Cardinality(S)
             t == Cardinality(T)
         IN  /\ IsFiniteSet(T) /\ s \in Nat /\ t \in Nat /\ t <= s + 1
             /\ T \subseteq S => t <= s
             /\ S \subseteq T => t >= s
             /\ T \subseteq S /\ e \in S /\ e \notin T => t <= s - 1
             /\ T = S \union {e} /\ e \notin S => t = s + 1
<1> DEFINE s == Cardinality(S)
           t == Cardinality(T)
           m == Cardinality(S \union {e})
<1>1. IsFiniteSet(S \union {e}) /\ m = IF e \in S THEN s ELSE s + 1
  BY FS_AddElement
<1>2. IsFiniteSet(T) /\ t <= m
  BY <1>1, FS_Subset
<1>3. s \in Nat /\ t \in Nat
  BY <1>2, FS_CardinalityType
<1>4. T \subseteq S => t <= s
  BY FS_Subset
<1>5. S \subseteq T => t >= s
  BY <1>2, <1>3, FS_Subset
<1>6. ASSUME T \subseteq S, e \in S, e \notin T PROVE t <= s - 1
  <2>1. IsFiniteSet(S \ {e}) /\ Cardinality(S \ {e}) = s - 1
    BY <1>6, FS_RemoveElement
  <2>2. T \subseteq S \ {e}
    BY <1>6
  <2>3. t <= Cardinality(S \ {e})
    BY <2>1, <2>2, FS_Subset
  <2> QED
    BY <2>1, <2>3
<1>7. T = S \union {e} /\ e \notin S => t = s + 1
  BY <1>1
<1> HIDE DEF s, t, m
<1>8. t <= s + 1
  <2>1. m <= s + 1 /\ m \in Nat
    BY <1>1, <1>3
  <2> QED
    BY <1>2, <1>3, <2>1
<1>9. IsFiniteSet(T)
  BY <1>2
<1> QED
  BY <1>3, <1>4, <1>5, <1>6, <1>7, <1>8, <1>9 DEF s, t

\* The numbers of an invited person's rows and of the turns that have one.
LEMMA CountStep ==
  ASSUME IsFiniteSet(Accounts), TypeInv, LockInv, HandOfCampaign,
         NEW x \in Passes, PassStep(x) \/ StoreFails(x) \/ Abandon(x),
         NEW k \in Campaigns \X Persons, Counted(k)
  PROVE  Counted(k)'
<1> DEFINE own == KeyOf(pass[x].hand) = k
           a == pass[x].acct
           I == Invited(k)
           D == Deciding(k)
           U == Unmarked(k)
           i == Cardinality(I)
           d == Cardinality(D)
           u == Cardinality(U)
           w == Width(k)
           nI == Invited(k)'
           nD == Deciding(k)'
           nU == Unmarked(k)'
           ni == Cardinality(nI)
           nd == Cardinality(nD)
           nu == Cardinality(nU)
<1>1. /\ nD \subseteq D \union {a}
      /\ ~(NotActioned(x) /\ own) => nD \subseteq D
      /\ Sent(x) \/ Fails(x) => a \notin nD
      /\ U \ {a} \subseteq nU
      /\ nU \subseteq U \union (IF Sent(x) /\ own THEN {a} ELSE {})
      /\ Sent(x) /\ own => nU = U \union {a}
      /\ ~StoreFails(x) /\ ~(Mark(x) /\ own) => U \subseteq nU
  BY TurnsStep
<1>2. /\ nI \subseteq I \union {pass[x].hand}
      /\ ~own \/ (~Sent(x) /\ ~Fails(x)) => nI \subseteq I
      /\ faults' = faults \/ faults' = faults + 1
      /\ StoreFails(x) => faults' = faults + 1
      /\ Fails(x) /\ faults' = faults => nI \subseteq I
      /\ k \in marks => k \in marks'
      /\ Mark(x) /\ own => k \in marks'
      /\ ~Mark(x) => marks' = marks
  BY InvitedStep
<1>3. /\ w \in Nat /\ d \in Nat /\ u \in Nat
      /\ IsFiniteSet(D) /\ IsFiniteSet(U) /\ d + u <= w
      /\ own /\ pass[x].pc = "dup" => d + u + 1 <= w /\ a \notin D
      /\ own /\ pass[x].pc = "act" => a \in D /\ a \notin U /\ w >= 1
  BY Crowd DEF Deciders, Markers, HandPCs
<1>4. /\ IsFiniteSet(I) /\ i \in Nat /\ faults \in Nat
      /\ k \notin marks => i <= u + w * faults
      /\ i + d <= w + w * faults
  BY FS_CardinalityType DEF Counted, Got, Deciders, Markers, TypeInv, TypeOK
<1>5. /\ w * faults \in Nat /\ w * (faults + 1) = w * faults + w
  BY <1>3, <1>4
<1>6. SUFFICES /\ IsFiniteSet(nI)
               /\ k \notin marks' => ni <= nu + w * faults'
               /\ ni + nd <= w + w * faults'
  BY DEF Counted, Got, Deciders, Markers, Width
<1> HIDE DEF I, D, U, w, nI, nD, nU, own, a
<1>7. /\ IsFiniteSet(nI) /\ ni \in Nat /\ ni <= i + 1
      /\ nI \subseteq I => ni <= i
  BY <1>2, <1>4, OneMore
<1>8. /\ nd \in Nat /\ nd <= d + 1
      /\ nD \subseteq D => nd <= d
      /\ nD \subseteq D /\ a \in D /\ a \notin nD => nd <= d - 1
  BY <1>1, <1>3, OneMore
<1>9. /\ nu \in Nat
      /\ U \subseteq nU => nu >= u
      /\ Sent(x) /\ own => nu = u + 1
  <2>1. nU \subseteq U \union {a}
    BY <1>1
  <2>2. Sent(x) /\ own => a \notin U /\ nU = U \union {a}
    BY <1>1, <1>3 DEF Sent
  <2> QED
    BY <1>3, <2>1, <2>2, OneMore
<1>10. CASE faults' = faults + 1 /\ ((~Sent(x) /\ ~Fails(x)) \/ ~own)
  <2>1. ni <= i /\ (~NotActioned(x) \/ ~own => nd <= d)
    BY <1>1, <1>2, <1>7, <1>8, <1>10
  <2>2. ~NotActioned(x)
    BY <1>4, <1>10 DEF NotActioned, bounds
  <2> QED
    BY <1>2, <1>3, <1>4, <1>5, <1>7, <1>8, <1>9, <1>10, <2>1, <2>2
<1>11. CASE Fails(x) /\ own /\ faults' = faults + 1
  <2>1. pass[x].pc = "act" /\ ~NotActioned(x) /\ ~Mark(x) /\ a \in D /\ a \notin nD /\ w >= 1
    BY <1>1, <1>3, <1>11 DEF Fails, NotActioned, Mark
  <2>2. nd <= d - 1 /\ ni <= i + 1 /\ marks' = marks
    BY <1>1, <1>2, <1>7, <1>8, <2>1
  <2>3. (u <= w /\ ni <= u + w * faults + 1) \/ k \in marks
    BY <1>3, <1>4, <1>5, <1>7, <2>2
  <2>4. nu >= u
    <3>1. a \notin U
      BY <1>3, <1>11, <2>1
    <3> QED
      BY <1>1, <1>9, <3>1
  <2> QED
    BY <1>3, <1>4, <1>5, <1>7, <1>8, <1>9, <1>11, <2>1, <2>2, <2>3, <2>4
<1>12. CASE Sent(x) /\ own
  <2>1. faults' = faults /\ a \in D /\ a \notin nD /\ ~NotActioned(x) /\ ~Mark(x)
    BY <1>1, <1>3, <1>12 DEF Sent, bounds, NotActioned, Mark
  <2>2. nd <= d - 1 /\ ni <= i + 1 /\ marks' = marks /\ nu = u + 1
    BY <1>1, <1>2, <1>7, <1>8, <1>9, <1>12, <2>1
  <2> QED
    BY <1>3, <1>4, <1>5, <1>7, <1>8, <1>9, <2>1, <2>2
<1>13. CASE NotActioned(x) /\ own
  <2>1. /\ faults' = faults /\ ~Sent(x) /\ ~Fails(x) /\ ~Mark(x) /\ ~StoreFails(x)
        /\ k \notin marks /\ marks' = marks
    <3>1. faults' = faults /\ pass[x].pc = "dup" /\ marks' = marks
      BY <1>13 DEF NotActioned, bounds, storeVars
    <3>2. k \notin marks
      BY <1>13 DEF NotActioned, own
    <3>3. ~Sent(x) /\ ~Fails(x) /\ ~Mark(x)
      BY <3>1 DEF Sent, Fails, Mark
    <3>4. ~StoreFails(x)
      BY <1>2, <1>4, <3>1
    <3> QED
      BY <3>1, <3>2, <3>3, <3>4
  <2>2. ni <= i /\ nu >= u /\ d + u + 1 <= w
    BY <1>1, <1>2, <1>3, <1>7, <1>9, <1>13, <2>1 DEF NotActioned
  <2> QED
    BY <1>3, <1>4, <1>5, <1>7, <1>8, <1>9, <2>1, <2>2
<1>14. CASE faults' = faults /\ ~(Sent(x) /\ own) /\ ~(NotActioned(x) /\ own)
  <2>1. ni <= i /\ nd <= d
    BY <1>1, <1>2, <1>7, <1>8, <1>14
  <2>2. ~StoreFails(x)
    BY <1>2, <1>4, <1>14
  <2>3. Mark(x) /\ own => k \in marks'
    BY <1>2
  <2>4. ~(Mark(x) /\ own) => nu >= u
    BY <1>1, <1>9, <2>2
  <2> QED
    BY <1>2, <1>3, <1>4, <1>5, <1>7, <1>8, <1>9, <1>14, <2>1, <2>3, <2>4
<1> QED
  BY <1>2, <1>10, <1>11, <1>12, <1>13, <1>14

\* Nobody has an invitation at the start.
LEMMA PersonInit == IsFiniteSet(Accounts) /\ Init => PersonInv
<1> SUFFICES ASSUME IsFiniteSet(Accounts), Init PROVE PersonInv
  OBVIOUS
<1>1. HandOfCampaign
  BY DEF Init, HandOfCampaign, NoPass, HandPCs
<1>2. ASSUME NEW k \in Campaigns \X Persons PROVE Counted(k)
  <2>1. Invited(k) = {} /\ Deciding(k) = {} /\ Unmarked(k) = {} /\ faults = 0
    BY DEF Init, Invited, Deciding, Unmarked, AcctsAt, NoPass
  <2>2. Width(k) \in Nat
    <3>1. AccountsOf[k[1]] \subseteq Accounts
      BY MapsAssumption
    <3> QED
      BY <3>1, FS_Subset, FS_CardinalityType DEF Width
  <2>3. Width(k) * faults = 0
    BY <2>1, <2>2
  <2>4. IsFiniteSet(Invited(k)) /\ Got(k) = 0 /\ Deciders(k) = 0 /\ Markers(k) = 0
    BY <2>1, FS_EmptySet DEF Got, Deciders, Markers
  <2> QED
    BY <2>2, <2>3, <2>4 DEF Counted
<1> QED
  BY <1>1, <1>2 DEF PersonInv

\* Every step keeps each person's account of invitations.
LEMMA PersonNext ==
  IsFiniteSet(Accounts) /\ TypeInv /\ LockInv /\ PersonInv /\ [Next]_vars => PersonInv'
<1> SUFFICES ASSUME IsFiniteSet(Accounts), TypeInv, LockInv, PersonInv, [Next]_vars
             PROVE  PersonInv'
  OBVIOUS
<1>1. ASSUME NEW x \in Passes, PassStep(x) \/ StoreFails(x) \/ Abandon(x) PROVE PersonInv'
  <2>1. \A y \in Passes \ {x} : pass'[y] = pass[y]
    BY <1>1, AllSteps DEF Steps
  <2>2. pass'[x].pc \in HandPCs => CampaignOf[pass'[x].hand] = pass'[x].camp
    BY <1>1, HandOfCampaignStep DEF PersonInv
  <2>3. HandOfCampaign'
    BY <2>1, <2>2 DEF PersonInv, HandOfCampaign
  <2>4. \A k \in Campaigns \X Persons : Counted(k)'
    BY <1>1, CountStep DEF PersonInv
  <2> QED
    BY <2>3, <2>4 DEF PersonInv
<1>2. ASSUME UNCHANGED <<pass, invites, marks, faults>> PROVE PersonInv'
  BY <1>2 DEF PersonInv, HandOfCampaign, Counted, Got, Deciders, Markers, Width, Invited, Deciding,
              Unmarked, AcctsAt, KeyOf
<1>3. ASSUME NEW c \in Campaigns, Operator(c) PROVE PersonInv'
  <2>1. UNCHANGED <<pass, invites, marks, faults>>
    BY <1>3 DEF Operator, CreateCampaign, AddLeads, SkipActioned, Stop, Resume, Restart, worldVars,
                bounds
  <2> QED
    BY <1>2, <2>1
<1>4. ASSUME NEW p \in Pods, PodExit(p) PROVE PersonInv'
  <2>1. /\ \A y \in Passes : pass'[y] = pass[y] \/ pass'[y].pc = "idle"
        /\ invites' = invites /\ marks' = marks /\ faults' = faults + 1
    BY <1>4 DEF PodExit, NoPass, TypeInv, TypeOK, storeVars, worldVars, Fault
  <2>2. HandOfCampaign'
    BY <2>1 DEF PersonInv, HandOfCampaign, HandPCs
  <2>3. ASSUME NEW k \in Campaigns \X Persons PROVE Counted(k)'
    <3> DEFINE D == Deciding(k)
               U == Unmarked(k)
               nD == Deciding(k)'
               nU == Unmarked(k)'
               w == Width(k)
    <3>1. Invited(k)' = Invited(k) /\ Got(k)' = Got(k)
      BY <2>1 DEF Invited, KeyOf, Got
    <3>2. nD \subseteq D /\ nU \subseteq U
      BY <2>1 DEF Deciding, Unmarked, AcctsAt
    <3>3. /\ w \in Nat /\ Deciders(k) \in Nat /\ Markers(k) \in Nat
          /\ IsFiniteSet(D) /\ IsFiniteSet(U) /\ Deciders(k) + Markers(k) <= w
      BY Crowd DEF PersonInv
    <3>4. Counted(k) /\ faults \in Nat
      BY DEF PersonInv, TypeInv, TypeOK
    <3>5. w * faults \in Nat /\ w * (faults + 1) = w * faults + w
      BY <3>3, <3>4
    <3>6. Got(k) \in Nat
      BY <3>4, FS_CardinalityType DEF Counted, Got
    <3> HIDE DEF D, U, nD, nU
    <3>7. Cardinality(nD) <= Cardinality(D) /\ IsFiniteSet(nD) /\ IsFiniteSet(nU)
      BY <3>2, <3>3, FS_Subset
    <3>8. Cardinality(nD) \in Nat /\ Cardinality(nU) \in Nat
      BY <3>7, FS_CardinalityType
    <3>9. Deciders(k)' <= Deciders(k) /\ Deciders(k)' \in Nat /\ Markers(k)' \in Nat /\ Width(k)' = w
      BY <3>7, <3>8 DEF D, nD, nU, Deciders, Markers, Width
    <3>10. Width(k)' * faults' = w * faults + w
      BY <2>1, <3>5, <3>9
    <3> HIDE DEF w
    <3>11. IsFiniteSet(Invited(k)')
      BY <3>1, <3>4 DEF Counted
    <3>12. /\ k \notin marks => Got(k) <= Markers(k) + w * faults
           /\ Got(k) + Deciders(k) <= w + w * faults
      BY <3>4 DEF Counted, w
    <3>13. k \notin marks' => Got(k)' <= Markers(k)' + Width(k)' * faults'
      BY <2>1, <3>1, <3>3, <3>5, <3>6, <3>9, <3>10, <3>12
    <3>14. Got(k)' + Deciders(k)' <= Width(k)' + Width(k)' * faults'
      BY <3>1, <3>3, <3>5, <3>6, <3>9, <3>10, <3>12
    <3> QED
      BY <3>11, <3>13, <3>14 DEF Counted
  <2> QED
    BY <2>2, <2>3 DEF PersonInv
<1>5. ASSUME NEW a \in Accounts, LockExpire(a) \/ RestEnds(a) PROVE PersonInv'
  BY <1>2, <1>5 DEF LockExpire, RestEnds, worldVars, bounds
<1>6. CASE UNCHANGED vars
  BY <1>2, <1>6 DEF vars, storeVars, worldVars, bounds
<1> QED
  BY <1>1, <1>3, <1>4, <1>5, <1>6 DEF Next

\* However many rows name a person, and whatever pods race for them: without a fault each
\* account of the campaign invites the person at most once, and a fault costs at most one
\* more invitation from each (runTurn: the mark is read before the invitation and set after
\* it).  The campaign's accounts are the finite list its operator chose.
THEOREM PersonInvitedOnce == IsFiniteSet(Accounts) => (Spec => []PersonBudget)
<1> SUFFICES ASSUME IsFiniteSet(Accounts) PROVE Spec => []PersonBudget
  OBVIOUS
<1>1. TypeInv /\ LockInv /\ PersonInv => PersonBudget
  <2> SUFFICES ASSUME TypeInv, LockInv, PersonInv, NEW c \in Campaigns, NEW m \in Persons
               PROVE  Cardinality(Invited(<<c, m>>)) <= Cardinality(AccountsOf[c]) * (1 + faults)
    BY DEF PersonBudget
  <2> DEFINE k == <<c, m>>
             w == Cardinality(AccountsOf[c])
  <2>1. k \in Campaigns \X Persons /\ faults \in Nat /\ Width(k) = w
    BY DEF TypeInv, TypeOK, Width
  <2>2. Counted(k) /\ w \in Nat /\ Deciders(k) \in Nat
    BY <2>1, Crowd DEF PersonInv
  <2>3. Cardinality(Invited(k)) \in Nat
    BY <2>2, FS_CardinalityType DEF Counted
  <2>4. w * (1 + faults) = w + w * faults /\ w * faults \in Nat
    BY <2>1, <2>2
  <2> HIDE DEF w, k
  <2>5. Got(k) + Deciders(k) <= w + w * faults /\ Got(k) \in Nat
    BY <2>1, <2>2, <2>3 DEF Counted, Got
  <2>6. Got(k) <= w * (1 + faults)
    BY <2>2, <2>4, <2>5
  <2> QED
    BY <2>6 DEF Got, k, w
<1>2. Init => PersonInv
  BY PersonInit
<1>3. TypeInv /\ LockInv /\ PersonInv /\ [Next]_vars => PersonInv'
  BY PersonNext
<1> QED
  BY TypeInit, TypeNext, LockInit, LockNext, <1>1, <1>2, <1>3, PTL DEF Spec
=============================================================================
