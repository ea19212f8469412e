------------------------ MODULE DesktopSend_proofs -------------------------
(***************************************************************************)
(* What holds of the desktop's send loop for every number of workers,      *)
(* accounts, leads, browsers and sends.                                    *)
(*                                                                         *)
(* TypeInv adds to the types what a worker has in hand at each of its      *)
(* steps, who waits for a browser, and that no worker is left when the     *)
(* run is over.  LeadInv, CapInv and SlotInv strengthen LeadOnce, DailyCap *)
(* and SlotsMatch; they speak of one lead, of one account, of one browser. *)
(***************************************************************************)
EXTENDS DesktopSend, SeqLemmas, FiniteSetTheorems

-----------------------------------------------------------------------------
(* Types.                                                                  *)

WorkerType == [pc: {"off", "idle", "paused", "acquire", "waiting", "launch", "turn", "send",
                    "record", "stamp", "close"},
               account: Accounts \union {NoAccount}, lead: Leads \union {NoLead},
               tries: 0 .. MaxRetries, left: 0 .. BatchSize, moved: BOOLEAN, result: Results]
SlotType   == [count: 0 .. MaxBrowsers, max: 1 .. MaxBrowsers, waiting: Seq(Workers)]
IdleType   == [parked: SUBSET Accounts, skipped: SUBSET Accounts]
RunType    == [on: BOOLEAN, abort: BOOLEAN, pause: {"no", "asked", "yes"}, exhausted: BOOLEAN]

\* A worker has an account during a turn, a lead from taking it to its stamp, and a
\* result while it records it.
Fit(r) ==
    /\ r \in WorkerType
    /\ r.pc \in {"off", "idle"} => r.account = NoAccount
    /\ r.pc \notin {"off", "idle", "paused"} => r.account \in Accounts
    /\ r.lead # NoLead <=> r.pc \in {"send", "record", "stamp"}
    /\ r.pc \notin {"record", "stamp"} => r.result = "left"

\* The workers, the list of who waits for a browser, and the end of a run.
WorkersFit == worker \in [Workers -> WorkerType] /\ \A w \in Workers : Fit(worker[w])
SlotsFit   == /\ slots \in SlotType /\ Distinct(slots.waiting)
              /\ \A w \in ToSet(slots.waiting) : At(w, "waiting")
RunFit     == run \in RunType /\ (run.on \/ \A w \in Workers : At(w, "off"))

TypeInv == TypeOK /\ WorkersFit /\ SlotsFit /\ RunFit

\* A list of the semaphore's waiters that some of have left.
Shorter(s) == /\ s \in SlotType /\ Distinct(s.waiting)
              /\ ToSet(s.waiting) \subseteq ToSet(slots.waiting)

LEMMA WaitersAreWorkers == ASSUME NEW s \in SlotType PROVE ToSet(s.waiting) \subseteq Workers
<1>1. s.waiting \in Seq(Workers)
  BY DEF SlotType
<1> QED
  BY <1>1, ToSetIndices, LenProperties

\* Giving a slot back, and giving a waiter up.
LEMMA ReleaseShorter ==
  ASSUME TypeInv
  PROVE  /\ Shorter(Released) /\ Shorter(slots)
         /\ slots.waiting # <<>> => /\ Head(slots.waiting) \in ToSet(slots.waiting)
                                    /\ ToSet(Tail(slots.waiting)) =
                                         ToSet(slots.waiting) \ {Head(slots.waiting)}
<1>1. slots \in SlotType /\ slots.waiting \in Seq(Workers) /\ Distinct(slots.waiting)
  BY DEF TypeInv, SlotsFit, SlotType
<1> DEFINE q == slots.waiting
<1>2. CASE q # <<>>
  <2>1. 1 \in 1 .. Len(q) /\ Head(q) = q[1] /\ Len(q) \in Nat
    BY <1>1, <1>2, LenProperties, EmptySeq, HeadTailProperties
  <2>2. Tail(q) = SubSeq(q, 1 + 1, Len(q))
    BY <1>1, <1>2, TailIsSubSeq
  <2> HIDE DEF q
  <2>e. SubSeq(q, 1, 1 - 1) = <<>>
    BY <1>1, <2>1, SubSeqEmpty DEF q
  <2>3. /\ Tail(q) \in Seq(Workers) /\ Distinct(Tail(q))
        /\ ToSet(Tail(q)) = ToSet(q) \ {q[1]}
    <3> DEFINE h == SubSeq(q, 1, 1 - 1)
               t == SubSeq(q, 1 + 1, Len(q))
    <3>0. q \in Seq(Workers) /\ Distinct(q)
      BY <1>1 DEF q
    <3>1. /\ t \in Seq(Workers) /\ Distinct(t)
          /\ ToSet(h) \union ToSet(t) = ToSet(q) \ {q[1]}
      BY <3>0, <2>1, SplitAt
    <3>2. ToSet(h) = {}
      BY <2>e DEF ToSet
    <3> HIDE DEF h, t
    <3> QED
      BY <3>1, <3>2, <2>2 DEF t
  <2>4. q[1] \in ToSet(q)
    BY <2>1, <1>1, ToSetIndices DEF q
  <2>5. Shorter(Released)
    <3> DEFINE free == IF slots.count > 0 THEN slots.count - 1 ELSE 0
    <3>1. free \in 0 .. MaxBrowsers /\ slots.max \in 1 .. MaxBrowsers
          /\ (free < slots.max => free + 1 \in 0 .. MaxBrowsers)
      BY <1>1, BoundsAssumption DEF SlotType
    <3>2. Released = IF free < slots.max
                     THEN [slots EXCEPT !.count = free + 1, !.waiting = Tail(q)]
                     ELSE [slots EXCEPT !.count = free]
      BY <1>2 DEF Released, q
    <3> HIDE DEF free
    <3>3. CASE free < slots.max
      <4>1. Released = [slots EXCEPT !.count = free + 1, !.waiting = Tail(q)]
        BY <3>2, <3>3
      <4>2. Released.waiting = Tail(q) /\ Released \in SlotType
        BY <4>1, <3>1, <3>3, <1>1, <2>3 DEF SlotType
      <4> QED
        BY <4>2, <2>3 DEF Shorter, q
    <3>4. CASE ~(free < slots.max)
      <4>1. Released.waiting = q /\ Released \in SlotType
        BY <3>2, <3>4, <3>1, <1>1 DEF SlotType, q
      <4> QED
        BY <4>1, <1>1 DEF Shorter, q
    <3> QED
      BY <3>3, <3>4
  <2> QED
    BY <2>1, <2>3, <2>4, <2>5, <1>1 DEF q, Shorter
<1>3. CASE q = <<>>
  <2> DEFINE free == IF slots.count > 0 THEN slots.count - 1 ELSE 0
  <2>1. free \in 0 .. MaxBrowsers
    BY <1>1, BoundsAssumption DEF SlotType
  <2>2. Released = [slots EXCEPT !.count = free]
    BY <1>3 DEF Released
  <2> HIDE DEF free
  <2>3. Released.waiting = slots.waiting /\ Released \in SlotType
    BY <1>1, <2>1, <2>2 DEF SlotType
  <2> QED
    BY <1>1, <1>3, <2>3 DEF Shorter
<1> QED
  BY <1>2, <1>3

\* What is left of a list without repetitions when the first of it are gone.
LEMMA Cut ==
  ASSUME NEW S, NEW s \in Seq(S), Distinct(s), NEW k \in 0 .. Len(s)
  PROVE  LET t == SubSeq(s, k + 1, Len(s))
         IN  /\ t \in Seq(S) /\ Distinct(t)
             /\ ToSet(t) = {s[i] : i \in k + 1 .. Len(s)}
             /\ ToSet(t) \subseteq ToSet(s)
<1> DEFINE t == SubSeq(s, k + 1, Len(s))
<1>1. k \in Nat /\ Len(s) \in Nat /\ k <= Len(s) /\ \A a \in 1 .. Len(s) : s[a] \in S
  BY LenProperties
<1>2. /\ t \in Seq(S) /\ Len(t) = Len(s) - k
      /\ \A a \in 1 .. Len(s) - k : t[a] = s[k + a]
  <2>1. t \in Seq(S) /\ Len(t) = IF k + 1 <= Len(s) THEN Len(s) - (k + 1) + 1 ELSE 0
    BY <1>1, SubSeqProperties
  <2>2. \A a \in 1 .. Len(s) - (k + 1) + 1 : t[a] = s[(k + 1) + a - 1]
    BY <1>1, SubSeqProperties
  <2> HIDE DEF t
  <2> QED
    BY <1>1, <2>1, <2>2
<1> HIDE DEF t
<1>3. ToSet(t) = {t[a] : a \in 1 .. Len(s) - k}
  BY <1>2, ToSetIndices
<1>4. ToSet(t) = {s[i] : i \in k + 1 .. Len(s)}
  <2>1. ASSUME NEW a \in 1 .. Len(s) - k
        PROVE  k + a \in k + 1 .. Len(s) /\ t[a] = s[k + a]
    BY <1>1, <1>2
  <2>2. ASSUME NEW i \in k + 1 .. Len(s)
        PROVE  i - k \in 1 .. Len(s) - k /\ t[i - k] = s[i]
    <3>1. i - k \in 1 .. Len(s) - k /\ k + (i - k) = i
      BY <1>1
    <3> QED
      BY <3>1, <1>2
  <2> QED
    BY <1>3, <2>1, <2>2
<1>5. Distinct(t)
  <2>1. ASSUME NEW a \in 1 .. Len(t), NEW b \in 1 .. Len(t), t[a] = t[b] PROVE a = b
    <3>1. k + a \in 1 .. Len(s) /\ k + b \in 1 .. Len(s) /\ s[k + a] = s[k + b]
      BY <2>1, <1>1, <1>2
    <3>2. k + a = k + b
      BY <3>1 DEF Distinct
    <3> QED
      BY <3>2, <1>1, <1>2
  <2> QED
    BY <2>1 DEF Distinct
<1>6. ToSet(t) \subseteq ToSet(s)
  <2>1. ToSet(s) = {s[i] : i \in 1 .. Len(s)}
    BY ToSetIndices
  <2>2. \A i \in k + 1 .. Len(s) : i \in 1 .. Len(s)
    BY <1>1
  <2> QED
    BY <1>4, <2>1, <2>2
<1> QED
  BY <1>2, <1>4, <1>5, <1>6 DEF t

\* The semaphore when its cap is set to n.
Grants(n) ==
    LET free == IF n > slots.count THEN n - slots.count ELSE 0
    IN  IF Len(slots.waiting) < free THEN Len(slots.waiting) ELSE free

Granted(n) ==
    [count |-> slots.count + Grants(n), max |-> n,
     waiting |-> SubSeq(slots.waiting, Grants(n) + 1, Len(slots.waiting))]

LEMMA GrantShorter ==
  ASSUME TypeInv, NEW n \in 1 .. MaxBrowsers
  PROVE  /\ Shorter(Granted(n))
         /\ Grants(n) \in 0 .. Len(slots.waiting)
         /\ ToSet(Granted(n).waiting) =
              {slots.waiting[i] : i \in Grants(n) + 1 .. Len(slots.waiting)}
<1>1. /\ slots.count \in 0 .. MaxBrowsers /\ slots.waiting \in Seq(Workers)
      /\ Distinct(slots.waiting) /\ Len(slots.waiting) \in Nat
      /\ MaxBrowsers \in Nat
  <2>1. slots \in SlotType /\ Distinct(slots.waiting)
    BY DEF TypeInv, SlotsFit
  <2>2. slots.count \in 0 .. MaxBrowsers /\ slots.waiting \in Seq(Workers)
    BY <2>1 DEF SlotType
  <2>3. Len(slots.waiting) \in Nat
    BY <2>2, LenProperties
  <2> QED
    BY <2>1, <2>2, <2>3, BoundsAssumption
<1>2. Grants(n) \in 0 .. Len(slots.waiting) /\ slots.count + Grants(n) \in 0 .. MaxBrowsers
  <2>1. \A c \in 0 .. MaxBrowsers : \A k \in Nat :
          LET free == IF n > c THEN n - c ELSE 0
              g    == IF k < free THEN k ELSE free
          IN  g \in 0 .. k /\ c + g \in 0 .. MaxBrowsers
    BY <1>1
  <2>2. slots.count \in 0 .. MaxBrowsers /\ Len(slots.waiting) \in Nat
    BY <1>1
  <2> QED
    BY <2>1, <2>2 DEF Grants
<1>3. /\ Granted(n).waiting \in Seq(Workers) /\ Distinct(Granted(n).waiting)
      /\ ToSet(Granted(n).waiting) =
           {slots.waiting[i] : i \in Grants(n) + 1 .. Len(slots.waiting)}
      /\ ToSet(Granted(n).waiting) \subseteq ToSet(slots.waiting)
  <2> DEFINE q == slots.waiting
             k == Grants(n)
             t == SubSeq(q, k + 1, Len(q))
  <2>1. q \in Seq(Workers) /\ Distinct(q) /\ k \in 0 .. Len(q)
    BY <1>1, <1>2
  <2>2. Granted(n).waiting = t
    BY DEF Granted
  <2>3. /\ t \in Seq(Workers) /\ Distinct(t) /\ ToSet(t) \subseteq ToSet(q)
        /\ ToSet(t) = {q[i] : i \in k + 1 .. Len(q)}
    <3> HIDE DEF q, k
    <3> QED
      BY <2>1, Cut
  <2> HIDE DEF t
  <2> QED
    BY <2>2, <2>3
<1> QED
  BY <1>2, <1>3 DEF Shorter, Granted, SlotType

LEMMA SetMaxStep ==
  ASSUME NEW w \in Workers, NEW n \in 1 .. MaxBrowsers, SetMax(w, n)
  PROVE  slots' = Granted(n) /\ worker' = WakeUp(Granted(n), worker)
  BY DEF SetMax, Granted, Grants

\* Waking up changes only who waited and waits no more: it has a browser to open.
LEMMA Wakes ==
  ASSUME TypeInv, NEW s, Shorter(s),
         NEW ws \in [Workers -> WorkerType],
         \A v \in Workers : Fit(ws[v]) /\ (At(v, "waiting") => ws[v] = worker[v])
  PROVE  /\ WakeUp(s, ws) \in [Workers -> WorkerType]
         /\ \A v \in Workers :
              /\ Fit(WakeUp(s, ws)[v])
              /\ v \notin ToSet(slots.waiting) => WakeUp(s, ws)[v] = ws[v]
              /\ v \in ToSet(s.waiting) => WakeUp(s, ws)[v] = ws[v] /\ ws[v].pc = "waiting"
              /\ v \in ToSet(slots.waiting) \ ToSet(s.waiting) =>
                   WakeUp(s, ws)[v] = [worker[v] EXCEPT !.pc = "launch"]
<1>1. ASSUME NEW v \in Workers
      PROVE  /\ Woken(s, v) <=> v \in ToSet(slots.waiting) \ ToSet(s.waiting)
             /\ Woken(s, v) => At(v, "waiting")
  BY DEF Woken, ToSet, TypeInv, SlotsFit
<1>2. ASSUME NEW v \in Workers, Woken(s, v)
      PROVE  [ws[v] EXCEPT !.pc = "launch"] \in WorkerType
             /\ Fit([ws[v] EXCEPT !.pc = "launch"]) /\ ws[v] = worker[v]
  BY <1>1, <1>2 DEF At, Fit, WorkerType
<1>3. ASSUME NEW v \in Workers
      PROVE  WakeUp(s, ws)[v] = IF Woken(s, v) THEN [ws[v] EXCEPT !.pc = "launch"] ELSE ws[v]
  BY DEF WakeUp
<1>4. WakeUp(s, ws) \in [Workers -> WorkerType]
  BY <1>2 DEF WakeUp
<1>5. ASSUME NEW v \in ToSet(s.waiting) PROVE At(v, "waiting")
  BY DEF Shorter, TypeInv, SlotsFit
<1> QED
  BY <1>1, <1>2, <1>3, <1>4, <1>5 DEF At

\* A worker that rests between two turns.
AtRest == [Resting EXCEPT !.pc = "idle"]

\* The others go on as they were, or get the browser they wait for.
GoesOn(v) == \/ worker'[v] = worker[v]
             \/ At(v, "waiting") /\ worker'[v] = [worker[v] EXCEPT !.pc = "launch"]
Others(w) == \A v \in Workers \ {w} : GoesOn(v)

\* The end of a turn, without a browser or after it.
TurnEnds(w) == Restricted(w) \/ GiveUp(w) \/ NotLaunched(w) \/ Close(w)

LEMMA RestFits == Fit(Resting) /\ Fit(AtRest) /\ AtRest.lead = NoLead /\ AtRest.account = NoAccount
<1>1. 0 \in 0 .. MaxRetries /\ 0 \in 0 .. BatchSize
  BY BoundsAssumption
<1>2. Resting \in WorkerType /\ AtRest \in WorkerType
  BY <1>1 DEF AtRest, Resting, WorkerType, Results, Outcomes
<1> QED
  BY <1>2 DEF Fit, AtRest, Resting

\* A step that wakes workers up and puts one other worker elsewhere.
LEMMA WakeStep ==
  ASSUME TypeInv, NEW w \in Workers, NEW r, Fit(r), r.pc # "waiting",
         NEW s, Shorter(s), w \notin ToSet(s.waiting),
         slots' = s, worker' = [WakeUp(s, worker) EXCEPT ![w] = r]
  PROVE  WorkersFit' /\ SlotsFit' /\ worker'[w] = r /\ Others(w)
<1>1. worker \in [Workers -> WorkerType] /\ \A v \in Workers : Fit(worker[v])
  BY DEF TypeInv, WorkersFit
<1>2. /\ WakeUp(s, worker) \in [Workers -> WorkerType]
      /\ \A v \in Workers :
           /\ Fit(WakeUp(s, worker)[v])
           /\ v \notin ToSet(slots.waiting) => WakeUp(s, worker)[v] = worker[v]
           /\ v \in ToSet(s.waiting) => WakeUp(s, worker)[v] = worker[v] /\ worker[v].pc = "waiting"
           /\ v \in ToSet(slots.waiting) \ ToSet(s.waiting) =>
                WakeUp(s, worker)[v] = [worker[v] EXCEPT !.pc = "launch"]
  BY <1>1, Wakes
<1>3. worker'[w] = r /\ \A v \in Workers \ {w} : worker'[v] = WakeUp(s, worker)[v]
  BY <1>2
<1>4. r \in WorkerType
  BY DEF Fit
<1>5. WorkersFit'
  <2>1. worker' \in [Workers -> WorkerType]
    BY <1>2, <1>4
  <2>2. \A v \in Workers : Fit(worker'[v])
    BY <1>2, <1>3
  <2> QED
    BY <2>1, <2>2 DEF WorkersFit, Fit, WorkerType
<1>6. Others(w)
  <2> SUFFICES ASSUME NEW v \in Workers \ {w} PROVE GoesOn(v)
    BY DEF Others
  <2>1. v \in ToSet(slots.waiting) => At(v, "waiting")
    BY DEF TypeInv, SlotsFit
  <2>2. worker'[v] = WakeUp(s, worker)[v]
    BY <1>3
  <2>3. \/ WakeUp(s, worker)[v] = worker[v]
        \/ v \in ToSet(slots.waiting) /\ WakeUp(s, worker)[v] = [worker[v] EXCEPT !.pc = "launch"]
    BY <1>2
  <2> QED
    BY <2>1, <2>2, <2>3 DEF GoesOn
<1>7. SlotsFit'
  <2>1. s \in SlotType /\ Distinct(s.waiting)
    BY DEF Shorter
  <2>2. ToSet(s.waiting) \subseteq Workers
    BY <2>1, WaitersAreWorkers
  <2>3. \A v \in ToSet(s.waiting) : worker'[v].pc = "waiting"
    BY <2>2, <1>2, <1>3
  <2> QED
    BY <2>1, <2>3 DEF SlotsFit, At, SlotType
<1> QED
  BY <1>3, <1>5, <1>6, <1>7

LEMMA GiveUpShorter ==
  ASSUME TypeInv, NEW i \in DOMAIN slots.waiting,
         slots' = [slots EXCEPT !.waiting = RemoveAt(@, i)]
  PROVE  Shorter(slots') /\ slots.waiting[i] \notin ToSet(slots'.waiting)
         /\ ToSet(slots'.waiting) = ToSet(slots.waiting) \ {slots.waiting[i]}
<1>1. slots \in SlotType /\ slots.waiting \in Seq(Workers) /\ Distinct(slots.waiting)
  BY DEF TypeInv, SlotsFit, SlotType
<1>2. /\ RemoveAt(slots.waiting, i) \in Seq(Workers)
      /\ Distinct(RemoveAt(slots.waiting, i))
      /\ ToSet(RemoveAt(slots.waiting, i)) = ToSet(slots.waiting) \ {slots.waiting[i]}
  BY <1>1, SplitType, Shrinks DEF RemoveAt
<1> QED
  BY <1>1, <1>2 DEF Shorter, SlotType

\* The turn is over; what the worker had in hand was no lead.
LEMMA TurnEndStep ==
  ASSUME TypeInv, NEW w \in Workers, TurnEnds(w)
  PROVE  /\ WorkersFit' /\ SlotsFit' /\ worker'[w] = AtRest /\ Others(w)
         /\ worker[w].lead = NoLead /\ worker[w].account \in Accounts
         /\ UNCHANGED <<todo, tally, borrower, disk, sheet, invited, hist>>
         /\ adrift' \subseteq adrift
         /\ \E i \in IdleType :
              /\ \A a \in Accounts : Finished(a, idle) => Finished(a, i)
              /\ EndTurn(w, i, worker')
<1>0. /\ worker \in [Workers -> WorkerType] /\ \A v \in Workers : Fit(worker[v])
      /\ slots \in SlotType /\ \A v \in ToSet(slots.waiting) : At(v, "waiting")
      /\ idle \in IdleType
  BY DEF TypeInv, WorkersFit, SlotsFit, TypeOK, IdleType
<1>1. worker[w].pc \in {"acquire", "waiting", "launch", "close"}
  BY DEF TurnEnds, Restricted, GiveUp, NotLaunched, LaunchFails, Close, At
<1>2. worker[w].lead = NoLead /\ worker[w].account \in Accounts
  BY <1>0, <1>1 DEF Fit
<1>3. /\ UNCHANGED <<todo, tally, borrower, disk, sheet, invited, hist>>
      /\ adrift' \subseteq adrift
  BY DEF TurnEnds, Restricted, GiveUp, NotLaunched, LaunchFails, Close, EndTurn, CloseSession, world
<1>4. Fit(AtRest) /\ AtRest.pc # "waiting"
  BY RestFits DEF AtRest, Resting
<1>5. Shorter(slots) /\ Shorter(Released)
  BY ReleaseShorter
<1>6. \E s : /\ Shorter(s) /\ w \notin ToSet(s.waiting) /\ slots' = s
             /\ worker' = [WakeUp(s, worker) EXCEPT ![w] = AtRest]
  <2>1. ASSUME NEW s, Shorter(s), \A v \in Workers : v # w => ~Woken(s, v)
        PROVE  [WakeUp(s, worker) EXCEPT ![w] = AtRest] = [worker EXCEPT ![w] = AtRest]
    BY <1>0, <2>1 DEF WakeUp
  <2>2. CASE Restricted(w) \/ (GiveUp(w) /\ At(w, "acquire"))
    <3>1. slots' = slots /\ worker' = [worker EXCEPT ![w] = AtRest] /\ w \notin ToSet(slots.waiting)
      BY <1>0, <2>2 DEF Restricted, GiveUp, EndTurn, AtRest, At
    <3>2. \A v \in Workers : ~Woken(slots, v)
      BY DEF Woken
    <3> QED
      BY <1>5, <2>1, <3>1, <3>2
  <2>3. CASE GiveUp(w) /\ ~At(w, "acquire")
    <3>1. PICK i \in DOMAIN slots.waiting :
            slots.waiting[i] = w /\ slots' = [slots EXCEPT !.waiting = RemoveAt(@, i)]
      BY <2>3 DEF GiveUp
    <3>2. Shorter(slots') /\ ToSet(slots'.waiting) = ToSet(slots.waiting) \ {w}
      BY <3>1, GiveUpShorter
    <3>3. \A v \in Workers : v # w => ~Woken(slots', v)
      BY <3>2 DEF Woken, ToSet
    <3>4. worker' = [worker EXCEPT ![w] = AtRest]
      BY <2>3 DEF GiveUp, EndTurn, AtRest
    <3> QED
      BY <2>1, <3>2, <3>3, <3>4
  <2>4. CASE NotLaunched(w)
    <3>1. /\ At(w, "launch") /\ slots' = Released
          /\ worker' = [WakeUp(Released, worker) EXCEPT ![w] = AtRest]
      BY <2>4 DEF NotLaunched, LaunchFails, EndTurn, AtRest
    <3>2. w \notin ToSet(Released.waiting)
      BY <1>0, <1>5, <3>1 DEF Shorter, At
    <3> QED
      BY <1>5, <3>1, <3>2
  <2>5. CASE Close(w)
    <3>1. /\ At(w, "close") /\ slots' \in {slots, Released}
          /\ worker' = [WakeUp(slots', worker) EXCEPT ![w] = AtRest]
      BY <2>5 DEF Close, CloseSession, EndTurn, AtRest
    <3>2. Shorter(slots') /\ w \notin ToSet(slots'.waiting)
      BY <1>0, <1>5, <3>1 DEF Shorter, At
    <3> QED
      BY <3>1, <3>2
  <2> QED
    BY <2>2, <2>3, <2>4, <2>5 DEF TurnEnds
<1>7. WorkersFit' /\ SlotsFit' /\ worker'[w] = AtRest /\ Others(w)
  BY <1>4, <1>6, WakeStep
<1>8. \E i \in IdleType :
        /\ \A a \in Accounts : Finished(a, idle) => Finished(a, i)
        /\ EndTurn(w, i, worker')
  <2>1. ASSUME NEW i \in IdleType, NEW ws, EndTurn(w, i, ws) PROVE EndTurn(w, i, worker')
    <3>1. worker' = [worker' EXCEPT ![w] = AtRest]
      BY <1>7 DEF WorkersFit
    <3> QED
      BY <2>1, <3>1 DEF EndTurn, AtRest
  <2>2. /\ [idle EXCEPT !.skipped = @ \union {worker[w].account}] \in IdleType
        /\ [idle EXCEPT !.parked = @ \union {worker[w].account}] \in IdleType
        /\ \A a \in Accounts : Finished(a, idle) =>
             /\ Finished(a, [idle EXCEPT !.skipped = @ \union {worker[w].account}])
             /\ Finished(a, [idle EXCEPT !.parked = @ \union {worker[w].account}])
    BY <1>0, <1>2 DEF IdleType, Finished
  <2>3. \E i \in {idle, [idle EXCEPT !.skipped = @ \union {worker[w].account}],
                  [idle EXCEPT !.parked = @ \union {worker[w].account}]} : \E ws : EndTurn(w, i, ws)
    BY DEF TurnEnds, Restricted, GiveUp, NotLaunched, LaunchFails, Close
  <2> QED
    BY <1>0, <2>1, <2>2, <2>3
<1> QED
  BY <1>2, <1>3, <1>7, <1>8

\* A step of one worker that has the semaphore as it was.
LEMMA MoveStep ==
  ASSUME TypeInv, NEW w \in Workers, ~At(w, "waiting"), slots' = slots,
         worker' \in [Workers -> WorkerType], Fit(worker'[w]),
         \A v \in Workers \ {w} : worker'[v] = worker[v]
  PROVE  WorkersFit' /\ SlotsFit'
<1>1. \A v \in Workers : Fit(worker'[v])
  BY DEF TypeInv, WorkersFit
<1>2. WorkersFit'
  BY <1>1 DEF WorkersFit
<1>3. slots \in SlotType /\ Distinct(slots.waiting) /\ \A v \in ToSet(slots.waiting) : At(v, "waiting")
  BY DEF TypeInv, SlotsFit
<1>4. ToSet(slots.waiting) \subseteq Workers
  BY <1>3, WaitersAreWorkers
<1>5. \A v \in ToSet(slots.waiting) : worker'[v].pc = "waiting"
  BY <1>3, <1>4 DEF At
<1>6. SlotsFit'
  BY <1>3, <1>5 DEF SlotsFit, At
<1> QED
  BY <1>2, <1>6

\* Only a turn that has a lead and a send that goes on keep what the worker is about.
OwnSteps(w) ==
    \/ WorkerExit(w) \/ Pausing(w) \/ Unpausing(w) \/ Acquire(w) \/ Launch(w)
    \/ \E a \in Accounts : PickNextProfile(w, a)
    \/ \E l \in Leads : TakeLead(w, l)
    \/ LeadsExhausted(w) \/ TurnOver(w) \/ Invite(w) \/ Unconfirmed(w) \/ Transient(w) \/ Watchdog(w)
    \/ \E result \in Results \ {"sent"} : Refused(w, result)
    \/ Record(w) \/ Stamp(w) \/ StampFails(w) \/ Preempt(w)

LEMMA OwnStep ==
  ASSUME TypeInv, NEW w \in Workers, OwnSteps(w)
  PROVE  /\ WorkersFit' /\ SlotsFit'
         /\ \A v \in Workers \ {w} : worker'[v] = worker[v]
<1>0. worker \in [Workers -> WorkerType] /\ Fit(worker[w]) /\ worker[w] \in WorkerType
  BY DEF TypeInv, WorkersFit, Fit
<1>b. /\ 0 \in 0 .. MaxRetries /\ 1 \in 0 .. MaxRetries
      /\ 0 \in 0 .. BatchSize /\ BatchSize \in 0 .. BatchSize
      /\ \A n \in 0 .. MaxRetries : n < MaxRetries => n + 1 \in 0 .. MaxRetries
      /\ \A n \in 0 .. BatchSize : n > 0 => n - 1 \in 0 .. BatchSize
  BY BoundsAssumption
<1> DEFINE Fine == /\ worker' \in [Workers -> WorkerType] /\ Fit(worker'[w])
                   /\ \A v \in Workers \ {w} : worker'[v] = worker[v]
<1>m. ASSUME ~At(w, "waiting"), slots' = slots, Fine
      PROVE  WorkersFit' /\ SlotsFit' /\ \A v \in Workers \ {w} : worker'[v] = worker[v]
  BY <1>m, MoveStep
<1>r. ASSUME NEW r \in WorkerType, Fit(r), worker' = [worker EXCEPT ![w] = r] PROVE Fine
  BY <1>0, <1>r
<1> HIDE DEF Fine
<1>1. CASE WorkerExit(w)
  BY <1>1, <1>m, <1>r, RestFits DEF WorkerExit, At, Fit
<1>2. CASE Pausing(w)
  <2>1. [worker[w] EXCEPT !.pc = "paused"] \in WorkerType
        /\ Fit([worker[w] EXCEPT !.pc = "paused"])
    BY <1>0, <1>2 DEF Pausing, Fit, WorkerType
  <2> QED
    BY <1>2, <2>1, <1>m, <1>r DEF Pausing, At
<1>3. CASE Unpausing(w)
  <2> DEFINE r == [worker[w] EXCEPT !.pc = IF worker[w].account = NoAccount THEN "idle" ELSE "turn"]
  <2>1. r \in WorkerType /\ Fit(r)
    BY <1>0, <1>3 DEF Unpausing, Fit, WorkerType, At
  <2>2. worker' = [worker EXCEPT ![w] = r]
    BY <1>3 DEF Unpausing
  <2> HIDE DEF r
  <2> QED
    BY <1>3, <2>1, <2>2, <1>m, <1>r DEF Unpausing, At
<1>4. CASE Launch(w)
  <2> DEFINE r == [worker[w] EXCEPT !.pc = "turn", !.left = BatchSize]
  <2>1. r \in WorkerType /\ Fit(r)
    BY <1>0, <1>b, <1>4 DEF Launch, Fit, WorkerType, At
  <2>2. worker' = [worker EXCEPT ![w] = r]
    BY <1>4 DEF Launch
  <2> HIDE DEF r
  <2> QED
    BY <1>4, <2>1, <2>2, <1>m, <1>r DEF Launch, At
<1>5. ASSUME NEW a \in Accounts, PickNextProfile(w, a)
      PROVE  WorkersFit' /\ SlotsFit' /\ \A v \in Workers \ {w} : worker'[v] = worker[v]
  <2> DEFINE r == [Resting EXCEPT !.pc = "acquire", !.account = a]
  <2>0. Resting \in WorkerType /\ Resting.lead = NoLead /\ Resting.result = "left"
    BY RestFits DEF Fit, Resting
  <2>1. r \in WorkerType /\ Fit(r)
    BY <2>0 DEF Fit, WorkerType
  <2>2. worker' = [worker EXCEPT ![w] = r]
    BY <1>5 DEF PickNextProfile
  <2> HIDE DEF r
  <2> QED
    BY <1>5, <2>1, <2>2, <1>m, <1>r DEF PickNextProfile, At
<1>6. ASSUME NEW l \in Leads, TakeLead(w, l)
      PROVE  WorkersFit' /\ SlotsFit' /\ \A v \in Workers \ {w} : worker'[v] = worker[v]
  <2> DEFINE r == [worker[w] EXCEPT !.pc = "send", !.lead = l, !.tries = 1, !.left = @ - 1, !.moved = TRUE]
  <2>0. worker[w].left - 1 \in 0 .. BatchSize
    BY <1>0, <1>b, <1>6 DEF TakeLead, Goes, WorkerType
  <2>1. r \in WorkerType /\ Fit(r)
    BY <1>0, <1>b, <1>6, <2>0, BoundsAssumption DEF TakeLead, Fit, WorkerType, At
  <2>2. worker' = [worker EXCEPT ![w] = r]
    BY <1>6 DEF TakeLead
  <2> HIDE DEF r
  <2> QED
    BY <1>6, <2>1, <2>2, <1>m, <1>r DEF TakeLead, At
<1>7. CASE LeadsExhausted(w) \/ TurnOver(w)
  <2> DEFINE r == [worker[w] EXCEPT !.pc = "close"]
  <2>1. r \in WorkerType /\ Fit(r)
    BY <1>0, <1>7 DEF LeadsExhausted, TurnOver, Fit, WorkerType, At
  <2>2. worker' = [worker EXCEPT ![w] = r]
    BY <1>7 DEF LeadsExhausted, TurnOver
  <2> HIDE DEF r
  <2> QED
    BY <1>7, <2>1, <2>2, <1>m, <1>r DEF LeadsExhausted, TurnOver, At
<1>8. ASSUME NEW result \in Results, At(w, "send"), slots' = slots, Result(w, result)
      PROVE  WorkersFit' /\ SlotsFit' /\ \A v \in Workers \ {w} : worker'[v] = worker[v]
  <2> DEFINE r == [worker[w] EXCEPT !.pc = "record", !.result = result]
  <2>1. r \in WorkerType /\ Fit(r)
    BY <1>0, <1>8 DEF Fit, WorkerType, At
  <2>2. worker' = [worker EXCEPT ![w] = r]
    BY <1>8 DEF Result
  <2> HIDE DEF r
  <2> QED
    BY <1>8, <2>1, <2>2, <1>m, <1>r DEF At
<1>9. CASE Transient(w) \/ Watchdog(w)
  <2>1. At(w, "send") /\ slots' = slots /\ RetryOrSkip(w)
    BY <1>9 DEF Transient, Watchdog
  <2>2. CASE Result(w, "skipped")
    BY <1>8, <2>1, <2>2 DEF Results, Outcomes
  <2>3. CASE worker[w].tries < MaxRetries /\ worker' = [worker EXCEPT ![w].tries = @ + 1]
    <3> DEFINE r == [worker[w] EXCEPT !.tries = @ + 1]
    <3>0. worker[w].tries + 1 \in 0 .. MaxRetries
      BY <1>0, <1>b, <2>3 DEF WorkerType
    <3>1. r \in WorkerType /\ Fit(r)
      BY <1>0, <3>0 DEF Fit, WorkerType
    <3>2. worker' = [worker EXCEPT ![w] = r]
      BY <2>3
    <3> HIDE DEF r
    <3> QED
      BY <2>1, <3>1, <3>2, <1>m, <1>r DEF At
  <2> QED
    BY <2>1, <2>2, <2>3 DEF RetryOrSkip
<1>10. CASE Invite(w) \/ Unconfirmed(w) \/ \E result \in Results \ {"sent"} : Refused(w, result)
  BY <1>10, <1>8 DEF Invite, Unconfirmed, Refused, Results, Outcomes
<1>11. CASE Record(w)
  <2> DEFINE r == [worker[w] EXCEPT !.pc = "stamp"]
  <2>1. r \in WorkerType /\ Fit(r)
    BY <1>0, <1>11 DEF Record, Fit, WorkerType, At
  <2>2. worker' = [worker EXCEPT ![w] = r]
    BY <1>11 DEF Record
  <2> HIDE DEF r
  <2> QED
    BY <1>11, <2>1, <2>2, <1>m, <1>r DEF Record, At
<1>12. CASE Stamp(w) \/ StampFails(w)
  <2> DEFINE r == [worker[w] EXCEPT !.pc = "turn", !.lead = NoLead, !.result = "left"]
  <2>1. r \in WorkerType /\ Fit(r)
    BY <1>0, <1>12 DEF Stamp, StampFails, Stamps, Fit, WorkerType, At, Results, Outcomes
  <2>2. worker' = [worker EXCEPT ![w] = r]
    BY <1>12 DEF Stamp, StampFails, Stamps
  <2> HIDE DEF r
  <2> QED
    BY <1>12, <2>1, <2>2, <1>m, <1>r DEF Stamp, StampFails, Stamps, At
<1>13. CASE Preempt(w)
  <2> DEFINE r == [worker[w] EXCEPT !.pc = "turn", !.lead = NoLead]
  <2>1. r \in WorkerType /\ Fit(r)
    BY <1>0, <1>13 DEF Preempt, Fit, WorkerType, At
  <2>2. worker' = [worker EXCEPT ![w] = r]
    BY <1>13 DEF Preempt
  <2> HIDE DEF r
  <2> QED
    BY <1>13, <2>1, <2>2, <1>m, <1>r DEF Preempt, At
<1>14. CASE Acquire(w)
  <2>0. At(w, "acquire")
    BY <1>14 DEF Acquire
  <2>1. CASE slots.count < slots.max
    <3> DEFINE r == [worker[w] EXCEPT !.pc = "launch"]
    <3>1. r \in WorkerType /\ Fit(r)
      BY <1>0, <2>0 DEF Fit, WorkerType, At
    <3>2. worker' = [worker EXCEPT ![w] = r] /\ slots' = [slots EXCEPT !.count = @ + 1]
      BY <1>14, <2>1 DEF Acquire
    <3> HIDE DEF r
    <3>3. Fine
      BY <3>1, <3>2, <1>r
    <3>4. slots \in SlotType /\ Distinct(slots.waiting)
          /\ \A v \in ToSet(slots.waiting) : At(v, "waiting")
      BY DEF TypeInv, SlotsFit
    <3>5. slots' \in SlotType /\ slots'.waiting = slots.waiting
      <4>1. slots.count + 1 \in 0 .. MaxBrowsers
        BY <2>1, <3>4, BoundsAssumption DEF SlotType
      <4> QED
        BY <3>2, <3>4, <4>1 DEF SlotType
    <3>6. ToSet(slots.waiting) \subseteq Workers
      BY <3>4, WaitersAreWorkers
    <3>7. SlotsFit'
      BY <2>0, <3>3, <3>4, <3>5, <3>6 DEF SlotsFit, At, Fine
    <3>8. \A v \in Workers : Fit(worker'[v])
      BY <3>3 DEF Fine, TypeInv, WorkersFit
    <3>9. WorkersFit'
      BY <3>3, <3>8 DEF WorkersFit, Fine
    <3> QED
      BY <3>3, <3>7, <3>9 DEF Fine
  <2>2. CASE ~(slots.count < slots.max)
    <3> DEFINE r == [worker[w] EXCEPT !.pc = "waiting"]
    <3>1. r \in WorkerType /\ Fit(r) /\ r.pc = "waiting"
      BY <1>0, <2>0 DEF Fit, WorkerType, At
    <3>2. worker' = [worker EXCEPT ![w] = r] /\ slots' = [slots EXCEPT !.waiting = Append(@, w)]
      BY <1>14, <2>2 DEF Acquire
    <3> HIDE DEF r
    <3>3. Fine /\ worker'[w].pc = "waiting"
      BY <3>1, <3>2, <1>0, <1>r
    <3>4. slots \in SlotType /\ Distinct(slots.waiting) /\ slots.waiting \in Seq(Workers)
          /\ \A v \in ToSet(slots.waiting) : At(v, "waiting")
      BY DEF TypeInv, SlotsFit, SlotType
    <3>5. /\ Append(slots.waiting, w) \in Seq(Workers)
          /\ Distinct(Append(slots.waiting, w))
          /\ ToSet(Append(slots.waiting, w)) = ToSet(slots.waiting) \union {w}
      <4>1. w \notin ToSet(slots.waiting)
        BY <2>0, <3>4 DEF At
      <4> QED
        BY <3>4, <4>1, Grows, AppendProperties
    <3>6. slots' \in SlotType /\ slots'.waiting = Append(slots.waiting, w)
      BY <3>2, <3>4, <3>5 DEF SlotType
    <3>7. ToSet(slots.waiting) \subseteq Workers
      BY <3>4, WaitersAreWorkers
    <3>8. SlotsFit'
      BY <3>3, <3>4, <3>5, <3>6, <3>7 DEF SlotsFit, At, Fine
    <3>9. \A v \in Workers : Fit(worker'[v])
      BY <3>3 DEF Fine, TypeInv, WorkersFit
    <3>10. WorkersFit'
      BY <3>3, <3>9 DEF WorkersFit, Fine
    <3> QED
      BY <3>3, <3>8, <3>10 DEF Fine
  <2> QED
    BY <2>1, <2>2
<1> QED
  BY <1>1, <1>2, <1>3, <1>4, <1>5, <1>6, <1>7, <1>9, <1>10, <1>11, <1>12, <1>13, <1>14 DEF OwnSteps

\* A page that no longer answers, the follow-up runner's browser given back, another cap.
LEMMA WakeAll ==
  ASSUME TypeInv, NEW s, Shorter(s), NEW ws \in [Workers -> WorkerType],
         \A v \in Workers : Fit(ws[v]) /\ (At(v, "waiting") => ws[v] = worker[v]),
         slots' = s, worker' = WakeUp(s, ws)
  PROVE  /\ WorkersFit' /\ SlotsFit'
         /\ \A v \in Workers : \/ worker'[v] = ws[v]
                               \/ At(v, "waiting") /\ worker'[v] = [worker[v] EXCEPT !.pc = "launch"]
<1>1. /\ WakeUp(s, ws) \in [Workers -> WorkerType]
      /\ \A v \in Workers :
           /\ Fit(WakeUp(s, ws)[v])
           /\ v \notin ToSet(slots.waiting) => WakeUp(s, ws)[v] = ws[v]
           /\ v \in ToSet(s.waiting) => WakeUp(s, ws)[v] = ws[v] /\ ws[v].pc = "waiting"
           /\ v \in ToSet(slots.waiting) \ ToSet(s.waiting) =>
                WakeUp(s, ws)[v] = [worker[v] EXCEPT !.pc = "launch"]
  BY Wakes
<1>2. WorkersFit'
  BY <1>1 DEF WorkersFit
<1>3. s \in SlotType /\ Distinct(s.waiting) /\ ToSet(s.waiting) \subseteq Workers
  BY WaitersAreWorkers DEF Shorter
<1>4. \A v \in ToSet(s.waiting) : worker'[v].pc = "waiting"
  BY <1>1, <1>3
<1>5. SlotsFit'
  BY <1>3, <1>4 DEF SlotsFit, At
<1>6. ASSUME NEW v \in Workers
      PROVE  \/ worker'[v] = ws[v]
             \/ At(v, "waiting") /\ worker'[v] = [worker[v] EXCEPT !.pc = "launch"]
  <2>1. v \in ToSet(slots.waiting) => At(v, "waiting")
    BY DEF TypeInv, SlotsFit
  <2> QED
    BY <1>1, <2>1
<1> QED
  BY <1>2, <1>5, <1>6

LEMMA PageWedgedStep ==
  ASSUME TypeInv, NEW w \in Workers, PageWedged(w)
  PROVE  /\ WorkersFit' /\ SlotsFit' /\ Others(w)
         /\ worker'[w] = [worker[w] EXCEPT !.pc = "close", !.lead = NoLead]
         /\ worker[w].lead \in Leads /\ worker[w].account \in Accounts /\ adrift' \subseteq adrift
         /\ slots' = IF worker[w].account \in sessions THEN Released ELSE slots
<1> DEFINE r == [worker[w] EXCEPT !.pc = "close", !.lead = NoLead]
           ws == [worker EXCEPT ![w] = r]
<1>1. worker \in [Workers -> WorkerType] /\ \A v \in Workers : Fit(worker[v])
  BY DEF TypeInv, WorkersFit
<1>2. At(w, "send")
  BY DEF PageWedged
<1>3. r \in WorkerType /\ Fit(r)
  BY <1>1, <1>2 DEF Fit, WorkerType, At
<1>4. worker[w].lead \in Leads /\ worker[w].account \in Accounts
  BY <1>1, <1>2 DEF Fit, WorkerType, At
<1>5. /\ worker' = WakeUp(slots', ws)
      /\ slots' = IF worker[w].account \in sessions THEN Released ELSE slots
      /\ adrift' \subseteq adrift
  BY DEF PageWedged, CloseSession
<1> HIDE DEF r
<1>6. ws \in [Workers -> WorkerType] /\ ws[w] = r /\ \A v \in Workers \ {w} : ws[v] = worker[v]
  BY <1>1, <1>3
<1> HIDE DEF ws
<1>7. \A v \in Workers : Fit(ws[v]) /\ (At(v, "waiting") => ws[v] = worker[v])
  BY <1>1, <1>2, <1>3, <1>6 DEF At
<1>8. Shorter(slots')
  BY <1>5, ReleaseShorter
<1>9. /\ WorkersFit' /\ SlotsFit'
      /\ \A v \in Workers : \/ worker'[v] = ws[v]
                            \/ At(v, "waiting") /\ worker'[v] = [worker[v] EXCEPT !.pc = "launch"]
  <2> DEFINE s == slots'
  <2>1. Shorter(s) /\ slots' = s /\ worker' = WakeUp(s, ws)
    BY <1>5, <1>8
  <2> HIDE DEF s
  <2> QED
    BY <1>6, <1>7, <2>1, WakeAll
<1>10. worker'[w] = r
  BY <1>2, <1>6, <1>9 DEF At
<1>11. Others(w)
  BY <1>6, <1>9 DEF Others, GoesOn
<1> QED
  BY <1>4, <1>5, <1>9, <1>10, <1>11 DEF r

\* Nobody but the waiters is concerned when a slot is given back or the cap is set.
LEMMA WakeOnlyStep ==
  ASSUME TypeInv, GiveBack \/ \E w \in Workers : \E n \in 1 .. MaxBrowsers : SetMax(w, n)
  PROVE  WorkersFit' /\ SlotsFit' /\ \A v \in Workers : GoesOn(v)
<1>1. \E s : Shorter(s) /\ slots' = s /\ worker' = WakeUp(s, worker)
  BY ReleaseShorter, GrantShorter, SetMaxStep DEF GiveBack
<1>2. /\ worker \in [Workers -> WorkerType]
      /\ \A v \in Workers : Fit(worker[v]) /\ (At(v, "waiting") => worker[v] = worker[v])
  BY DEF TypeInv, WorkersFit
<1> QED
  BY <1>1, <1>2, WakeAll DEF GoesOn

\* The workers of a new run, and of none.
LEMMA FreshStep ==
  ASSUME TypeInv, StartCampaign \/ Crash
  PROVE  /\ WorkersFit' /\ SlotsFit'
         /\ \A w \in Workers : worker'[w] = IF run'.on THEN AtRest ELSE Resting
<1>1. worker' = [w \in Workers |-> IF run'.on THEN AtRest ELSE Resting] /\ slots' = FreeSlots
  <2>1. CASE StartCampaign
    BY <2>1 DEF StartCampaign, AtRest, Stopped
  <2>2. CASE Crash
    BY <2>2 DEF Crash, Stopped
  <2> QED
    BY <2>1, <2>2
<1>2. FreeSlots \in SlotType /\ FreeSlots.waiting = <<>>
  BY BoundsAssumption DEF FreeSlots, SlotType
<1>3. Distinct(<<>>) /\ ToSet(<<>>) = {}
  BY DEF Distinct, ToSet
<1>4. SlotsFit'
  BY <1>1, <1>2, <1>3 DEF SlotsFit
<1>5. AtRest \in WorkerType /\ Resting \in WorkerType
  BY RestFits DEF Fit
<1>6. WorkersFit'
  BY <1>1, <1>5, RestFits DEF WorkersFit
<1> QED
  BY <1>1, <1>4, <1>6

\* The steps that concern no worker.
Aside == \/ Finish \/ (\E s \in Accounts \X Leads : AdriftLands(s))
         \/ (\E l \in Leads : Flush(l) \/ FlushUnconfirmed(l))
         \/ Stop \/ Pause \/ Resume \/ (\E a \in Accounts : Bench(a) \/ Unbench(a) \/ RetryParked(a))
         \/ Borrow \/ UNCHANGED vars

LEMMA AsideStep == ASSUME TypeInv, Aside PROVE worker' = worker /\ WorkersFit' /\ SlotsFit'
<1>1. worker' = worker
  BY DEF Aside, Finish, AdriftLands, Flush, FlushUnconfirmed, Stop, Pause, Resume, Bench,
     Unbench, RetryParked, Borrow, vars
<1>2. WorkersFit'
  BY <1>1 DEF TypeInv, WorkersFit
<1>3. slots \in SlotType /\ Distinct(slots.waiting) /\ \A v \in ToSet(slots.waiting) : At(v, "waiting")
  BY DEF TypeInv, SlotsFit
<1>4. slots' \in SlotType /\ slots'.waiting = slots.waiting
  <2>1. CASE Borrow
    BY <1>3, <2>1, BoundsAssumption DEF Borrow, SlotType
  <2>2. CASE ~Borrow
    BY <1>3, <2>2 DEF Aside, Finish, AdriftLands, Flush, FlushUnconfirmed, Stop, Pause,
       Resume, Bench, Unbench, RetryParked, vars
  <2> QED
    BY <2>1, <2>2
<1> QED
  BY <1>1, <1>2, <1>3, <1>4 DEF SlotsFit, At

\* Every step is one of these.
LEMMA StepKinds ==
  ASSUME [Next]_vars
  PROVE  \/ \E w \in Workers : TurnEnds(w) \/ OwnSteps(w) \/ PageWedged(w)
         \/ GiveBack \/ (\E w \in Workers : \E n \in 1 .. MaxBrowsers : SetMax(w, n))
         \/ StartCampaign \/ Crash \/ Aside
<1>1. ASSUME NEW w \in Workers, Worker(w) PROVE TurnEnds(w) \/ OwnSteps(w) \/ PageWedged(w)
  BY <1>1 DEF Worker, TurnEnds, OwnSteps
<1> QED
  BY <1>1 DEF Next, Operator, Aside, OwnSteps

\* A run ends when its workers have left.
LEMMA RunNext == TypeInv /\ [Next]_vars => RunFit'
<1> SUFFICES ASSUME TypeInv, [Next]_vars PROVE RunFit'
  OBVIOUS
<1>0. run \in RunType /\ (run.on \/ \A w \in Workers : At(w, "off"))
  BY DEF TypeInv, RunFit
<1>k. ASSUME run' \in RunType, run'.on = run.on, run.on \/ \A w \in Workers : worker'[w].pc = "off"
      PROVE  RunFit'
  BY <1>k DEF RunFit, At
<1>u. ASSUME run' = run, run.on \/ \A w \in Workers : worker'[w].pc = "off" PROVE RunFit'
  BY <1>0, <1>u, <1>k
<1>1. ASSUME NEW w \in Workers, TurnEnds(w) PROVE RunFit'
  <2>1. PICK i : EndTurn(w, i, worker')
    BY <1>1, TurnEndStep
  <2>2. run' \in RunType /\ run'.on = run.on
    BY <1>0, <2>1 DEF EndTurn, RunType
  <2>3. run.on
    BY <1>0, <1>1 DEF TurnEnds, Restricted, GiveUp, NotLaunched, LaunchFails, Close, At
  <2> QED
    BY <2>2, <2>3, <1>k
<1>2. ASSUME NEW w \in Workers, OwnSteps(w) PROVE RunFit'
  <2>1. run.on
    BY <1>0, <1>2 DEF OwnSteps, WorkerExit, Pausing, Unpausing, Acquire, Launch, PickNextProfile, TakeLead,
       LeadsExhausted, TurnOver, Invite, Unconfirmed, Transient, Watchdog, Refused, Record, Stamp, StampFails, Stamps, Preempt, At
  <2>2. run' \in RunType /\ run'.on = run.on
    BY <1>0, <1>2 DEF OwnSteps, WorkerExit, Pausing, Unpausing, Acquire, Launch, PickNextProfile, TakeLead,
       LeadsExhausted, TurnOver, Invite, Unconfirmed, Transient, Watchdog, Refused, Record, Stamp, StampFails, Stamps, Preempt, RunType
  <2> QED
    BY <2>1, <2>2, <1>k
<1>3. ASSUME NEW w \in Workers, PageWedged(w) PROVE RunFit'
  <2>1. run' = run /\ run.on
    BY <1>0, <1>3 DEF PageWedged, At
  <2> QED
    BY <2>1, <1>u
<1>4. CASE GiveBack \/ \E w \in Workers : \E n \in 1 .. MaxBrowsers : SetMax(w, n)
  <2>1. run' = run
    BY <1>4 DEF GiveBack, SetMax
  <2>2. \A v \in Workers : GoesOn(v)
    BY <1>4, WakeOnlyStep
  <2>3. run.on \/ \A w \in Workers : worker'[w].pc = "off"
    BY <1>0, <2>2 DEF GoesOn, At
  <2> QED
    BY <2>1, <2>3, <1>u
<1>5. CASE StartCampaign \/ Crash
  <2>1. run' \in RunType
    <3>1. Stopped \in RunType /\ [Stopped EXCEPT !.on = TRUE] \in RunType
      BY DEF Stopped, RunType
    <3>2. run' = Stopped \/ run' = [Stopped EXCEPT !.on = TRUE]
      BY <1>5 DEF StartCampaign, Crash
    <3> QED
      BY <3>1, <3>2
  <2>2. run'.on \/ \A w \in Workers : worker'[w].pc = "off"
    BY <1>5, FreshStep DEF Resting
  <2> QED
    BY <2>1, <2>2 DEF RunFit, At
<1>6. CASE Aside
  <2>1. worker' = worker
    BY <1>6, AsideStep
  <2>2. CASE Finish
    BY <1>0, <2>1, <2>2 DEF Finish, RunFit, RunType, At
  <2>3. CASE Stop \/ Pause \/ Resume
    BY <1>0, <2>1, <2>3, <1>k DEF Stop, Pause, Resume, RunType, At
  <2>4. CASE ~(Finish \/ Stop \/ Pause \/ Resume)
    <3>1. run' = run
      BY <1>6, <2>4 DEF Aside, AdriftLands, Flush, FlushUnconfirmed, Bench,
         Unbench, RetryParked, Borrow, vars
    <3> QED
      BY <1>0, <2>1, <3>1, <1>u DEF At
  <2> QED
    BY <2>2, <2>3, <2>4
<1> QED
  BY <1>1, <1>2, <1>3, <1>4, <1>5, <1>6, StepKinds

PlanType  == /\ todo \subseteq Leads /\ queue \subseteq Accounts /\ idle \in IdleType
             /\ tally \in [Accounts -> 0 .. DailyLimit] /\ stalls \in [Accounts -> 0 .. MaxStalls]
MemType   == memory \in [Leads -> [account: Accounts \union {NoAccount},
                                   action: {"none", "_in_progress", "sent"}]]
SheetType == /\ outbox \in [Leads -> Seq(Outcomes)]
             /\ sheet \in [Leads -> Outcomes \union {"blank"}]
             /\ stamped \in [Leads -> Outcomes \union {"blank"}]
WorldType == /\ invited \subseteq Accounts \X Leads /\ adrift \subseteq Accounts \X Leads
             /\ sessions \subseteq Accounts /\ borrower \in BOOLEAN /\ exposed \subseteq Leads
             /\ trouble \in 0 .. MaxTrouble /\ ops \in 0 .. MaxOps

LEMMA TypeParts ==
  /\ TypeInv => PlanType /\ MemType /\ SheetType /\ WorldType
  /\ PlanType /\ MemType /\ SheetType /\ WorldType /\ WorkersFit /\ SlotsFit /\ RunFit => TypeInv
  BY DEF TypeInv, TypeOK, PlanType, MemType, SheetType, WorldType, WorkersFit, SlotsFit, RunFit, WorkerType,
     SlotType, IdleType, RunType

\* What a worker has in hand at each step.
LEMMA HandFacts ==
  ASSUME TypeInv, NEW w \in Workers
  PROVE  /\ worker[w].pc \notin {"off", "idle", "paused"} => worker[w].account \in Accounts
         /\ worker[w].pc \in {"off", "idle"} => worker[w].account = NoAccount
         /\ worker[w].account \in Accounts \union {NoAccount}
         /\ worker[w].pc \in {"send", "record", "stamp"} => worker[w].lead \in Leads
         /\ worker[w].pc \notin {"send", "record", "stamp"} => worker[w].lead = NoLead
         /\ worker[w].pc \notin {"record", "stamp"} => worker[w].result = "left"
         /\ worker[w].lead \in Leads \union {NoLead}
  BY DEF TypeInv, WorkersFit, Fit, WorkerType

LEMMA PlanNext == TypeInv /\ [Next]_vars => PlanType'
<1> SUFFICES ASSUME TypeInv, [Next]_vars PROVE PlanType'
  OBVIOUS
<1>0. PlanType
  BY TypeParts
<1>b. /\ DailyLimit \in Nat /\ MaxStalls \in Nat
      /\ \A n \in 0 .. MaxStalls : n < MaxStalls => n + 1 \in 0 .. MaxStalls
      /\ \A n \in 0 .. DailyLimit : ~(n >= DailyLimit) => n + 1 \in 0 .. DailyLimit
      /\ 0 \in 0 .. MaxStalls /\ MaxStalls \in 0 .. MaxStalls /\ 0 \in 0 .. DailyLimit
  BY BoundsAssumption
<1>u. ASSUME UNCHANGED plan PROVE PlanType'
  BY <1>0, <1>u DEF PlanType, plan
<1>1. ASSUME NEW w \in Workers, TurnEnds(w) PROVE PlanType'
  <2>1. PICK i \in IdleType : EndTurn(w, i, worker')
    BY <1>1, TurnEndStep
  <2>2. worker[w].account \in Accounts
    BY <1>1, TurnEndStep
  <2>3. Recorded(w, i) \in 0 .. MaxStalls
    BY <1>0, <1>b, <2>2 DEF Recorded, PlanType
  <2> QED
    BY <1>0, <2>1, <2>2, <2>3 DEF EndTurn, PlanType, IdleType
<1>2. ASSUME NEW w \in Workers, OwnSteps(w) PROVE PlanType'
  <2>1. CASE Record(w)
    <3>1. worker[w].account \in Accounts
      BY <2>1, HandFacts DEF Record, At
    <3>2. tally' \in [Accounts -> 0 .. DailyLimit]
      BY <1>0, <1>b, <2>1, <3>1 DEF Record, PlanType, Capped
    <3>3. idle' \in IdleType
      BY <1>0, <2>1, <3>1 DEF Record, PlanType, IdleType, Parked
    <3> QED
      BY <1>0, <2>1, <3>2, <3>3 DEF Record, PlanType
  <2>2. CASE ~Record(w)
    <3>1. UNCHANGED plan \/ (UNCHANGED <<idle, tally, stalls>> /\ todo' \subseteq todo /\ queue' \subseteq queue)
      BY <1>2, <2>2 DEF OwnSteps, WorkerExit, Pausing, Unpausing, Acquire, Launch, PickNextProfile, TakeLead,
         Taken, LeadsExhausted, TurnOver, Invite, Unconfirmed, Transient, Watchdog, Refused, Stamp, StampFails, Stamps, Preempt, plan
    <3> QED
      BY <1>0, <3>1, <1>u DEF PlanType
  <2> QED
    BY <2>1, <2>2
<1>3. ASSUME NEW w \in Workers, PageWedged(w) PROVE PlanType'
  BY <1>3, <1>u DEF PageWedged
<1>4. CASE GiveBack \/ \E w \in Workers : \E n \in 1 .. MaxBrowsers : SetMax(w, n)
  BY <1>4, <1>u DEF GiveBack, SetMax
<1>5. CASE StartCampaign
  <2>1. \A a \in Accounts : Seeded(a) \in 0 .. DailyLimit
    <3>1. MemType /\ IsFiniteSet(Leads)
      BY TypeParts, BoundsAssumption
    <3>2. \A a \in Accounts : SentToday(a) \in Nat
      BY <3>1, FS_Subset, FS_CardinalityType DEF SentToday
    <3> QED
      BY <1>b, <3>2 DEF Seeded
  <2> QED
    BY <1>b, <1>5, <2>1 DEF StartCampaign, PlanType, AllRun, IdleType
<1>6. CASE Crash
  BY <1>b, <1>6 DEF Crash, PlanType, AllRun, IdleType
<1>7. CASE Aside
  <2>1. ASSUME NEW a \in Accounts, Bench(a) \/ Unbench(a) \/ RetryParked(a)
        PROVE  PlanType'
    <3>1. idle' \in IdleType /\ queue' \subseteq Accounts
      BY <1>0, <2>1 DEF Bench, Unbench, RetryParked, Requeued, PlanType, IdleType
    <3> QED
      BY <1>0, <2>1, <3>1 DEF Bench, Unbench, RetryParked, PlanType
  <2>2. CASE Resume
    BY <1>0, <1>b, <2>2 DEF Resume, PlanType
  <2>3. CASE ~(Resume \/ \E a \in Accounts : Bench(a) \/ Unbench(a) \/ RetryParked(a))
    BY <1>7, <2>3, <1>u DEF Aside, Finish, AdriftLands, Flush, FlushUnconfirmed, Stop, Pause, Borrow, vars
  <2> QED
    BY <2>1, <2>2, <2>3
<1> QED
  BY <1>1, <1>2, <1>3, <1>4, <1>5, <1>6, <1>7, StepKinds

LEMMA MemNext == TypeInv /\ [Next]_vars => MemType'
<1> SUFFICES ASSUME TypeInv, [Next]_vars PROVE MemType'
  OBVIOUS
<1>0. MemType
  BY TypeParts
<1>u. ASSUME memory' = memory PROVE MemType'
  BY <1>0, <1>u DEF MemType
<1> DEFINE Note == [account: Accounts \union {NoAccount}, action: {"none", "_in_progress", "sent"}]
<1>n. Unknown \in Note
  BY DEF Unknown
<1>1. ASSUME NEW w \in Workers, OwnSteps(w) PROVE MemType'
  <2>1. ASSUME NEW l \in Leads, TakeLead(w, l) PROVE MemType'
    <3>1. worker[w].account \in Accounts
      BY <2>1, HandFacts DEF TakeLead, At
    <3> QED
      BY <1>0, <2>1, <3>1 DEF TakeLead, MemType
  <2>2. CASE Record(w)
    <3>1. worker[w].account \in Accounts /\ worker[w].lead \in Leads
      BY <2>2, HandFacts DEF Record, At
    <3>2. \E n \in Note : memory' = [memory EXCEPT ![worker[w].lead] = n]
      <4>1. CASE worker[w].result = "sent"
        BY <2>2, <3>1, <4>1 DEF Record
      <4>2. CASE worker[w].result = "capped"
        BY <1>0, <2>2, <3>1, <4>2 DEF Record, MemType
      <4>3. CASE worker[w].result \notin {"sent", "capped"}
        BY <1>n, <2>2, <3>1, <4>3 DEF Record
      <4> QED
        BY <4>1, <4>2, <4>3
    <3> QED
      BY <1>0, <3>1, <3>2 DEF MemType
  <2>3. CASE ~Record(w) /\ ~\E l \in Leads : TakeLead(w, l)
    BY <1>1, <2>3, <1>u DEF OwnSteps, WorkerExit, Pausing, Unpausing, Acquire, Launch, PickNextProfile,
       LeadsExhausted, TurnOver, Invite, Unconfirmed, Transient, Watchdog, Refused, Stamp, StampFails, Stamps, Preempt, disk
  <2> QED
    BY <2>1, <2>2, <2>3
<1>2. ASSUME NEW w \in Workers, TurnEnds(w) \/ PageWedged(w) PROVE MemType'
  BY <1>2, <1>u, TurnEndStep DEF PageWedged, disk
<1>3. CASE StartCampaign
  BY <1>0, <1>n, <1>3 DEF StartCampaign, MemType
<1>4. CASE Crash \/ Aside \/ GiveBack \/ \E w \in Workers : \E n \in 1 .. MaxBrowsers : SetMax(w, n)
  BY <1>4, <1>u DEF Crash, Aside, Finish, AdriftLands, Flush, FlushUnconfirmed, Stop, Pause, Resume,
     Bench, Unbench, RetryParked, Borrow, GiveBack, SetMax, vars, disk
<1> QED
  BY <1>1, <1>2, <1>3, <1>4, StepKinds

\* The write that goes first, and what is left of a row's outbox.
LEMMA OutboxFacts ==
  ASSUME SheetType, NEW l \in Leads, outbox[l] # <<>>
  PROVE  /\ NextWrite(l).write \in Outcomes
         /\ NextWrite(l).rest \in Seq(Outcomes)
         /\ NextWrite(l).rest # <<>> => Last(NextWrite(l).rest) = Last(outbox[l])
         /\ NextWrite(l).rest = <<>> => NextWrite(l).write = Last(outbox[l])
<1> DEFINE q == outbox[l]
<1>1. q \in Seq(Outcomes) /\ q # <<>>
  BY DEF SheetType
<1>2. /\ Head(q) \in Outcomes /\ Tail(q) \in Seq(Outcomes) /\ Len(Tail(q)) = Len(q) - 1
      /\ \A i \in 1 .. Len(Tail(q)) : Tail(q)[i] = q[i + 1]
      /\ Len(q) \in Nat \ {0} /\ Head(q) = q[1]
  BY <1>1, HeadTailProperties, EmptySeq
<1> HIDE DEF q
<1>3. Tail(q) # <<>> => Len(Tail(q)) \in Nat \ {0}
  BY <1>2, EmptySeq
<1>4. Tail(q) # <<>> => Tail(q)[Len(Tail(q))] = q[Len(q)]
  <2> SUFFICES ASSUME Tail(q) # <<>> PROVE Tail(q)[Len(Tail(q))] = q[Len(q)]
    OBVIOUS
  <2>1. Len(Tail(q)) \in 1 .. Len(Tail(q)) /\ Len(Tail(q)) + 1 = Len(q)
    BY <1>2, <1>3
  <2>2. Tail(q)[Len(Tail(q))] = q[Len(Tail(q)) + 1]
    BY <1>2, <2>1
  <2> QED
    BY <2>1, <2>2
<1>5. Tail(q) = <<>> => Len(q) = 1
  <2>1. Len(<<>>) = 0
    BY EmptySeq
  <2>2. \A n \in Nat : n - 1 = 0 => n = 1
    OBVIOUS
  <2> QED
    BY <1>2, <2>1, <2>2
<1> QED
  BY <1>2, <1>4, <1>5 DEF q, NextWrite, Last

\* What is written to the outbox is appended to it.
LEMMA StampFacts ==
  ASSUME SheetType, NEW w \in Workers, Stamp(w), worker[w].lead \in Leads
  PROVE  LET l == worker[w].lead
             outcome == IF worker[w].result \in {"sent", "pending"} THEN "sent" ELSE "skipped"
         IN  /\ \/ UNCHANGED <<outbox, stamped>> /\ worker[w].result \in {"left", "no-notes"}
                \/ /\ worker[w].result \notin {"left", "no-notes"}
                   /\ outbox' = [outbox EXCEPT ![l] = Append(outbox[l], outcome)]
                   /\ stamped' = [stamped EXCEPT ![l] = outcome]
             /\ outcome \in Outcomes
             /\ Append(outbox[l], outcome) \in Seq(Outcomes)
             /\ Append(outbox[l], outcome) # <<>>
             /\ Last(Append(outbox[l], outcome)) = outcome
<1> DEFINE l == worker[w].lead
           outcome == IF worker[w].result \in {"sent", "pending"} THEN "sent" ELSE "skipped"
<1>1. \/ UNCHANGED <<outbox, stamped>> /\ worker[w].result \in {"left", "no-notes"}
      \/ /\ worker[w].result \notin {"left", "no-notes"}
         /\ outbox' = [outbox EXCEPT ![l] = Append(outbox[l], outcome)]
         /\ stamped' = [stamped EXCEPT ![l] = outcome]
  BY DEF Stamp
<1>2. outcome \in Outcomes /\ outbox[l] \in Seq(Outcomes)
  BY DEF Outcomes, SheetType
<1> HIDE DEF outcome, l
<1>3. /\ Append(outbox[l], outcome) \in Seq(Outcomes)
      /\ Len(Append(outbox[l], outcome)) = Len(outbox[l]) + 1
      /\ Append(outbox[l], outcome)[Len(outbox[l]) + 1] = outcome
      /\ Len(outbox[l]) \in Nat
  BY <1>2, AppendProperties, LenProperties
<1>4. Append(outbox[l], outcome) # <<>>
  BY <1>3, EmptySeq
<1>5. Last(Append(outbox[l], outcome)) = outcome
  BY <1>3 DEF Last
<1> QED
  BY <1>1, <1>2, <1>3, <1>4, <1>5 DEF l, outcome

\* The steps that touch the outbox or the sheet.
Written == \/ (\E w \in Workers : Stamp(w)) \/ \E l \in Leads : Flush(l) \/ FlushUnconfirmed(l)

LEMMA WrittenOnly == ASSUME TypeInv, [Next]_vars, ~Written PROVE UNCHANGED <<outbox, sheet, stamped>>
<1>1. ASSUME NEW w \in Workers, OwnSteps(w) PROVE UNCHANGED <<outbox, sheet, stamped>>
  <2>1. ~Stamp(w)
    BY DEF Written
  <2> QED
    BY <1>1, <2>1 DEF OwnSteps, WorkerExit, Pausing, Unpausing, Acquire, Launch, PickNextProfile, TakeLead,
       LeadsExhausted, TurnOver, Invite, Unconfirmed, Transient, Watchdog, Refused, Record, StampFails, Stamps, Preempt, disk, world
<1>2. ASSUME NEW w \in Workers, TurnEnds(w) \/ PageWedged(w) PROVE UNCHANGED <<outbox, sheet, stamped>>
  BY <1>2, TurnEndStep DEF PageWedged, disk
<1>3. CASE StartCampaign \/ Crash \/ GiveBack \/ \E w \in Workers : \E n \in 1 .. MaxBrowsers : SetMax(w, n)
  BY <1>3 DEF StartCampaign, Crash, GiveBack, SetMax, disk, world
<1>4. CASE Aside
  BY <1>4 DEF Written, Aside, Finish, AdriftLands, Stop, Pause, Resume,
     Bench, Unbench, RetryParked, Borrow, vars, disk, world
<1> QED
  BY <1>1, <1>2, <1>3, <1>4, StepKinds

LEMMA SheetNext == TypeInv /\ [Next]_vars => SheetType'
<1> SUFFICES ASSUME TypeInv, [Next]_vars PROVE SheetType'
  OBVIOUS
<1>0. SheetType
  BY TypeParts
<1>1. ASSUME NEW w \in Workers, Stamp(w) PROVE SheetType'
  <2>1. worker[w].lead \in Leads /\ sheet' = sheet
    BY <1>1, HandFacts DEF Stamp, Stamps, At, world
  <2> DEFINE l == worker[w].lead
             outcome == IF worker[w].result \in {"sent", "pending"} THEN "sent" ELSE "skipped"
             longer == Append(outbox[l], outcome)
  <2>2. /\ l \in Leads /\ outcome \in Outcomes /\ longer \in Seq(Outcomes)
        /\ \/ UNCHANGED <<outbox, stamped>>
           \/ /\ outbox' = [outbox EXCEPT ![l] = longer]
              /\ stamped' = [stamped EXCEPT ![l] = outcome]
    BY <1>0, <1>1, <2>1, StampFacts
  <2> HIDE DEF l, outcome, longer
  <2> QED
    BY <1>0, <2>1, <2>2 DEF SheetType
<1>2. ASSUME NEW l \in Leads, Flush(l) \/ FlushUnconfirmed(l) PROVE SheetType'
  <2>1. outbox[l] # <<>>
    BY <1>2 DEF Flush, FlushUnconfirmed
  <2>2. NextWrite(l).write \in Outcomes /\ NextWrite(l).rest \in Seq(Outcomes)
    BY <1>0, <2>1, OutboxFacts
  <2> QED
    BY <1>0, <1>2, <2>2 DEF Flush, FlushUnconfirmed, SheetType, disk
<1>3. CASE ~Written
  BY <1>0, <1>3, WrittenOnly DEF SheetType
<1> QED
  BY <1>1, <1>2, <1>3 DEF Written

LEMMA WorldNext == TypeInv /\ [Next]_vars => WorldType'
<1> SUFFICES ASSUME TypeInv, [Next]_vars PROVE WorldType'
  OBVIOUS
<1>0. WorldType
  BY TypeParts
<1> DEFINE Same == UNCHANGED <<invited, adrift, sessions, borrower, exposed>>
           Counts == trouble' \in 0 .. MaxTrouble /\ ops' \in 0 .. MaxOps
<1>c. Counts
  <2>1. trouble' \in {0} \union {trouble} \/ (trouble < MaxTrouble /\ trouble' = trouble + 1)
    <3>1. ASSUME NEW w \in Workers, OwnSteps(w) \/ PageWedged(w)
          PROVE  trouble' = trouble \/ (trouble < MaxTrouble /\ trouble' = trouble + 1)
      BY <3>1 DEF OwnSteps, WorkerExit, Pausing, Unpausing, Acquire, Launch, PickNextProfile, TakeLead, Stamp, StampFails, Stamps,
         LeadsExhausted, TurnOver, Invite, Unconfirmed, Transient, Watchdog, Refused, Record, Preempt, PageWedged, hist, Trouble
    <3>2. ASSUME NEW w \in Workers, TurnEnds(w) PROVE trouble' = trouble
      BY <3>2, TurnEndStep DEF hist
    <3>3. ASSUME StartCampaign \/ Crash \/ GiveBack \/ Aside \/ \E w \in Workers : \E n \in 1 .. MaxBrowsers : SetMax(w, n)
          PROVE  trouble' = trouble \/ (trouble < MaxTrouble /\ trouble' = trouble + 1)
      BY <3>3 DEF StartCampaign, Crash, GiveBack, SetMax, Aside, Finish, AdriftLands, Flush,
         FlushUnconfirmed, Stop, Pause, Resume, Bench, Unbench, RetryParked, Borrow, vars, hist, Trouble, Operates
    <3> QED
      BY <3>1, <3>2, <3>3, StepKinds
  <2>2. ops' = ops \/ (ops < MaxOps /\ ops' = ops + 1)
    <3>1. ASSUME NEW w \in Workers, OwnSteps(w) \/ PageWedged(w)
          PROVE  ops' = ops \/ (ops < MaxOps /\ ops' = ops + 1)
      BY <3>1 DEF OwnSteps, WorkerExit, Pausing, Unpausing, Acquire, Launch, PickNextProfile, TakeLead, Stamp, StampFails, Stamps,
         LeadsExhausted, TurnOver, Invite, Unconfirmed, Transient, Watchdog, Refused, Record, Preempt, PageWedged, hist, Trouble
    <3>2. ASSUME NEW w \in Workers, TurnEnds(w) PROVE ops' = ops
      BY <3>2, TurnEndStep DEF hist
    <3>3. ASSUME StartCampaign \/ Crash \/ GiveBack \/ Aside \/ \E w \in Workers : \E n \in 1 .. MaxBrowsers : SetMax(w, n)
          PROVE  ops' = ops \/ (ops < MaxOps /\ ops' = ops + 1)
      BY <3>3 DEF StartCampaign, Crash, GiveBack, SetMax, Aside, Finish, AdriftLands, Flush,
         FlushUnconfirmed, Stop, Pause, Resume, Bench, Unbench, RetryParked, Borrow, vars, hist, Trouble, Operates
    <3> QED
      BY <3>1, <3>2, <3>3, StepKinds
  <2>3. \A b \in Nat : \A n \in 0 .. b : n < b => n + 1 \in 0 .. b
    OBVIOUS
  <2>4. MaxTrouble \in Nat /\ MaxOps \in Nat /\ 0 \in 0 .. MaxTrouble
    BY BoundsAssumption
  <2> QED
    BY <1>0, <2>1, <2>2, <2>3, <2>4 DEF WorldType
<1> HIDE DEF Counts
<1>k. ASSUME invited' \subseteq Accounts \X Leads, adrift' \subseteq Accounts \X Leads,
             sessions' \subseteq Accounts, borrower' \in BOOLEAN, exposed' \subseteq Leads
      PROVE  WorldType'
  BY <1>c, <1>k DEF WorldType, Counts
<1>s. ASSUME Same PROVE WorldType'
  BY <1>0, <1>k, <1>s DEF WorldType
<1>1. ASSUME NEW w \in Workers, TurnEnds(w) PROVE WorldType'
  <2>1. UNCHANGED <<invited, borrower, exposed>> /\ adrift' \subseteq adrift
    BY <1>1, TurnEndStep DEF hist
  <2>2. sessions' \subseteq sessions
    BY <1>1 DEF TurnEnds, Restricted, GiveUp, NotLaunched, LaunchFails, Close, CloseSession
  <2> QED
    BY <1>0, <1>k, <2>1, <2>2 DEF WorldType
<1>2. ASSUME NEW w \in Workers, OwnSteps(w) PROVE WorldType'
  <2>1. CASE Launch(w)
    <3>1. worker[w].account \in Accounts
      BY <2>1, HandFacts DEF Launch, At
    <3> QED
      BY <1>0, <1>k, <2>1, <3>1 DEF Launch, WorldType, world, hist
  <2>2. CASE Invite(w) \/ Unconfirmed(w) \/ Watchdog(w) \/ Preempt(w)
    <3>1. InHand(w) \in Accounts \X Leads /\ worker[w].lead \in Leads
      BY <2>2, HandFacts DEF Invite, Unconfirmed, Watchdog, Preempt, At, InHand
    <3> QED
      BY <1>0, <1>k, <2>2, <3>1 DEF Invite, Unconfirmed, Watchdog, Preempt, Trouble, WorldType, hist
  <2>3. CASE StampFails(w)
    <3>1. worker[w].lead \in Leads
      BY <2>3, HandFacts DEF StampFails, Stamps, At
    <3> QED
      BY <1>0, <1>k, <2>3, <3>1 DEF StampFails, Trouble, WorldType, world
  <2>4. CASE ~(Launch(w) \/ Invite(w) \/ Unconfirmed(w) \/ Watchdog(w) \/ Preempt(w) \/ StampFails(w))
    BY <1>2, <1>s, <2>4 DEF OwnSteps, WorkerExit, Pausing, Unpausing, Acquire, PickNextProfile, TakeLead,
       Stamp, LeadsExhausted, TurnOver, Transient, Refused, Record, hist, world
  <2> QED
    BY <2>1, <2>2, <2>3, <2>4
<1>3. ASSUME NEW w \in Workers, PageWedged(w) PROVE WorldType'
  <2>1. worker[w].lead \in Leads /\ adrift' \subseteq adrift
    BY <1>3, PageWedgedStep
  <2>2. sessions' \subseteq sessions /\ UNCHANGED <<invited, borrower>> /\ exposed' = exposed \union {worker[w].lead}
    BY <1>3 DEF PageWedged, CloseSession, Trouble
  <2> QED
    BY <1>0, <1>k, <2>1, <2>2 DEF WorldType
<1>4. CASE StartCampaign
  <2>1. exposed' \subseteq Leads
    BY <1>0, <1>4 DEF StartCampaign, Unsynced, WorldType
  <2> QED
    BY <1>0, <1>4, <2>1, <1>k DEF StartCampaign, world, WorldType
<1>5. CASE Crash
  <2>1. {worker[w].lead : w \in Workers} \ {NoLead} \subseteq Leads
    BY HandFacts
  <2> QED
    BY <1>0, <1>5, <2>1, <1>k DEF Crash, Trouble, WorldType
<1>6. CASE GiveBack \/ \E w \in Workers : \E n \in 1 .. MaxBrowsers : SetMax(w, n)
  BY <1>0, <1>6, <1>k DEF GiveBack, SetMax, world, hist, WorldType
<1>7. CASE Aside
  <2>1. ASSUME NEW s \in Accounts \X Leads, AdriftLands(s) PROVE WorldType'
    BY <1>0, <1>k, <2>1 DEF AdriftLands, hist, WorldType
  <2>2. CASE Borrow
    BY <1>0, <1>k, <2>2 DEF Borrow, hist, world, WorldType
  <2>3. ASSUME NEW l \in Leads, FlushUnconfirmed(l) PROVE WorldType'
    <3>1. Same
      BY <2>3 DEF FlushUnconfirmed, Trouble
    <3> QED
      BY <3>1, <1>s
  <2>4. ASSUME ~Borrow, \A s \in Accounts \X Leads : ~AdriftLands(s), \A l \in Leads : ~FlushUnconfirmed(l)
        PROVE  WorldType'
    BY <1>7, <1>s, <2>4 DEF Aside, Finish, Flush, Stop, Pause, Resume, Bench, Unbench,
       RetryParked, vars, hist, world, Operates
  <2> QED
    BY <2>1, <2>2, <2>3, <2>4
<1> QED
  BY <1>1, <1>2, <1>3, <1>4, <1>5, <1>6, <1>7, StepKinds

LEMMA WorkersNext == TypeInv /\ [Next]_vars => WorkersFit' /\ SlotsFit'
  BY StepKinds, TurnEndStep, OwnStep, PageWedgedStep, WakeOnlyStep, FreshStep, AsideStep

LEMMA TypeInit == Init => TypeInv
<1> SUFFICES ASSUME Init PROVE TypeInv
  OBVIOUS
<1>1. /\ 0 \in 0 .. DailyLimit /\ 0 \in 0 .. MaxStalls /\ 0 \in 0 .. MaxTrouble /\ 0 \in 0 .. MaxOps
  BY BoundsAssumption
<1>2. PlanType
  BY <1>1 DEF Init, PlanType, AllRun, IdleType
<1>3. MemType
  BY DEF Init, MemType, Unknown
<1>4. SheetType
  <2>1. <<>> \in Seq(Outcomes)
    BY EmptySeq
  <2> QED
    BY <2>1 DEF Init, SheetType
<1>5. WorldType
  BY <1>1 DEF Init, WorldType
<1>6. WorkersFit
  BY RestFits DEF Init, WorkersFit, Fit
<1>7. SlotsFit
  <2>1. Distinct(<<>>) /\ ToSet(<<>>) = {}
    BY DEF Distinct, ToSet
  <2>2. FreeSlots \in SlotType /\ FreeSlots.waiting = <<>>
    BY BoundsAssumption DEF FreeSlots, SlotType
  <2> QED
    BY <2>1, <2>2 DEF Init, SlotsFit
<1>8. RunFit
  BY DEF Init, RunFit, RunType, Stopped, At, Resting
<1> QED
  BY <1>2, <1>3, <1>4, <1>5, <1>6, <1>7, <1>8, TypeParts

LEMMA TypeNext == TypeInv /\ [Next]_vars => TypeInv'
<1> SUFFICES ASSUME TypeInv, [Next]_vars PROVE TypeInv'
  OBVIOUS
<1>1. PlanType' /\ MemType' /\ SheetType' /\ WorldType' /\ WorkersFit' /\ SlotsFit' /\ RunFit'
  BY PlanNext, MemNext, SheetNext, WorldNext, WorkersNext, RunNext
<1> QED
  BY <1>1 DEF TypeInv, TypeOK, PlanType, MemType, SheetType, WorldType, WorkersFit, SlotsFit, RunFit, WorkerType,
     SlotType, IdleType, RunType

LEMMA TypeAlways == Spec => []TypeInv
  BY TypeInit, TypeNext, PTL DEF Spec

\* The types: each worker, the semaphore and the files stay within the values the code
\* gives them, whoever else runs.
THEOREM TypeCorrect == Spec => []TypeOK
<1>1. TypeInv => TypeOK
  BY DEF TypeInv
<1> QED
  BY <1>1, TypeAlways, PTL

-----------------------------------------------------------------------------
(* The sheet.                                                              *)

\* The last write that waits is what was last meant for the row; without one the sheet is.
OutboxInv ==
    \A l \in Leads : IF outbox[l] = <<>> THEN sheet[l] = stamped[l] ELSE Last(outbox[l]) = stamped[l]

LEMMA OutboxNext == TypeInv /\ OutboxInv /\ [Next]_vars => OutboxInv'
<1> SUFFICES ASSUME TypeInv, OutboxInv, [Next]_vars PROVE OutboxInv'
  OBVIOUS
<1>0. SheetType
  BY TypeParts
<1>1. ASSUME NEW w \in Workers, Stamp(w) PROVE OutboxInv'
  <2>1. worker[w].lead \in Leads /\ sheet' = sheet
    BY <1>1, HandFacts DEF Stamp, Stamps, At, world
  <2> DEFINE l == worker[w].lead
             outcome == IF worker[w].result \in {"sent", "pending"} THEN "sent" ELSE "skipped"
             longer == Append(outbox[l], outcome)
  <2>2. /\ l \in Leads /\ longer # <<>> /\ Last(longer) = outcome
        /\ \/ UNCHANGED <<outbox, stamped>>
           \/ /\ outbox' = [outbox EXCEPT ![l] = longer]
              /\ stamped' = [stamped EXCEPT ![l] = outcome]
    BY <1>0, <1>1, <2>1, StampFacts
  <2> HIDE DEF l, outcome, longer
  <2> QED
    BY <1>0, <2>1, <2>2 DEF OutboxInv, SheetType
<1>2. ASSUME NEW l \in Leads, Flush(l) \/ FlushUnconfirmed(l) PROVE OutboxInv'
  <2>1. outbox[l] # <<>> /\ stamped' = stamped
    BY <1>2 DEF Flush, FlushUnconfirmed, disk
  <2> DEFINE first == NextWrite(l).write
             rest == NextWrite(l).rest
  <2>2. /\ rest # <<>> => Last(rest) = Last(outbox[l])
        /\ rest = <<>> => first = Last(outbox[l])
    BY <1>0, <2>1, OutboxFacts
  <2>3. sheet' = [sheet EXCEPT ![l] = first] /\ (outbox' = outbox \/ outbox' = [outbox EXCEPT ![l] = rest])
    BY <1>2 DEF Flush, FlushUnconfirmed, disk
  <2> HIDE DEF first, rest
  <2> QED
    BY <1>0, <2>1, <2>2, <2>3 DEF OutboxInv, SheetType
<1>3. CASE ~Written
  BY <1>3, WrittenOnly DEF OutboxInv
<1> QED
  BY <1>1, <1>2, <1>3 DEF Written

\* Once the outbox of a row is empty the sheet shows the last outcome meant for it, however
\* often an answer was lost or the app died (trackedSheetWrite and the flush of the outbox).
THEOREM SheetFollows == Spec => []SheetAgrees
<1>1. Init => OutboxInv
  BY DEF Init, OutboxInv
<1>2. OutboxInv => SheetAgrees
  BY DEF OutboxInv, SheetAgrees
<1> QED
  BY <1>1, <1>2, TypeAlways, OutboxNext, PTL DEF Spec

-----------------------------------------------------------------------------
(* The accounts.                                                           *)

\* Where an account can be.
Placed   == queue \union BeingRun \union idle.parked \union idle.skipped
Live     == run.on /\ ~run.abort /\ ~run.exhausted
PlaceInv == Live => Accounts \subseteq Placed

LEMMA PlacedAccounts == TypeInv => Placed \subseteq Accounts
<1> SUFFICES ASSUME TypeInv PROVE Placed \subseteq Accounts
  OBVIOUS
<1>1. BeingRun \subseteq Accounts
  BY HandFacts DEF BeingRun
<1> QED
  BY <1>1, TypeParts DEF Placed, PlanType, IdleType

LEMMA PlaceNext == TypeInv /\ PlaceInv /\ [Next]_vars => PlaceInv'
<1> SUFFICES ASSUME TypeInv, PlaceInv, [Next]_vars PROVE PlaceInv'
  OBVIOUS
<1>t. idle \in IdleType /\ run \in RunType
  BY TypeParts DEF PlanType, TypeInv, RunFit
<1>k. ASSUME Live' => Live, Placed \subseteq Placed' PROVE PlaceInv'
  BY <1>k DEF PlaceInv
<1>a. ASSUME \A v \in Workers : worker'[v].account = worker[v].account PROVE BeingRun' = BeingRun
  BY <1>a DEF BeingRun
<1>p. ASSUME Live' => Live, queue \subseteq queue', idle' = idle,
             \A v \in Workers : worker'[v].account = worker[v].account
      PROVE  PlaceInv'
  BY <1>a, <1>k, <1>p DEF Placed
<1>1. ASSUME NEW w \in Workers, TurnEnds(w) PROVE PlaceInv'
  <2> DEFINE a == worker[w].account
  <2>1. PICK i \in IdleType : /\ \A b \in Accounts : Finished(b, idle) => Finished(b, i)
                              /\ EndTurn(w, i, worker')
    BY <1>1, TurnEndStep
  <2>2. Others(w) /\ a \in Accounts
    BY <1>1, TurnEndStep
  <2>3. Live' <=> Live
    BY <1>t, <2>1 DEF EndTurn, Live, RunType
  <2>4. idle'.parked = i.parked /\ idle'.skipped = i.skipped
    BY <2>1 DEF EndTurn, IdleType
  <2>5. BeingRun \subseteq BeingRun' \union {a}
    <3>1. \A v \in Workers \ {w} : worker'[v].account = worker[v].account
      <4> SUFFICES ASSUME NEW v \in Workers \ {w} PROVE worker'[v].account = worker[v].account
        OBVIOUS
      <4>1. worker[v] \in WorkerType
        BY DEF TypeInv, WorkersFit
      <4> QED
        BY <2>2, <4>1 DEF Others, GoesOn, WorkerType
    <3> QED
      BY <3>1 DEF BeingRun
  <2>6. \A b \in Accounts : b \in idle.parked \union idle.skipped => b \in idle'.parked \union idle'.skipped
    BY <2>1, <2>4 DEF Finished
  <2>7. Live' => a \in queue' \union idle'.parked \union idle'.skipped
    BY <2>1, <2>2, <2>3, <2>4 DEF EndTurn, Finished, Live
  <2>8. queue \subseteq queue'
    BY <2>1 DEF EndTurn
  <2> QED
    BY <1>t, <2>3, <2>5, <2>6, <2>7, <2>8 DEF PlaceInv, Placed, IdleType
<1>2. ASSUME NEW w \in Workers, OwnSteps(w) PROVE PlaceInv'
  <2>0. worker \in [Workers -> WorkerType] /\ worker[w] \in WorkerType
    BY DEF TypeInv, WorkersFit
  <2>o. \A v \in Workers \ {w} : worker'[v] = worker[v]
    BY <1>2, OwnStep
  <2>1. ASSUME NEW a \in Accounts, PickNextProfile(w, a) PROVE PlaceInv'
    <3>1. worker'[w].account = a /\ worker[w].account = NoAccount
      BY <2>0, <2>1, HandFacts DEF PickNextProfile, Resting, At
    <3>2. BeingRun \union {a} \subseteq BeingRun'
      <4>1. a # NoAccount
        BY BoundsAssumption
      <4> QED
        BY <2>o, <3>1, <4>1 DEF BeingRun
    <3>3. queue' = queue \ {a} /\ idle' = idle /\ run' = run
      BY <2>1 DEF PickNextProfile
    <3> QED
      BY <1>k, <3>2, <3>3 DEF Placed, Live
  <2>2. CASE ~\E a \in Accounts : PickNextProfile(w, a)
    <3>1. worker'[w].account = worker[w].account
      <4>1. CASE WorkerExit(w)
        BY <2>0, <4>1, HandFacts DEF WorkerExit, Resting, At
      <4>2. CASE Pausing(w) \/ Unpausing(w) \/ Acquire(w) \/ Launch(w) \/ LeadsExhausted(w) \/ TurnOver(w)
        <5>1. CASE Pausing(w) \/ Unpausing(w)
          BY <2>0, <5>1 DEF Pausing, Unpausing, WorkerType
        <5>2. CASE Acquire(w)
          <6>1. worker' = [worker EXCEPT ![w].pc = "launch"] \/ worker' = [worker EXCEPT ![w].pc = "waiting"]
            BY <5>2 DEF Acquire
          <6> QED
            BY <2>0, <6>1 DEF WorkerType
        <5>3. CASE Launch(w)
          BY <2>0, <5>3 DEF Launch, WorkerType
        <5>4. CASE LeadsExhausted(w) \/ TurnOver(w)
          BY <2>0, <5>4 DEF LeadsExhausted, TurnOver, WorkerType
        <5> QED
          BY <4>2, <5>1, <5>2, <5>3, <5>4
      <4>3. CASE (\E l \in Leads : TakeLead(w, l)) \/ Record(w) \/ Stamp(w) \/ StampFails(w) \/ Preempt(w)
        <5>1. ASSUME NEW l \in Leads, TakeLead(w, l) PROVE worker'[w].account = worker[w].account
          BY <2>0, <5>1 DEF TakeLead, WorkerType
        <5>2. CASE Record(w)
          <6>1. worker' = [worker EXCEPT ![w].pc = "stamp"]
            BY <5>2 DEF Record
          <6> QED
            BY <2>0, <6>1 DEF WorkerType
        <5>3. CASE Stamp(w) \/ StampFails(w)
          <6>1. worker' = [worker EXCEPT ![w].pc = "turn", ![w].lead = NoLead, ![w].result = "left"]
            BY <5>3 DEF Stamp, StampFails, Stamps
          <6> QED
            BY <2>0, <6>1 DEF WorkerType
        <5>4. CASE Preempt(w)
          BY <2>0, <5>4 DEF Preempt, WorkerType
        <5> QED
          BY <4>3, <5>1, <5>2, <5>3, <5>4
      <4>4. CASE \/ Invite(w) \/ Unconfirmed(w) \/ Transient(w) \/ Watchdog(w)
                 \/ \E result \in Results \ {"sent"} : Refused(w, result)
        BY <2>0, <4>4 DEF Invite, Unconfirmed, Transient, Watchdog, Refused, Result, RetryOrSkip, WorkerType
      <4> QED
        BY <1>2, <2>2, <4>1, <4>2, <4>3, <4>4 DEF OwnSteps
    <3>2. Live' => Live
      BY <1>2, <1>t, <2>2 DEF OwnSteps, WorkerExit, Pausing, Unpausing, Acquire, Launch, TakeLead, LeadsExhausted,
         TurnOver, Invite, Unconfirmed, Transient, Watchdog, Refused, Record, Stamp, StampFails, Stamps, Preempt, Live, RunType
    <3>3. queue' = queue
      BY <1>2, <2>2 DEF OwnSteps, WorkerExit, Pausing, Unpausing, Acquire, Launch, TakeLead, LeadsExhausted,
         TurnOver, Invite, Unconfirmed, Transient, Watchdog, Refused, Record, Stamp, StampFails, Stamps, Preempt, plan
    <3>4. idle.parked \subseteq idle'.parked /\ idle.skipped \subseteq idle'.skipped
      <4>1. CASE Record(w)
        BY <1>t, <4>1 DEF Record, Parked, IdleType
      <4>2. CASE ~Record(w)
        <5>1. idle' = idle
          BY <1>2, <2>2, <4>2 DEF OwnSteps, WorkerExit, Pausing, Unpausing, Acquire, Launch, TakeLead,
             LeadsExhausted, TurnOver, Invite, Unconfirmed, Transient, Watchdog, Refused, Stamp, StampFails, Stamps, Preempt, plan
        <5> QED
          BY <5>1
      <4> QED
        BY <4>1, <4>2
    <3>5. BeingRun' = BeingRun
      BY <2>o, <3>1, <1>a
    <3> QED
      BY <1>k, <3>2, <3>3, <3>4, <3>5 DEF Placed
  <2> QED
    BY <2>1, <2>2
<1>3. ASSUME NEW w \in Workers, PageWedged(w) PROVE PlaceInv'
  <2>1. \A v \in Workers : worker[v] \in WorkerType
    BY DEF TypeInv, WorkersFit
  <2>2. \A v \in Workers : worker'[v].account = worker[v].account
    <3>1. worker'[w] = [worker[w] EXCEPT !.pc = "close", !.lead = NoLead]
      BY <1>3, PageWedgedStep
    <3>2. worker'[w].account = worker[w].account
      BY <2>1, <3>1 DEF WorkerType
    <3>3. ASSUME NEW v \in Workers \ {w} PROVE worker'[v].account = worker[v].account
      <4>1. GoesOn(v)
        BY <1>3, PageWedgedStep DEF Others
      <4> QED
        BY <2>1, <4>1 DEF GoesOn, WorkerType
    <3> QED
      BY <3>2, <3>3
  <2>3. UNCHANGED <<run, queue, idle>>
    BY <1>3 DEF PageWedged, plan
  <2> QED
    BY <2>2, <2>3, <1>p DEF Live
<1>4. CASE GiveBack \/ \E w \in Workers : \E n \in 1 .. MaxBrowsers : SetMax(w, n)
  <2>1. \A v \in Workers : worker[v] \in WorkerType
    BY DEF TypeInv, WorkersFit
  <2>2. \A v \in Workers : worker'[v].account = worker[v].account
    <3>1. \A v \in Workers : GoesOn(v)
      BY <1>4, WakeOnlyStep
    <3> QED
      BY <2>1, <3>1 DEF GoesOn, WorkerType
  <2>3. UNCHANGED <<run, queue, idle>>
    BY <1>4 DEF GiveBack, SetMax, plan
  <2> QED
    BY <2>2, <2>3, <1>p DEF Live
<1>5. CASE StartCampaign
  <2>1. queue' = Accounts
    BY <1>5 DEF StartCampaign
  <2> QED
    BY <2>1 DEF PlaceInv, Placed
<1>6. CASE Crash \/ Finish
  <2>1. ~run'.on
    <3>1. CASE Crash
      BY <3>1 DEF Crash, Stopped
    <3>2. CASE Finish
      BY <3>2, <1>t DEF Finish, RunType
    <3> QED
      BY <1>6, <3>1, <3>2
  <2> QED
    BY <2>1 DEF PlaceInv, Live
<1>7. CASE Aside /\ ~Finish
  <2>1. worker' = worker
    BY <1>7, AsideStep
  <2>2. ASSUME NEW a \in Accounts, Bench(a) \/ Unbench(a) \/ RetryParked(a) PROVE PlaceInv'
    <3>1. BeingRun' = BeingRun
      BY <2>1, <1>a
    <3>2. /\ queue \subseteq queue' /\ run' = run
          /\ idle.parked \ {a} \subseteq idle'.parked /\ idle.skipped \ {a} \subseteq idle'.skipped
          /\ \/ a \in BeingRun \union queue'
             \/ idle.parked \subseteq idle'.parked /\ idle.skipped \subseteq idle'.skipped
      BY <1>t, <2>2 DEF Bench, Unbench, RetryParked, Requeued, IdleType
    <3> QED
      BY <3>1, <3>2, <1>k DEF Placed, Live
  <2>3. ASSUME ~\E a \in Accounts : Bench(a) \/ Unbench(a) \/ RetryParked(a) PROVE PlaceInv'
    <3>1. queue' = queue /\ idle' = idle /\ (Live' => Live)
      BY <1>t, <1>7, <2>3 DEF Aside, AdriftLands, Flush, FlushUnconfirmed, Stop, Pause, Resume, Borrow, vars, plan,
         Live, RunType
    <3> QED
      BY <2>1, <3>1, <1>p
  <2> QED
    BY <2>2, <2>3
<1> QED
  BY <1>1, <1>2, <1>3, <1>4, <1>5, <1>6, <1>7, StepKinds

\* While a run has leads and is not stopped, no account drops out of the rotation: each is
\* queued, at work, parked or benched, and a retry or the bench brings it back to the queue
\* (pickNextProfile and shouldRequeue).
THEOREM AccountsStay == Spec => []NoAccountLost
<1>1. Init => PlaceInv
  BY DEF Init, PlaceInv, Live, Stopped
<1>2. TypeInv /\ PlaceInv => NoAccountLost
  BY PlacedAccounts DEF PlaceInv, NoAccountLost, Live, Placed
<1> QED
  BY <1>1, <1>2, TypeAlways, PlaceNext, PTL DEF Spec

-----------------------------------------------------------------------------
(* One account for a lead.                                                 *)

\* A worker's lead, what came of it, and the account it is in the hands of.
Kept(v) == /\ worker'[v].lead = worker[v].lead /\ worker'[v].result = worker[v].result
           /\ worker'[v].account = worker[v].account \/ worker[v].lead = NoLead

\* The steps of a worker that concern no lead.
Quiet(w) == \/ WorkerExit(w) \/ Pausing(w) \/ Unpausing(w) \/ Acquire(w) \/ Launch(w)
            \/ \E a \in Accounts : PickNextProfile(w, a)
            \/ LeadsExhausted(w) \/ TurnOver(w)

LEMMA OthersKeep == ASSUME TypeInv, NEW v \in Workers, GoesOn(v) PROVE Kept(v)
<1>1. worker[v] \in WorkerType
  BY DEF TypeInv, WorkersFit
<1> QED
  BY <1>1 DEF GoesOn, Kept, WorkerType

LEMMA QuietKeeps == ASSUME TypeInv, NEW w \in Workers, Quiet(w) PROVE \A v \in Workers : Kept(v)
<1>1. worker \in [Workers -> WorkerType] /\ worker[w] \in WorkerType
  BY DEF TypeInv, WorkersFit
<1>2. \A v \in Workers \ {w} : worker'[v] = worker[v]
  BY OwnStep DEF Quiet, OwnSteps
<1>3. Kept(w)
  <2>1. CASE WorkerExit(w)
    BY <1>1, <2>1, HandFacts DEF WorkerExit, At, Resting, Kept
  <2>2. CASE Pausing(w) \/ Unpausing(w)
    BY <1>1, <2>2 DEF Pausing, Unpausing, WorkerType, Kept
  <2>3. CASE Acquire(w)
    <3>1. worker' = [worker EXCEPT ![w].pc = "launch"] \/ worker' = [worker EXCEPT ![w].pc = "waiting"]
      BY <2>3 DEF Acquire
    <3> QED
      BY <1>1, <3>1 DEF WorkerType, Kept
  <2>4. CASE Launch(w)
    BY <1>1, <2>4 DEF Launch, WorkerType, Kept
  <2>5. ASSUME NEW a \in Accounts, PickNextProfile(w, a) PROVE Kept(w)
    BY <1>1, <2>5, HandFacts DEF PickNextProfile, At, Resting, Kept
  <2>6. CASE LeadsExhausted(w) \/ TurnOver(w)
    BY <1>1, <2>6 DEF LeadsExhausted, TurnOver, WorkerType, Kept
  <2> QED
    BY <2>1, <2>2, <2>3, <2>4, <2>5, <2>6 DEF Quiet
<1> QED
  BY <1>2, <1>3 DEF Kept

LEMMA TurnEndKeeps == ASSUME TypeInv, NEW w \in Workers, TurnEnds(w) PROVE \A v \in Workers : Kept(v)
<1>1. worker'[w] = AtRest /\ worker[w].lead = NoLead /\ Others(w)
  BY TurnEndStep
<1>2. worker[w].result = "left"
  BY HandFacts DEF TurnEnds, Restricted, GiveUp, NotLaunched, LaunchFails, Close, At
<1> QED
  BY <1>1, <1>2, OthersKeep DEF Others, Kept, AtRest, Resting

\* What a step with a lead does to the worker that has it.
LEMMA LeadSteps ==
  ASSUME TypeInv, NEW w \in Workers
  PROVE  /\ \A l \in Leads : TakeLead(w, l) =>
              /\ worker'[w].lead = l /\ worker'[w].result = "left" /\ worker'[w].pc = "send"
              /\ worker[w].lead = NoLead /\ worker'[w].account = worker[w].account
              /\ worker[w].account \in Accounts
         /\ Invite(w) =>
              /\ worker'[w].lead = worker[w].lead /\ worker'[w].result = "sent" /\ worker'[w].pc = "record"
              /\ worker[w].lead \in Leads /\ worker[w].result = "left"
              /\ worker'[w].account = worker[w].account /\ worker[w].account \in Accounts
         /\ Unconfirmed(w) =>
              /\ worker'[w].lead = worker[w].lead /\ worker'[w].result = "skipped" /\ worker'[w].pc = "record"
              /\ worker[w].lead \in Leads /\ worker[w].result = "left"
              /\ worker'[w].account = worker[w].account /\ worker[w].account \in Accounts
         /\ Transient(w) \/ Watchdog(w) \/ (\E result \in Results \ {"sent"} : Refused(w, result)) =>
              /\ worker'[w].lead = worker[w].lead /\ worker'[w].result # "sent"
              /\ worker'[w].pc \in {"send", "record"}
              /\ worker[w].lead \in Leads /\ worker[w].result = "left"
              /\ worker'[w].account = worker[w].account /\ worker[w].account \in Accounts
         /\ Record(w) =>
              /\ Kept(w) /\ worker[w].lead \in Leads /\ worker[w].account \in Accounts
              /\ worker'[w].pc = "stamp" /\ worker'[w].account = worker[w].account
         /\ Stamp(w) \/ StampFails(w) \/ Preempt(w) =>
              /\ worker'[w].lead = NoLead /\ worker'[w].result = "left" /\ worker[w].lead \in Leads
              /\ worker'[w].account = worker[w].account /\ worker[w].account \in Accounts
              /\ worker'[w].pc = "turn"
<1>1. worker \in [Workers -> WorkerType] /\ worker[w] \in WorkerType
  BY DEF TypeInv, WorkersFit
<1>2. ASSUME NEW l \in Leads, TakeLead(w, l)
      PROVE  /\ worker'[w].lead = l /\ worker'[w].result = "left" /\ worker'[w].pc = "send"
             /\ worker[w].lead = NoLead /\ worker'[w].account = worker[w].account
             /\ worker[w].account \in Accounts
  <2>1. worker[w].pc = "turn"
    BY <1>2 DEF TakeLead, At
  <2>2. worker[w].lead = NoLead /\ worker[w].result = "left" /\ worker[w].account \in Accounts
    BY <2>1, HandFacts
  <2> QED
    BY <1>1, <1>2, <2>2 DEF TakeLead, WorkerType
<1>h. worker[w].pc = "send" =>
        worker[w].lead \in Leads /\ worker[w].result = "left" /\ worker[w].account \in Accounts
  BY HandFacts
<1>r. ASSUME NEW result \in Results, At(w, "send"), Result(w, result)
      PROVE  /\ worker'[w].lead = worker[w].lead /\ worker'[w].result = result /\ worker'[w].pc = "record"
             /\ worker[w].lead \in Leads /\ worker[w].result = "left"
             /\ worker'[w].account = worker[w].account /\ worker[w].account \in Accounts
  BY <1>1, <1>h, <1>r DEF At, Result, WorkerType
<1>3. ASSUME Invite(w)
      PROVE  /\ worker'[w].lead = worker[w].lead /\ worker'[w].result = "sent" /\ worker'[w].pc = "record"
             /\ worker[w].lead \in Leads /\ worker[w].result = "left"
             /\ worker'[w].account = worker[w].account /\ worker[w].account \in Accounts
  BY <1>3, <1>r DEF Invite, Results, Outcomes
<1>8. ASSUME Unconfirmed(w)
      PROVE  /\ worker'[w].lead = worker[w].lead /\ worker'[w].result = "skipped" /\ worker'[w].pc = "record"
             /\ worker[w].lead \in Leads /\ worker[w].result = "left"
             /\ worker'[w].account = worker[w].account /\ worker[w].account \in Accounts
  BY <1>8, <1>r DEF Unconfirmed, Results, Outcomes
<1>4. ASSUME Transient(w) \/ Watchdog(w) \/ \E result \in Results \ {"sent"} : Refused(w, result)
      PROVE  /\ worker'[w].lead = worker[w].lead /\ worker'[w].result # "sent"
             /\ worker'[w].pc \in {"send", "record"}
             /\ worker[w].lead \in Leads /\ worker[w].result = "left"
             /\ worker'[w].account = worker[w].account /\ worker[w].account \in Accounts
  <2>1. ASSUME NEW result \in Results \ {"sent"}, Refused(w, result)
        PROVE  At(w, "send") /\ Result(w, result)
    BY <2>1 DEF Refused
  <2>2. CASE Transient(w) \/ Watchdog(w)
    <3>1. At(w, "send") /\ RetryOrSkip(w)
      BY <2>2 DEF Transient, Watchdog
    <3>2. CASE Result(w, "skipped")
      BY <3>1, <3>2, <1>r DEF Results, Outcomes
    <3>3. CASE worker' = [worker EXCEPT ![w].tries = @ + 1]
      BY <1>1, <1>h, <3>1, <3>3 DEF At, WorkerType
    <3> QED
      BY <3>1, <3>2, <3>3 DEF RetryOrSkip
  <2> QED
    BY <1>4, <1>r, <2>1, <2>2
<1>5. ASSUME Record(w)
      PROVE  /\ Kept(w) /\ worker[w].lead \in Leads /\ worker[w].account \in Accounts
             /\ worker'[w].pc = "stamp" /\ worker'[w].account = worker[w].account
  <2>1. worker' = [worker EXCEPT ![w].pc = "stamp"] /\ worker[w].pc = "record"
    BY <1>5 DEF Record, At
  <2> QED
    BY <1>1, <2>1, HandFacts DEF WorkerType, Kept
<1>6. ASSUME Stamp(w) \/ StampFails(w)
      PROVE  /\ worker'[w].lead = NoLead /\ worker'[w].result = "left" /\ worker[w].lead \in Leads
             /\ worker'[w].account = worker[w].account /\ worker[w].account \in Accounts
             /\ worker'[w].pc = "turn"
  <2>1. /\ worker' = [worker EXCEPT ![w].pc = "turn", ![w].lead = NoLead, ![w].result = "left"]
        /\ worker[w].pc = "stamp"
    BY <1>6 DEF Stamp, StampFails, Stamps, At
  <2> QED
    BY <1>1, <2>1, HandFacts DEF WorkerType
<1>7. ASSUME Preempt(w)
      PROVE  /\ worker'[w].lead = NoLead /\ worker'[w].result = "left" /\ worker[w].lead \in Leads
             /\ worker'[w].account = worker[w].account /\ worker[w].account \in Accounts
             /\ worker'[w].pc = "turn"
  <2>1. /\ worker' = [worker EXCEPT ![w].pc = "turn", ![w].lead = NoLead]
        /\ worker[w].pc = "send"
    BY <1>7 DEF Preempt, At
  <2> QED
    BY <1>1, <1>h, <2>1 DEF WorkerType
<1> QED
  BY <1>2, <1>3, <1>4, <1>5, <1>6, <1>7, <1>8

Holds(w, l)  == worker[w].lead = l
Contacted(l) == \E a \in Accounts : <<a, l>> \in invited
Decided(w)   == worker[w].result \in {"sent", "skipped"}

\* A lead in no trouble is in one worker's hands or on the list, not both; only its worker's
\* account may have invited it meanwhile; once invited, its row or what waits for the row
\* says so, or its worker is about to.
LeadSafe(l) ==
    /\ \A v, w \in Workers : Holds(v, l) /\ Holds(w, l) => v = w
    /\ l \in todo => ~Contacted(l) /\ \A w \in Workers : ~Holds(w, l)
    /\ \A w \in Workers : Holds(w, l) =>
         \A a \in Accounts : <<a, l>> \in invited => Decided(w) /\ worker[w].account = a
    /\ \A a \in Accounts : <<a, l>> \notin adrift
    /\ \A a, b \in Accounts : <<a, l>> \in invited /\ <<b, l>> \in invited => a = b
    /\ Contacted(l) =>
         sheet[l] # "blank" \/ outbox[l] # <<>> \/ \E w \in Workers : Holds(w, l) /\ Decided(w)

LeadInv == \A l \in Leads \ exposed : LeadSafe(l)

LEMMA LeadOwn ==
  ASSUME TypeInv, LeadInv, NEW w \in Workers, OwnSteps(w), ~Quiet(w), NEW l \in Leads \ exposed'
  PROVE  LeadSafe(l)'
<1>0. SheetType /\ NoLead \notin Leads /\ WorldType
  BY TypeParts, BoundsAssumption
<1>o. \A v \in Workers \ {w} : worker'[v] = worker[v]
  BY OwnStep
<1> USE DEF LeadSafe, Holds, Contacted, Decided
<1>1. ASSUME NEW m \in Leads, TakeLead(w, m) PROVE LeadSafe(l)'
  <2>1. /\ worker'[w].lead = m /\ worker'[w].result = "left" /\ worker[w].lead = NoLead
    BY <1>1, LeadSteps
  <2>2. /\ todo' = todo \ {m} /\ m \in todo
        /\ UNCHANGED <<sheet, outbox, invited, adrift, exposed>>
    BY <1>1 DEF TakeLead, Taken, world, hist
  <2>3. LeadSafe(l)
    BY <2>2 DEF LeadInv
  <2>4. CASE l = m
    <3>1. l \notin todo' /\ \A b \in Accounts : <<b, l>> \notin invited' /\ <<b, l>> \notin adrift'
      BY <2>2, <2>3, <2>4
    <3>2. \A v \in Workers \ {w} : worker'[v].lead # l
      BY <1>o, <2>2, <2>3, <2>4
    <3> QED
      BY <3>1, <3>2
  <2>5. CASE l # m
    <3>1. \A v \in Workers : worker'[v].lead = l <=> Holds(v, l)
      BY <1>0, <1>o, <2>1, <2>5
    <3>2. \A v \in Workers : Holds(v, l) => v # w /\ worker'[v] = worker[v]
      BY <1>0, <1>o, <2>1
    <3>3. l \in todo' <=> l \in todo
      BY <2>2, <2>5
    <3> QED
      BY <2>2, <2>3, <3>1, <3>2, <3>3
  <2> QED
    BY <2>4, <2>5
<1>2. CASE Invite(w) \/ Unconfirmed(w)
  <2> DEFINE m == worker[w].lead
             a == worker[w].account
  <2>1. /\ worker'[w].lead = m /\ worker'[w].result \in {"sent", "skipped"} /\ worker[w].result = "left"
        /\ worker'[w].account = a /\ m \in Leads /\ a \in Accounts
    BY <1>2, LeadSteps
  <2>2. /\ invited' = invited \union {<<a, m>>}
        /\ UNCHANGED <<todo, sheet, outbox, adrift, exposed>>
    BY <1>2 DEF Invite, Unconfirmed, InHand, plan, disk, hist
  <2>3. LeadSafe(l)
    BY <2>2 DEF LeadInv
  <2>4. CASE l = m
    <3>1. ~Contacted(l) /\ l \notin todo /\ Holds(w, l)
      BY <2>1, <2>3, <2>4
    <3>2. \A b \in Accounts : <<b, l>> \in invited' <=> b = a
      BY <2>2, <2>4, <3>1, <2>1
    <3> HIDE DEF m, a
    <3> QED
      BY <1>o, <2>1, <2>2, <2>3, <2>4, <3>1, <3>2
  <2>5. CASE l # m
    <3>1. \A b \in Accounts : <<b, l>> \in invited' <=> <<b, l>> \in invited
      BY <2>2, <2>5
    <3>2. \A v \in Workers : Holds(v, l) => v # w /\ worker'[v] = worker[v]
      BY <1>o, <2>5
    <3>3. \A v \in Workers : worker'[v].lead = l <=> Holds(v, l)
      BY <1>o, <2>1, <2>5
    <3> HIDE DEF m, a
    <3> QED
      BY <2>2, <2>3, <3>1, <3>2, <3>3
  <2> QED
    BY <2>4, <2>5
<1>3. CASE Transient(w) \/ \E result \in Results \ {"sent"} : Refused(w, result)
  <2>1. /\ worker'[w].lead = worker[w].lead /\ worker[w].result = "left" /\ worker'[w].result # "sent"
        /\ worker'[w].account = worker[w].account
    BY <1>3, LeadSteps
  <2>2. UNCHANGED <<todo, sheet, outbox, invited, adrift, exposed>>
    BY <1>3 DEF Transient, Refused, plan, disk, world, hist
  <2>3. LeadSafe(l)
    BY <2>2 DEF LeadInv
  <2> QED
    BY <1>o, <2>1, <2>2, <2>3
<1>4. CASE Watchdog(w)
  <2> DEFINE m == worker[w].lead
  <2>1. /\ worker'[w].lead = m /\ worker[w].result = "left" /\ worker'[w].result # "sent"
        /\ worker'[w].account = worker[w].account
    BY <1>4, LeadSteps
  <2>2. /\ exposed' = exposed \union {m} /\ adrift' = adrift \union {<<worker[w].account, m>>}
        /\ UNCHANGED <<todo, sheet, outbox, invited>>
    BY <1>4 DEF Watchdog, Trouble, InHand, plan, disk
  <2>3. LeadSafe(l) /\ l # m
    BY <2>2 DEF LeadInv
  <2>4. \A a \in Accounts : <<a, l>> \notin adrift'
    BY <2>2, <2>3
  <2>5. \A v \in Workers : Holds(v, l) => v # w
    BY <2>3
  <2>6. \A v \in Workers : worker'[v].lead = l <=> Holds(v, l)
    BY <1>o, <2>1, <2>3, <2>5
  <2>7. \A v \in Workers : Holds(v, l) => worker'[v] = worker[v]
    BY <1>o, <2>5
  <2> HIDE DEF m
  <2> QED
    BY <2>2, <2>3, <2>4, <2>6, <2>7
<1>5. CASE Record(w)
  <2>1. /\ worker'[w].lead = worker[w].lead /\ worker'[w].result = worker[w].result
        /\ worker'[w].account = worker[w].account
    BY <1>5, LeadSteps DEF Kept
  <2>2. UNCHANGED <<todo, sheet, outbox, invited, adrift, exposed>>
    BY <1>5 DEF Record, world, hist
  <2>3. LeadSafe(l)
    BY <2>2 DEF LeadInv
  <2> QED
    BY <1>o, <2>1, <2>2, <2>3
<1>6. CASE Stamp(w)
  <2> DEFINE m == worker[w].lead
             outcome == IF worker[w].result \in {"sent", "pending"} THEN "sent" ELSE "skipped"
             longer == Append(outbox[m], outcome)
  <2>1. worker'[w].lead = NoLead /\ worker'[w].result = "left" /\ m \in Leads
    BY <1>6, LeadSteps
  <2>2. UNCHANGED <<todo, sheet, invited, adrift, exposed>>
    BY <1>6 DEF Stamp, Stamps, plan, world, hist
  <2>3. LeadSafe(l)
    BY <2>2 DEF LeadInv
  <2>4. /\ longer # <<>>
        /\ \/ outbox' = outbox /\ worker[w].result \notin {"sent", "skipped"}
           \/ outbox' = [outbox EXCEPT ![m] = longer]
    BY <1>0, <1>6, <2>1, StampFacts
  <2>5. outbox'[l] # <<>> \/ (outbox'[l] = outbox[l] /\ (l = m => ~Decided(w)))
    <3> HIDE DEF longer, m
    <3> QED
      BY <1>0, <2>1, <2>4 DEF SheetType
  <2>6. l = m /\ ~Decided(w) => ~Contacted(l)
    BY <2>3
  <2>7. l \in todo => ~Contacted(l) /\ l # m
    BY <2>3
  <2>8. Contacted(l) /\ outbox'[l] = <<>> => sheet[l] # "blank" \/ \E v \in Workers \ {w} : Holds(v, l) /\ Decided(v)
    BY <2>3, <2>4, <2>5, <2>6
  <2>9. \A v \in Workers : worker'[v].lead = l => v # w /\ worker'[v] = worker[v]
    BY <1>0, <1>o, <2>1
  <2> HIDE DEF m, outcome, longer
  <2>10. Contacted(l)' => sheet'[l] # "blank" \/ outbox'[l] # <<>>
                          \/ \E v \in Workers : worker'[v].lead = l /\ worker'[v].result \in {"sent", "skipped"}
    BY <1>o, <2>2, <2>8
  <2>11. \A v \in Workers : worker'[v].lead = l => Holds(v, l) /\ worker'[v] = worker[v]
    BY <2>9
  <2>12. /\ \A u, v \in Workers : worker'[u].lead = l /\ worker'[v].lead = l => u = v
         /\ l \in todo => \A v \in Workers : worker'[v].lead # l
    BY <2>3, <2>11
  <2>13. /\ l \in todo' => ~Contacted(l)'
         /\ \A a \in Accounts : <<a, l>> \notin adrift'
         /\ \A a, b \in Accounts : <<a, l>> \in invited' /\ <<b, l>> \in invited' => a = b
    BY <2>2, <2>3
  <2>14. \A v \in Workers : worker'[v].lead = l =>
           \A a \in Accounts : <<a, l>> \in invited' =>
             worker'[v].result \in {"sent", "skipped"} /\ worker'[v].account = a
    BY <2>2, <2>3, <2>11
  <2> QED
    BY <2>2, <2>10, <2>12, <2>13, <2>14
<1>7. CASE Preempt(w) \/ StampFails(w)
  <2> DEFINE m == worker[w].lead
  <2>1. worker'[w].lead = NoLead /\ worker'[w].result = "left"
    BY <1>7, LeadSteps
  <2>2. /\ exposed' = exposed \union {m}
        /\ adrift' = adrift \/ adrift' = adrift \union {<<worker[w].account, m>>}
        /\ UNCHANGED <<todo, sheet, outbox, invited>>
    BY <1>7 DEF Preempt, StampFails, Trouble, InHand, plan, disk, world
  <2>3. LeadSafe(l) /\ l # m
    BY <2>2 DEF LeadInv
  <2>4. \A a \in Accounts : <<a, l>> \notin adrift'
    BY <2>2, <2>3
  <2>5. \A v \in Workers : Holds(v, l) => v # w
    BY <2>3
  <2>6. \A v \in Workers : worker'[v].lead = l <=> Holds(v, l)
    BY <1>0, <1>o, <2>1, <2>5
  <2>7. \A v \in Workers : Holds(v, l) => worker'[v] = worker[v]
    BY <1>o, <2>5
  <2>8. UNCHANGED <<todo, sheet, outbox, invited>>
    BY <2>2
  <2>9. Contacted(l)' => sheet'[l] # "blank" \/ outbox'[l] # <<>>
                         \/ \E v \in Workers : Holds(v, l)' /\ Decided(v)'
    BY <2>3, <2>7, <2>8
  <2>10. \A v \in Workers : Holds(v, l)' =>
           \A a \in Accounts : <<a, l>> \in invited' => Decided(v)' /\ worker'[v].account = a
    BY <2>3, <2>6, <2>7, <2>8
  <2> QED
    BY <2>3, <2>4, <2>6, <2>8, <2>9, <2>10
<1> QED
  BY <1>1, <1>2, <1>3, <1>4, <1>5, <1>6, <1>7 DEF OwnSteps, Quiet

\* No worker has more or less in hand, and nothing has happened to a lead.
LEMMA LeadKept ==
  ASSUME LeadInv, NEW l \in Leads, l \notin exposed, \A v \in Workers : Kept(v), l \in todo' => l \in todo,
         l # NoLead, invited' = invited, adrift' \subseteq adrift, sheet' = sheet, outbox' = outbox
  PROVE  LeadSafe(l)'
<1>1. LeadSafe(l)
  BY DEF LeadInv
<1>2. \A v \in Workers : /\ worker'[v].lead = worker[v].lead /\ worker'[v].result = worker[v].result
                         /\ worker[v].lead = l => worker'[v].account = worker[v].account
  BY DEF Kept
<1> QED
  BY <1>1, <1>2 DEF LeadSafe, Holds, Contacted, Decided

LEMMA LeadNext == TypeInv /\ LeadInv /\ [Next]_vars => LeadInv'
<1> SUFFICES ASSUME TypeInv, LeadInv, [Next]_vars, NEW l \in Leads \ exposed' PROVE LeadSafe(l)'
  BY DEF LeadInv
<1>0. SheetType /\ l # NoLead
  BY TypeParts, BoundsAssumption
<1>1. ASSUME NEW w \in Workers, TurnEnds(w) PROVE LeadSafe(l)'
  <2>1. UNCHANGED <<todo, disk, sheet, invited, hist>> /\ adrift' \subseteq adrift
    BY <1>1, TurnEndStep
  <2> QED
    BY <1>0, <1>1, <2>1, TurnEndKeeps, LeadKept DEF disk, hist
<1>2. ASSUME NEW w \in Workers, OwnSteps(w), ~Quiet(w) PROVE LeadSafe(l)'
  BY <1>2, LeadOwn
<1>3. ASSUME NEW w \in Workers, Quiet(w) PROVE LeadSafe(l)'
  <2>1. UNCHANGED <<todo, outbox, sheet, invited, adrift, exposed>>
    BY <1>3 DEF Quiet, WorkerExit, Pausing, Unpausing, Acquire, Launch, PickNextProfile, LeadsExhausted,
       TurnOver, plan, disk, world, hist
  <2> QED
    BY <1>0, <1>3, <2>1, QuietKeeps, LeadKept
<1>4. ASSUME NEW w \in Workers, PageWedged(w) PROVE LeadSafe(l)'
  <2> DEFINE m == worker[w].lead
  <2>1. /\ worker'[w] = [worker[w] EXCEPT !.pc = "close", !.lead = NoLead]
        /\ Others(w) /\ adrift' \subseteq adrift
    BY <1>4, PageWedgedStep
  <2>2. exposed' = exposed \union {m} /\ UNCHANGED <<todo, sheet, outbox, invited>>
    BY <1>4 DEF PageWedged, Trouble, plan, disk
  <2>3. LeadSafe(l) /\ l # m
    BY <2>2 DEF LeadInv
  <2>4. \A v \in Workers \ {w} : Kept(v)
    BY <2>1, OthersKeep DEF Others
  <2>5. worker'[w].lead = NoLead
    <3>1. worker[w] \in WorkerType
      BY DEF TypeInv, WorkersFit
    <3> QED
      BY <2>1, <3>1 DEF WorkerType
  <2>6. \A v \in Workers : /\ worker'[v].lead = l <=> Holds(v, l)
                           /\ Holds(v, l) => worker'[v].result = worker[v].result
                                             /\ worker'[v].account = worker[v].account
    BY <1>0, <2>3, <2>4, <2>5 DEF Kept, Holds
  <2> HIDE DEF m
  <2> QED
    BY <2>1, <2>2, <2>3, <2>6 DEF LeadSafe, Holds, Contacted, Decided
<1>5. CASE StartCampaign
  <2>1. \A w \in Workers : worker[w].lead = NoLead
    BY <1>5, HandFacts DEF StartCampaign, TypeInv, RunFit, At
  <2>2. \A w \in Workers : worker'[w].lead = NoLead
    BY <1>5, RestFits, FreshStep DEF Resting
  <2>3. /\ todo' = {m \in Leads : sheet[m] = "blank"}
        /\ UNCHANGED <<outbox, sheet, invited, adrift>>
    BY <1>5 DEF StartCampaign, world
  <2>4. l \notin exposed /\ (sheet[l] = "blank" => outbox[l] = <<>>)
    BY <1>5 DEF StartCampaign, Unsynced
  <2>5. LeadSafe(l)
    BY <2>4 DEF LeadInv
  <2>6. Contacted(l) => sheet[l] # "blank" \/ outbox[l] # <<>>
    BY <1>0, <2>1, <2>5 DEF LeadSafe, Holds
  <2>7. l \in todo' => ~Contacted(l)
    BY <2>3, <2>4, <2>6
  <2>8. \A w \in Workers : worker'[w].lead # l
    BY <1>0, <2>2
  <2> QED
    BY <2>3, <2>5, <2>6, <2>7, <2>8 DEF LeadSafe, Holds, Contacted
<1>6. CASE Crash
  <2>1. \A w \in Workers : worker'[w].lead = NoLead
    BY <1>6, RestFits, FreshStep DEF Resting
  <2>2. /\ todo' = {} /\ adrift' = {} /\ UNCHANGED <<outbox, sheet, invited>>
        /\ exposed' = exposed \union ({worker[w].lead : w \in Workers} \ {NoLead})
    BY <1>6 DEF Crash, Trouble, disk
  <2>3. LeadSafe(l) /\ \A w \in Workers : ~Holds(w, l)
    BY <1>0, <2>2 DEF LeadInv, Holds
  <2> QED
    BY <1>0, <2>1, <2>2, <2>3 DEF LeadSafe, Holds, Contacted, Decided
<1>7. CASE GiveBack \/ \E w \in Workers : \E n \in 1 .. MaxBrowsers : SetMax(w, n)
  <2>1. UNCHANGED <<todo, outbox, sheet, invited, adrift, exposed>>
    BY <1>7 DEF GiveBack, SetMax, plan, disk, world, hist
  <2>2. \A v \in Workers : Kept(v)
    BY <1>7, WakeOnlyStep, OthersKeep
  <2> QED
    BY <1>0, <2>1, <2>2, LeadKept
<1>8. CASE Aside
  <2>1. worker' = worker
    BY <1>8, AsideStep
  <2>2. \A v \in Workers : Kept(v)
    BY <2>1 DEF Kept
  <2>3. ASSUME NEW s \in Accounts \X Leads, AdriftLands(s) PROVE LeadSafe(l)'
    <3>1. /\ s \in adrift /\ adrift' = adrift \ {s} /\ invited' = invited \union {s}
          /\ UNCHANGED <<todo, outbox, sheet, exposed>>
      BY <2>3 DEF AdriftLands, plan, disk, hist
    <3>2. LeadSafe(l)
      BY <3>1 DEF LeadInv
    <3>3. PICK a \in Accounts, m \in Leads : s = <<a, m>>
      OBVIOUS
    <3>4. m # l
      BY <3>1, <3>2, <3>3 DEF LeadSafe
    <3>5. \A b \in Accounts : <<b, l>> \in invited' <=> <<b, l>> \in invited
      BY <3>1, <3>3, <3>4
    <3> QED
      BY <2>1, <3>1, <3>2, <3>5 DEF LeadSafe, Holds, Contacted, Decided
  <2>4. ASSUME NEW m \in Leads, Flush(m) \/ FlushUnconfirmed(m) PROVE LeadSafe(l)'
    <3>1. outbox[m] # <<>> /\ UNCHANGED <<todo, invited, adrift>> /\ l \notin exposed
      <4>1. CASE Flush(m)
        BY <4>1 DEF Flush, plan, hist
      <4>2. CASE FlushUnconfirmed(m)
        BY <4>2 DEF FlushUnconfirmed, plan, Trouble
      <4> QED
        BY <2>4, <4>1, <4>2
    <3>2. NextWrite(m).write # "blank"
      BY <1>0, <3>1, OutboxFacts DEF Outcomes
    <3>3. sheet' = [sheet EXCEPT ![m] = NextWrite(m).write]
          /\ \A k \in Leads \ {m} : outbox'[k] = outbox[k]
      BY <1>0, <2>4 DEF Flush, FlushUnconfirmed, SheetType, disk
    <3>4. sheet'[l] # "blank" \/ (sheet'[l] = sheet[l] /\ outbox'[l] = outbox[l])
      BY <1>0, <3>2, <3>3 DEF SheetType
    <3>5. LeadSafe(l)
      BY <3>1 DEF LeadInv
    <3> QED
      BY <2>1, <3>1, <3>4, <3>5 DEF LeadSafe, Holds, Contacted, Decided
  <2>5. CASE /\ ~\E s \in Accounts \X Leads : AdriftLands(s)
             /\ ~\E m \in Leads : Flush(m) \/ FlushUnconfirmed(m)
    <3>1. UNCHANGED <<todo, outbox, sheet, invited, adrift, exposed>>
      BY <1>8, <2>5 DEF Aside, Finish, Stop, Pause, Resume, Bench, Unbench, RetryParked, Borrow,
         vars, plan, disk, world, hist, Operates
    <3> QED
      BY <1>0, <2>2, <3>1, LeadKept
  <2> QED
    BY <2>3, <2>4, <2>5
<1> QED
  BY <1>1, <1>2, <1>3, <1>4, <1>5, <1>6, <1>7, <1>8, StepKinds

LEMMA LeadAlways == Spec => []LeadInv
<1>1. Init => LeadInv
  BY BoundsAssumption DEF Init, LeadInv, LeadSafe, Holds, Contacted, Resting
<1> QED
  BY <1>1, TypeAlways, LeadNext, PTL DEF Spec

\* No two accounts invite one lead, over all runs of the day, unless that lead was in
\* trouble: the workers of startCampaign draw from one index, and a later run reads from the
\* sheet what an earlier one did.
THEOREM InvitedOnce == Spec => []LeadOnce
<1>1. LeadInv => LeadOnce
  <2> SUFFICES ASSUME LeadInv, NEW l \in Leads \ exposed
               PROVE  Cardinality({a \in Accounts : <<a, l>> \in invited}) <= 1
    BY DEF LeadOnce
  <2> DEFINE C == {a \in Accounts : <<a, l>> \in invited}
  <2>1. \A a, b \in C : a = b
    <3>1. LeadSafe(l)
      BY DEF LeadInv
    <3> QED
      BY <3>1 DEF LeadSafe
  <2>2. CASE C = {}
    <3>1. Cardinality(C) = 0
      BY <2>2, FS_EmptySet
    <3> QED
      BY <3>1
  <2>3. CASE C # {}
    <3>1. PICK a : C = {a}
      BY <2>1, <2>3
    <3>2. Cardinality({a}) = 1
      BY FS_Singleton
    <3>3. Cardinality(C) = 1
      BY <3>1, <3>2
    <3> QED
      BY <3>3
  <2> QED
    BY <2>2, <2>3
<1> QED
  BY <1>1, LeadAlways, PTL

-----------------------------------------------------------------------------
(* The limit of the day.                                                   *)

Sent(w)            == worker[w].result = "sent"
SentBy(a)          == [account |-> a, action |-> "sent"]
Done(a)            == {l \in Leads : memory[l] = SentBy(a)}
Recording(w, a, l) == At(w, "record") /\ Holds(w, l) /\ Sent(w) /\ worker[w].account = a

\* The lead whose invitation the page did not confirm, on its way to the sheet as a skip.
Skipping(w, a, l) == /\ worker[w].pc \in {"record", "stamp"} /\ Holds(w, l)
                     /\ worker[w].result = "skipped" /\ worker[w].account = a

Skipped(l) == stamped[l] = "skipped" /\ \A w \in Workers : ~Holds(w, l)

\* Who sends, or records what became of it, has not counted it yet.
Uncounted(w) == \/ worker[w].pc \in {"send", "record"}
                \/ worker[w].pc = "stamp" /\ worker[w].result = "skipped"

\* An account is run by one worker; who sends has room under the limit; the counters cover
\* what state.json remembers; and it remembers every invitation but one being recorded and
\* those taken for a skip.
AcctInv  == \A v, w \in Workers :
              worker[v].account = worker[w].account /\ worker[v].account # NoAccount => v = w
RoomInv  == \A w \in Workers : Uncounted(w) => ~Capped(worker[w].account)
CountInv == \A a \in Accounts : SentToday(a) <= DailyLimit /\ (run.on => SentToday(a) <= tally[a])
TellInv  == \A l \in Leads \ exposed : \A a \in Accounts :
              <<a, l>> \in invited =>
                \/ memory[l] = SentBy(a) \/ Skipped(l)
                \/ \E w \in Workers : Recording(w, a, l) \/ Skipping(w, a, l)

CapInv == AcctInv /\ RoomInv /\ CountInv /\ TellInv

LEMMA OwnAccount ==
  ASSUME TypeInv, NEW w \in Workers, OwnSteps(w), \A a \in Accounts : ~PickNextProfile(w, a)
  PROVE  worker'[w].account = worker[w].account
<1>1. CASE Quiet(w)
  <2>1. worker \in [Workers -> WorkerType] /\ worker[w] \in WorkerType
    BY DEF TypeInv, WorkersFit
  <2>2. CASE WorkerExit(w)
    BY <2>1, <2>2, HandFacts DEF WorkerExit, At, Resting
  <2>3. CASE Pausing(w) \/ Unpausing(w)
    BY <2>1, <2>3 DEF Pausing, Unpausing, WorkerType
  <2>4. CASE Acquire(w)
    <3>1. worker' = [worker EXCEPT ![w].pc = "launch"] \/ worker' = [worker EXCEPT ![w].pc = "waiting"]
      BY <2>4 DEF Acquire
    <3> QED
      BY <2>1, <3>1 DEF WorkerType
  <2>5. CASE Launch(w)
    BY <2>1, <2>5 DEF Launch, WorkerType
  <2>6. CASE LeadsExhausted(w) \/ TurnOver(w)
    BY <2>1, <2>6 DEF LeadsExhausted, TurnOver, WorkerType
  <2> QED
    BY <1>1, <2>2, <2>3, <2>4, <2>5, <2>6 DEF Quiet
<1>2. CASE ~Quiet(w)
  BY <1>2, LeadSteps DEF OwnSteps, Quiet
<1> QED
  BY <1>1, <1>2

\* Except when a worker picks one, no worker gets an account.
LEMMA AccountStep ==
  ASSUME TypeInv, [Next]_vars, \A w \in Workers : \A a \in Accounts : ~PickNextProfile(w, a)
  PROVE  \A v \in Workers : worker'[v].account \in {worker[v].account, NoAccount}
<1>g. ASSUME NEW v \in Workers, GoesOn(v) PROVE worker'[v].account = worker[v].account
  <2>1. worker[v] \in WorkerType
    BY DEF TypeInv, WorkersFit
  <2> QED
    BY <1>g, <2>1 DEF GoesOn, WorkerType
<1>1. ASSUME NEW w \in Workers, TurnEnds(w)
      PROVE  \A v \in Workers : worker'[v].account \in {worker[v].account, NoAccount}
  BY <1>1, <1>g, TurnEndStep, RestFits DEF Others
<1>2. ASSUME NEW w \in Workers, OwnSteps(w)
      PROVE  \A v \in Workers : worker'[v].account \in {worker[v].account, NoAccount}
  BY <1>2, OwnAccount, OwnStep
<1>3. ASSUME NEW w \in Workers, PageWedged(w)
      PROVE  \A v \in Workers : worker'[v].account \in {worker[v].account, NoAccount}
  <2>1. worker'[w].account = worker[w].account
    <3>1. worker[w] \in WorkerType
      BY DEF TypeInv, WorkersFit
    <3>2. worker'[w] = [worker[w] EXCEPT !.pc = "close", !.lead = NoLead]
      BY <1>3, PageWedgedStep
    <3> QED
      BY <3>1, <3>2 DEF WorkerType
  <2> QED
    BY <1>3, <1>g, <2>1, PageWedgedStep DEF Others
<1>4. ASSUME GiveBack \/ \E w \in Workers : \E n \in 1 .. MaxBrowsers : SetMax(w, n)
      PROVE  \A v \in Workers : worker'[v].account \in {worker[v].account, NoAccount}
  BY <1>4, <1>g, WakeOnlyStep
<1>5. ASSUME StartCampaign \/ Crash
      PROVE  \A v \in Workers : worker'[v].account \in {worker[v].account, NoAccount}
  BY <1>5, FreshStep, RestFits DEF Resting
<1>6. ASSUME Aside
      PROVE  \A v \in Workers : worker'[v].account \in {worker[v].account, NoAccount}
  BY <1>6, AsideStep
<1> QED
  BY <1>1, <1>2, <1>3, <1>4, <1>5, <1>6, StepKinds

LEMMA AcctNext == TypeInv /\ AcctInv /\ [Next]_vars => AcctInv'
<1> SUFFICES ASSUME TypeInv, AcctInv, [Next]_vars PROVE AcctInv'
  OBVIOUS
<1>1. ASSUME NEW w \in Workers, NEW a \in Accounts, PickNextProfile(w, a) PROVE AcctInv'
  <2>1. a \notin BeingRun /\ worker' = [worker EXCEPT ![w] = [Resting EXCEPT !.pc = "acquire", !.account = a]]
    BY <1>1 DEF PickNextProfile
  <2>2. worker'[w].account = a /\ \A v \in Workers \ {w} : worker'[v] = worker[v]
    BY <2>1 DEF TypeInv, WorkersFit, Resting
  <2>3. \A v \in Workers : worker[v].account # a
    BY <2>1, BoundsAssumption DEF BeingRun
  <2> QED
    BY <2>2, <2>3 DEF AcctInv
<1>2. CASE \A w \in Workers : \A a \in Accounts : ~PickNextProfile(w, a)
  BY <1>2, AccountStep DEF AcctInv
<1> QED
  BY <1>1, <1>2

\* Who works a lead after a step did so before, or has taken it.
Steady(v) == /\ worker'[v].pc \in {"send", "record", "stamp"} => worker'[v].pc = worker[v].pc
             /\ worker[v].pc \in {"record", "stamp"} => worker'[v].pc = worker[v].pc

LEMMA OthersSteady == ASSUME TypeInv, NEW v \in Workers, GoesOn(v) PROVE Steady(v)
<1>1. worker[v] \in WorkerType
  BY DEF TypeInv, WorkersFit
<1> QED
  BY <1>1 DEF GoesOn, Steady, At, WorkerType

LEMMA IdleSteady ==
  ASSUME TypeInv, [Next]_vars, NEW w \in Workers, Quiet(w) \/ TurnEnds(w)
  PROVE  \A v \in Workers : Kept(v) /\ Steady(v)
<1>1. \A v \in Workers : Kept(v)
  BY QuietKeeps, TurnEndKeeps
<1>2. worker[w].pc \notin {"send", "record", "stamp"}
  <2>1. CASE Quiet(w)
    BY <2>1 DEF Quiet, WorkerExit, Pausing, Unpausing, Acquire, Launch, PickNextProfile, LeadsExhausted, TurnOver, At
  <2>2. CASE TurnEnds(w)
    BY <2>2 DEF TurnEnds, Restricted, GiveUp, NotLaunched, LaunchFails, Close, At
  <2> QED
    BY <2>1, <2>2
<1>3. worker'[w].lead = NoLead
  BY <1>1, <1>2, HandFacts DEF Kept
<1>4. worker'[w].pc \notin {"send", "record", "stamp"}
  BY <1>3, WorkersNext DEF WorkersFit, Fit
<1>5. \A v \in Workers \ {w} : GoesOn(v)
  BY OwnStep, TurnEndStep DEF Quiet, OwnSteps, Others, GoesOn
<1> QED
  BY <1>1, <1>2, <1>4, <1>5, OthersSteady DEF Steady

LEMMA RoomNext == TypeInv /\ AcctInv /\ RoomInv /\ [Next]_vars => RoomInv'
<1> SUFFICES ASSUME TypeInv, AcctInv, RoomInv, [Next]_vars PROVE RoomInv'
  OBVIOUS
<1>k. ASSUME tally' = tally,
             \A v \in Workers : Uncounted(v)' => Uncounted(v) /\ worker'[v].account = worker[v].account
      PROVE  RoomInv'
  BY <1>k DEF RoomInv, Capped
<1>u. ASSUME NEW v \in Workers, Kept(v), Steady(v)
      PROVE  Uncounted(v)' => Uncounted(v) /\ worker'[v].account = worker[v].account
  BY <1>u, HandFacts, BoundsAssumption DEF Kept, Steady, Uncounted
<1>s. ASSUME tally' = tally, NEW w \in Workers, Quiet(w) \/ TurnEnds(w) PROVE RoomInv'
  <2>1. \A v \in Workers : Kept(v) /\ Steady(v)
    BY <1>s, IdleSteady
  <2> QED
    BY <1>s, <2>1, <1>k, <1>u
<1>g. ASSUME tally' = tally, \A v \in Workers : GoesOn(v) PROVE RoomInv'
  <2>1. \A v \in Workers : Kept(v) /\ Steady(v)
    BY <1>g, OthersSteady, OthersKeep
  <2> QED
    BY <1>g, <2>1, <1>k, <1>u
<1>1. ASSUME NEW w \in Workers, TurnEnds(w) PROVE RoomInv'
  BY <1>1, <1>s, TurnEndStep
<1>2. ASSUME NEW w \in Workers, Quiet(w) PROVE RoomInv'
  <2>1. tally' = tally
    BY <1>2 DEF Quiet, WorkerExit, Pausing, Unpausing, Acquire, Launch, PickNextProfile, LeadsExhausted,
       TurnOver, plan
  <2> QED
    BY <1>2, <1>s, <2>1
<1>3. ASSUME NEW w \in Workers, OwnSteps(w), ~Quiet(w) PROVE RoomInv'
  <2>o. \A v \in Workers \ {w} : worker'[v] = worker[v]
    BY <1>3, OwnStep
  <2>1. ASSUME NEW l \in Leads, TakeLead(w, l) PROVE RoomInv'
    <3>1. /\ tally' = tally /\ ~Capped(worker[w].account)
          /\ worker'[w].account = worker[w].account
      BY <2>1, LeadSteps DEF TakeLead, Goes
    <3>2. \A v \in Workers \ {w} : Uncounted(v)' => Uncounted(v) /\ worker'[v] = worker[v]
      BY <2>o DEF Uncounted
    <3> QED
      BY <3>1, <3>2 DEF RoomInv, Capped
  <2>2. CASE Record(w)
    <3>1. /\ worker'[w].pc = "stamp" /\ worker[w].account \in Accounts /\ worker[w].pc = "record"
          /\ worker'[w].result = worker[w].result /\ worker'[w].account = worker[w].account
      <4>1. worker[w].pc = "record"
        BY <2>2 DEF Record, At
      <4> QED
        BY <2>2, <4>1, LeadSteps DEF Kept
    <3>2. \A a \in Accounts \ {worker[w].account} : tally'[a] = tally[a]
      BY <2>2 DEF Record
    <3>3. \A v \in Workers \ {w} : worker[v].account # worker[w].account
      BY <3>1, BoundsAssumption DEF AcctInv
    <3>4. \A v \in Workers \ {w} : Uncounted(v)' =>
            Uncounted(v) /\ worker'[v] = worker[v] /\ worker[v].account \in Accounts \ {worker[w].account}
      BY <2>o, <3>3, HandFacts DEF Uncounted
    <3>5. Uncounted(w)' => ~Capped(worker[w].account) /\ tally' = tally
      <4>1. ASSUME Uncounted(w)' PROVE ~Sent(w)
        BY <3>1, <4>1 DEF Uncounted, Sent
      <4>2. ~Capped(worker[w].account)
        BY <3>1 DEF RoomInv, Uncounted
      <4> QED
        BY <2>2, <4>1, <4>2 DEF Record, Sent
    <3> QED
      BY <3>1, <3>2, <3>4, <3>5 DEF RoomInv, Capped
  <2>3. CASE ~Record(w) /\ ~\E l \in Leads : TakeLead(w, l)
    <3>1. tally' = tally
      BY <1>3, <2>3 DEF OwnSteps, Quiet, Invite, Unconfirmed, Transient, Watchdog, Refused, Stamp, StampFails, Stamps, Preempt, plan
    <3>2. worker'[w].account = worker[w].account /\ (worker'[w].pc = "turn" \/ worker[w].pc = "send")
      <4>1. CASE Stamp(w) \/ StampFails(w) \/ Preempt(w)
        BY <4>1, LeadSteps
      <4>2. CASE \/ Invite(w) \/ Unconfirmed(w) \/ Transient(w) \/ Watchdog(w)
                 \/ \E result \in Results \ {"sent"} : Refused(w, result)
        BY <4>2, LeadSteps DEF Invite, Unconfirmed, Transient, Watchdog, Refused, At
      <4> QED
        BY <1>3, <2>3, <4>1, <4>2 DEF OwnSteps, Quiet
    <3>3. \A v \in Workers : Uncounted(v)' => Uncounted(v) /\ worker'[v].account = worker[v].account
      BY <2>o, <3>2 DEF Uncounted
    <3> QED
      BY <1>k, <3>1, <3>3
  <2> QED
    BY <2>1, <2>2, <2>3
<1>4. ASSUME NEW w \in Workers, PageWedged(w) PROVE RoomInv'
  <2>1. /\ worker'[w].pc = "close" /\ tally' = tally
        /\ \A v \in Workers \ {w} : GoesOn(v)
    <3>1. worker[w] \in WorkerType
      BY DEF TypeInv, WorkersFit
    <3>2. worker'[w] = [worker[w] EXCEPT !.pc = "close", !.lead = NoLead] /\ Others(w)
      BY <1>4, PageWedgedStep
    <3>3. worker'[w].pc = "close"
      BY <3>1, <3>2 DEF WorkerType
    <3>4. tally' = tally
      BY <1>4 DEF PageWedged, plan
    <3> QED
      BY <3>2, <3>3, <3>4 DEF Others
  <2>2. \A v \in Workers \ {w} : Kept(v) /\ Steady(v)
    BY <2>1, OthersSteady, OthersKeep
  <2>3. ~Uncounted(w)'
    BY <2>1 DEF Uncounted
  <2> QED
    BY <2>1, <2>2, <2>3, <1>k, <1>u
<1>5. CASE GiveBack \/ \E w \in Workers : \E n \in 1 .. MaxBrowsers : SetMax(w, n)
  <2>1. tally' = tally
    BY <1>5 DEF GiveBack, SetMax, plan
  <2> QED
    BY <1>5, <2>1, <1>g, WakeOnlyStep
<1>6. CASE StartCampaign \/ Crash
  BY <1>6, FreshStep DEF RoomInv, AtRest, Resting, Uncounted
<1>7. CASE Aside
  <2>1. tally' = tally
    BY <1>7 DEF Aside, Finish, AdriftLands, Flush, FlushUnconfirmed, Stop, Pause, Resume, Bench,
       Unbench, RetryParked, Borrow, vars, plan
  <2> QED
    BY <1>7, <2>1, <1>k, AsideStep DEF Uncounted
<1> QED
  BY <1>1, <1>2, <1>3, <1>4, <1>5, <1>6, <1>7, StepKinds

\* What state.json remembers is finite; fewer leads, a smaller number.
LEMMA DoneFacts ==
  ASSUME NEW a
  PROVE  /\ IsFiniteSet(Done(a)) /\ SentToday(a) = Cardinality(Done(a)) /\ SentToday(a) \in Nat
         /\ \A S \in SUBSET Done(a) : Cardinality(S) <= SentToday(a) /\ Cardinality(S) \in Nat
<1>1. IsFiniteSet(Leads)
  BY BoundsAssumption
<1>2. IsFiniteSet(Done(a))
  BY <1>1, FS_Subset DEF Done
<1>3. SentToday(a) = Cardinality(Done(a))
  BY DEF SentToday, Done, SentBy
<1> QED
  BY <1>2, <1>3, FS_CardinalityType, FS_Subset

LEMMA CountNext == TypeInv /\ RoomInv /\ CountInv /\ [Next]_vars => CountInv'
<1> SUFFICES ASSUME TypeInv, RoomInv, CountInv, [Next]_vars PROVE CountInv'
  OBVIOUS
<1>0. MemType /\ PlanType /\ DailyLimit \in Nat
  BY TypeParts, BoundsAssumption
<1>d. \A a : SentToday(a)' = Cardinality(Done(a)')
  BY DEF SentToday, Done, SentBy
<1>n. \A a : SentToday(a) \in Nat
  BY DoneFacts
\* Neither the counters nor the memory of a send change.
<1>k. ASSUME tally' = tally, run'.on => run.on, \A a \in Accounts : Done(a)' \subseteq Done(a) PROVE CountInv'
  <2> SUFFICES ASSUME NEW a \in Accounts
               PROVE  SentToday(a)' <= DailyLimit /\ (run'.on => SentToday(a)' <= tally'[a])
    BY DEF CountInv
  <2>1. SentToday(a)' <= SentToday(a) /\ SentToday(a)' \in Nat /\ SentToday(a) \in Nat
    BY <1>d, <1>k, DoneFacts
  <2>2. SentToday(a) <= DailyLimit /\ (run.on => SentToday(a) <= tally[a]) /\ tally[a] \in Nat
    BY <1>0 DEF CountInv, PlanType
  <2>3. \A m, n, k \in Nat : m <= n /\ n <= k => m <= k
    OBVIOUS
  <2>4. SentToday(a)' <= DailyLimit
    BY <1>0, <2>1, <2>2, <2>3
  <2>5. run'.on => SentToday(a)' <= tally[a]
    BY <1>k, <2>1, <2>2, <2>3
  <2> QED
    BY <1>k, <2>4, <2>5
<1>m. ASSUME memory' = memory PROVE \A a \in Accounts : Done(a)' \subseteq Done(a)
  BY <1>m DEF Done
<1>1. ASSUME NEW w \in Workers, TurnEnds(w) PROVE CountInv'
  <2>1. PICK i : EndTurn(w, i, worker')
    BY <1>1, TurnEndStep
  <2>2. run'.on = run.on
    BY <2>1 DEF EndTurn, TypeInv, RunFit, RunType
  <2> QED
    BY <1>1, <1>k, <1>m, <2>2, TurnEndStep DEF disk
<1>2. ASSUME NEW w \in Workers, OwnSteps(w) PROVE CountInv'
  <2>1. CASE Record(w)
    <3>0. worker[w].account \in Accounts /\ worker[w].lead \in Leads /\ worker[w].pc = "record"
      BY <2>1, HandFacts DEF Record, At
    <3>b. PICK b \in Accounts, l \in Leads : b = worker[w].account /\ l = worker[w].lead
      BY <3>0
    <3>1. b \in Accounts /\ l \in Leads /\ worker[w].pc = "record"
      BY <3>0
    <3>2. ~Capped(b)
      BY <3>0, <3>b DEF RoomInv, Uncounted
    <3>3. run' = run
      BY <2>1 DEF Record
    <3>4. CASE Sent(w)
      <4>1. memory' = [memory EXCEPT ![l] = SentBy(b)] /\ tally' = [tally EXCEPT ![b] = @ + 1]
        BY <2>1, <3>b, <3>2, <3>4 DEF Record, Sent, SentBy
      <4>2. Done(b)' = Done(b) \union {l}
        BY <1>0, <3>1, <4>1 DEF Done, MemType
      <4>3. \A a \in Accounts \ {b} : Done(a)' \subseteq Done(a)
        BY <1>0, <3>1, <4>1 DEF Done, MemType, SentBy
      <4>4. SentToday(b)' <= SentToday(b) + 1 /\ SentToday(b)' \in Nat
        <5>1. /\ IsFiniteSet(Done(b) \union {l})
              /\ Cardinality(Done(b) \union {l}) \in {SentToday(b), SentToday(b) + 1}
          BY DoneFacts, FS_AddElement
        <5>2. SentToday(b)' \in {SentToday(b), SentToday(b) + 1}
          BY <1>d, <4>2, <5>1
        <5>3. \A m, n \in Nat : m \in {n, n + 1} => m <= n + 1
          OBVIOUS
        <5>4. \A n \in Nat : n + 1 \in Nat
          OBVIOUS
        <5>5. SentToday(b) \in Nat
          BY <1>n
        <5>6. SentToday(b)' \in Nat
          BY <5>2, <5>4, <5>5
        <5> QED
          BY <5>2, <5>3, <5>5, <5>6
      <4>5. tally[b] \in Nat /\ tally[b] + 1 <= DailyLimit /\ tally'[b] = tally[b] + 1
        <5>1. tally[b] \in 0 .. DailyLimit /\ ~(tally[b] >= DailyLimit)
          BY <1>0, <3>1, <3>2 DEF PlanType, Capped
        <5>2. \A n \in 0 .. DailyLimit : ~(n >= DailyLimit) => n \in Nat /\ n + 1 <= DailyLimit
          BY <1>0
        <5>3. tally'[b] = tally[b] + 1
          BY <1>0, <3>1, <4>1 DEF PlanType
        <5> QED
          BY <5>1, <5>2, <5>3
      <4>6. run.on /\ SentToday(b) <= tally[b]
        <5>1. run.on
          BY <3>1 DEF TypeInv, RunFit, At
        <5> QED
          BY <3>1, <5>1 DEF CountInv
      <4>7. \A s, n, t, u \in Nat : s <= n + 1 /\ n <= t /\ t + 1 <= u => s <= t + 1 /\ s <= u
        OBVIOUS
      <4>8. SentToday(b)' <= tally'[b] /\ SentToday(b)' <= DailyLimit
        BY <1>0, <1>n, <4>4, <4>5, <4>6, <4>7
      <4>9. ASSUME NEW a \in Accounts \ {b}
            PROVE  SentToday(a)' <= DailyLimit /\ SentToday(a)' <= tally'[a]
        <5>1. SentToday(a)' <= SentToday(a) /\ SentToday(a)' \in Nat /\ SentToday(a) \in Nat
          BY <1>d, <4>3, DoneFacts
        <5>2. SentToday(a) <= DailyLimit /\ SentToday(a) <= tally[a] /\ tally[a] \in Nat /\ tally'[a] = tally[a]
          BY <1>0, <4>1, <4>6 DEF CountInv, PlanType
        <5>3. \A m, n, k \in Nat : m <= n /\ n <= k => m <= k
          OBVIOUS
        <5>4. SentToday(a)' <= DailyLimit
          BY <1>0, <5>1, <5>2, <5>3
        <5>5. SentToday(a)' <= tally[a]
          BY <5>1, <5>2, <5>3
        <5> QED
          BY <5>2, <5>4, <5>5
      <4> QED
        BY <3>3, <4>8, <4>9 DEF CountInv
    <3>5. CASE ~Sent(w)
      <4>1. tally' = tally
        BY <2>1, <3>5 DEF Record, Sent
      <4>2. memory' = [memory EXCEPT ![l] = Unknown] \/ memory' = [memory EXCEPT ![l] = @]
        BY <2>1, <3>b, <3>5 DEF Record, Sent
      <4>3. \A a \in Accounts : Unknown # SentBy(a)
        BY DEF Unknown, SentBy
      <4>4. \A a \in Accounts : Done(a)' \subseteq Done(a)
        BY <1>0, <3>1, <4>2, <4>3 DEF Done, MemType
      <4> QED
        BY <1>k, <3>3, <4>1, <4>4
    <3> QED
      BY <3>4, <3>5
  <2>2. ASSUME NEW l \in Leads, TakeLead(w, l) PROVE CountInv'
    <3>1. /\ tally' = tally /\ run' = run
          /\ memory' = [memory EXCEPT ![l] = [account |-> worker[w].account, action |-> "_in_progress"]]
      BY <2>2 DEF TakeLead
    <3>2. \A a \in Accounts : Done(a)' \subseteq Done(a)
      <4> DEFINE n == [account |-> worker[w].account, action |-> "_in_progress"]
      <4>1. \A a \in Accounts : n # SentBy(a)
        BY DEF SentBy
      <4> HIDE DEF n
      <4> QED
        BY <1>0, <3>1, <4>1 DEF Done, MemType, n
    <3> QED
      BY <1>k, <3>1, <3>2
  <2>3. CASE ~Record(w) /\ ~\E l \in Leads : TakeLead(w, l)
    <3>1. UNCHANGED <<tally, memory>>
      BY <1>2, <2>3 DEF OwnSteps, WorkerExit, Pausing, Unpausing, Acquire, Launch, PickNextProfile,
         LeadsExhausted, TurnOver, Invite, Unconfirmed, Transient, Watchdog, Refused, Stamp, StampFails, Stamps, Preempt, plan, disk
    <3>2. run.on
      BY <1>2 DEF TypeInv, RunFit, OwnSteps, WorkerExit, Pausing, Unpausing, Acquire, Launch, PickNextProfile,
         TakeLead, LeadsExhausted, TurnOver, Invite, Unconfirmed, Transient, Watchdog, Refused, Record, Stamp, StampFails, Stamps, Preempt, At
    <3> QED
      BY <1>k, <1>m, <3>1, <3>2
  <2> QED
    BY <2>1, <2>2, <2>3
<1>3. CASE StartCampaign
  <2>1. \A a \in Accounts : Done(a)' \subseteq Done(a)
    <3>1. memory' = [l \in Leads |-> IF memory[l].action = "_in_progress" THEN Unknown ELSE memory[l]]
      BY <1>3 DEF StartCampaign
    <3>2. \A a \in Accounts : Unknown # SentBy(a)
      BY DEF Unknown, SentBy
    <3> QED
      BY <3>1, <3>2 DEF Done
  <2>2. \A a \in Accounts : tally'[a] = Seeded(a)
    BY <1>3 DEF StartCampaign
  <2>3. ASSUME NEW a \in Accounts PROVE SentToday(a)' <= DailyLimit /\ SentToday(a)' <= tally'[a]
    <3>1. SentToday(a)' <= SentToday(a) /\ SentToday(a)' \in Nat /\ SentToday(a) \in Nat
      BY <1>d, <2>1, DoneFacts
    <3>2. SentToday(a) <= DailyLimit
      BY DEF CountInv
    <3>3. Seeded(a) = SentToday(a)
      BY <1>0, <3>1, <3>2 DEF Seeded
    <3>4. \A m, n, k \in Nat : m <= n /\ n <= k => m <= k
      OBVIOUS
    <3>5. SentToday(a)' <= DailyLimit
      BY <1>0, <3>1, <3>2, <3>4
    <3> QED
      BY <2>2, <3>1, <3>3, <3>5
  <2> QED
    BY <2>3 DEF CountInv
<1>4. CASE Crash
  <2>1. ~run'.on /\ memory' = memory
    BY <1>4 DEF Crash, Stopped, disk
  <2> QED
    BY <2>1 DEF CountInv, SentToday
<1>5. ASSUME \/ GiveBack \/ (Aside /\ ~Finish) \/ (\E w \in Workers : PageWedged(w))
             \/ \E w \in Workers : \E n \in 1 .. MaxBrowsers : SetMax(w, n)
      PROVE  CountInv'
  <2>1. UNCHANGED <<tally, memory>>
    BY <1>5 DEF GiveBack, PageWedged, SetMax, Aside, AdriftLands, Flush, FlushUnconfirmed, Stop, Pause,
       Resume, Bench, Unbench, RetryParked, Borrow, vars, plan, disk
  <2>2. run' = run \/ \E r : run' = [run EXCEPT !.pause = r] \/ (run.on /\ Stop)
    BY <1>5 DEF GiveBack, PageWedged, SetMax, Aside, AdriftLands, Flush, FlushUnconfirmed, Stop, Pause,
       Resume, Bench, Unbench, RetryParked, Borrow, vars
  <2>3. run'.on => run.on
    BY <2>2 DEF TypeInv, RunFit, RunType
  <2> QED
    BY <1>k, <1>m, <2>1, <2>3
<1>6. CASE Finish
  <2>1. ~run'.on /\ memory' = memory
    BY <1>6 DEF Finish, disk, TypeInv, RunFit, RunType
  <2> QED
    BY <2>1 DEF CountInv, SentToday
<1> QED
  BY <1>1, <1>2, <1>3, <1>4, <1>5, <1>6, StepKinds

LEMMA TellNext == TypeInv /\ LeadInv /\ TellInv /\ [Next]_vars => TellInv'
<1> SUFFICES ASSUME TypeInv, LeadInv, TellInv, [Next]_vars,
                    NEW l \in Leads \ exposed', NEW a \in Accounts, <<a, l>> \in invited'
             PROVE  \/ memory'[l] = SentBy(a) \/ Skipped(l)'
                    \/ \E w \in Workers : Recording(w, a, l)' \/ Skipping(w, a, l)'
  BY DEF TellInv, SentBy
<1> DEFINE Busy(w) == Recording(w, a, l) \/ Skipping(w, a, l)
           Told == \/ memory'[l] = SentBy(a) \/ Skipped(l)'
                   \/ \E w \in Workers : Busy(w)'
<1>0. MemType /\ l # NoLead /\ stamped \in [Leads -> Outcomes \union {"blank"}]
  BY TypeParts, BoundsAssumption DEF SheetType
<1>k. ASSUME l \notin exposed, <<a, l>> \in invited, memory'[l] = memory[l], stamped'[l] = stamped[l],
             \A v \in Workers : (Busy(v) => Busy(v)') /\ (worker'[v].lead = l => worker[v].lead = l)
      PROVE  Told
  BY <1>k DEF TellInv, Skipped, Holds
<1>s. ASSUME NEW v \in Workers, Kept(v), Steady(v)
      PROVE  (Busy(v) => Busy(v)') /\ (worker'[v].lead = l => worker[v].lead = l)
  BY <1>0, <1>s DEF Kept, Steady, Recording, Skipping, At, Holds, Sent
<1>v. ASSUME NEW v \in Workers, worker'[v] = worker[v], Busy(v) PROVE Busy(v)'
  BY <1>v DEF Recording, Skipping, At, Holds, Sent
<1>b. ASSUME NEW v \in Workers, Busy(v) PROVE worker[v].pc \in {"record", "stamp"} /\ worker[v].lead = l
  BY <1>b DEF Recording, Skipping, At, Holds
<1> HIDE DEF Told, Busy
<1>1. ASSUME NEW w \in Workers, Quiet(w) \/ TurnEnds(w) PROVE Told
  <2>1. UNCHANGED <<memory, stamped, invited, exposed>>
    <3>1. CASE TurnEnds(w)
      BY <3>1, TurnEndStep DEF disk, hist
    <3>2. CASE Quiet(w)
      BY <3>2 DEF Quiet, WorkerExit, Pausing, Unpausing, Acquire, Launch, PickNextProfile, LeadsExhausted,
         TurnOver, disk, world, hist
    <3> QED
      BY <1>1, <3>1, <3>2
  <2> QED
    BY <1>1, <1>k, <1>s, <2>1, IdleSteady
<1>2. ASSUME NEW w \in Workers, OwnSteps(w), ~Quiet(w) PROVE Told
  <2>o. \A v \in Workers \ {w} : worker'[v] = worker[v]
    BY <1>2, OwnStep
  \* The worker itself was not recording.
  <2>k. ASSUME l \notin exposed, <<a, l>> \in invited, memory'[l] = memory[l], stamped'[l] = stamped[l],
               worker[w].pc \notin {"record", "stamp"} \/ worker[w].lead # l,
               worker'[w].lead = l => worker[w].lead = l
        PROVE  Told
    BY <1>k, <1>v, <1>b, <2>k, <2>o
  <2>1. ASSUME NEW m \in Leads, TakeLead(w, m) PROVE Told
    <3>1. /\ UNCHANGED <<stamped, invited, exposed>> /\ m \in todo /\ worker[w].pc = "turn"
          /\ memory' = [memory EXCEPT ![m] = [account |-> worker[w].account, action |-> "_in_progress"]]
      BY <2>1 DEF TakeLead, world, hist, At
    <3>2. m # l
      BY <3>1 DEF LeadInv, LeadSafe, Contacted
    <3>3. memory'[l] = memory[l]
      BY <1>0, <3>1, <3>2 DEF MemType
    <3>4. worker'[w].lead = m
      BY <2>1, LeadSteps
    <3> QED
      BY <2>k, <3>1, <3>2, <3>3, <3>4
  <2>2. CASE Invite(w) \/ Unconfirmed(w)
    <3>1. /\ UNCHANGED <<memory, stamped, exposed>> /\ worker[w].pc = "send"
          /\ invited' = invited \union {<<worker[w].account, worker[w].lead>>}
      BY <2>2 DEF Invite, Unconfirmed, disk, hist, InHand, At
    <3>2. CASE <<a, l>> \in invited
      BY <2>2, <2>k, <3>1, <3>2, LeadSteps
    <3>3. CASE <<a, l>> \notin invited
      <4>1. a = worker[w].account /\ l = worker[w].lead
        BY <3>1, <3>3
      <4>2. worker'[w].pc = "record" /\ worker'[w].lead = l /\ worker'[w].account = a
            /\ worker'[w].result \in {"sent", "skipped"}
        BY <2>2, <4>1, LeadSteps
      <4>3. Busy(w)'
        BY <4>2 DEF Busy, Recording, Skipping, At, Holds, Sent
      <4> QED
        BY <4>3 DEF Told
    <3> QED
      BY <3>2, <3>3
  <2>3. CASE Transient(w) \/ Watchdog(w) \/ Preempt(w) \/ \E result \in Results \ {"sent"} : Refused(w, result)
    <3>1. UNCHANGED <<memory, stamped, invited>> /\ l \notin exposed /\ worker[w].pc = "send"
      BY <2>3 DEF Transient, Watchdog, Preempt, Refused, Trouble, disk, world, hist, At
    <3>2. worker'[w].lead \in {worker[w].lead, NoLead}
      BY <2>3, LeadSteps
    <3> QED
      BY <1>0, <2>k, <3>1, <3>2
  \* What is stamped is a skip, or is remembered as a send already.
  <2>4. CASE Stamp(w)
    <3>1. UNCHANGED <<memory, invited, exposed>> /\ worker[w].pc = "stamp"
      BY <2>4 DEF Stamp, Stamps, world, hist, At
    <3>l. worker'[w].lead = NoLead
      BY <2>4, LeadSteps
    <3>2. CASE worker[w].lead # l
      <4>1. stamped'[l] = stamped[l]
        BY <1>0, <2>4, <3>2 DEF Stamp
      <4> QED
        BY <1>0, <2>k, <3>1, <3>l, <3>2, <4>1
    <3>3. CASE worker[w].lead = l
      <4>1. worker[w].result \in {"sent", "skipped"}
        BY <3>1, <3>3 DEF LeadInv, LeadSafe, Holds, Decided
      <4>2. CASE worker[w].result = "skipped"
        <5>1. stamped' = [stamped EXCEPT ![l] = "skipped"]
          BY <2>4, <3>3, <4>2 DEF Stamp
        <5>2. \A v \in Workers \ {w} : worker'[v].lead # l
          BY <2>o, <3>1, <3>3 DEF LeadInv, LeadSafe, Holds
        <5> QED
          BY <1>0, <3>l, <5>1, <5>2 DEF Told, Skipped, Holds
      <4>3. CASE worker[w].result = "sent"
        <5>1. \A v \in Workers : ~Busy(v)
          <6> SUFFICES ASSUME NEW v \in Workers, Busy(v) PROVE FALSE
            OBVIOUS
          <6>1. v = w
            BY <1>b, <3>1, <3>3 DEF LeadInv, LeadSafe, Holds
          <6> QED
            BY <3>1, <4>3, <6>1 DEF Busy, Recording, Skipping, At
        <5>2. ~Skipped(l)
          BY <3>3 DEF Skipped, Holds
        <5> QED
          BY <3>1, <5>1, <5>2 DEF TellInv, Told, Busy
      <4> QED
        BY <4>1, <4>2, <4>3
    <3> QED
      BY <3>2, <3>3
  <2>5. CASE StampFails(w)
    <3>1. UNCHANGED <<memory, stamped, invited>> /\ l \notin exposed /\ l # worker[w].lead
      BY <2>5 DEF StampFails, Trouble, disk, world
    <3>2. worker'[w].lead = NoLead
      BY <2>5, LeadSteps
    <3> QED
      BY <1>0, <2>k, <3>1, <3>2
  <2>6. CASE Record(w)
    <3>1. UNCHANGED <<stamped, invited, exposed>> /\ worker[w].pc = "record"
      BY <2>6 DEF Record, world, hist, At
    <3>2. CASE worker[w].lead = l
      <4>1. Decided(w) /\ worker[w].account = a
        BY <3>1, <3>2 DEF LeadInv, LeadSafe, Holds
      <4>2. CASE Sent(w)
        <5>1. memory' = [memory EXCEPT ![l] = SentBy(a)]
          BY <2>6, <3>2, <4>1, <4>2 DEF Record, Sent, SentBy
        <5>2. memory'[l] = SentBy(a)
          BY <1>0, <5>1 DEF MemType
        <5> QED
          BY <5>2 DEF Told
      <4>3. CASE ~Sent(w)
        <5>1. worker'[w].pc = "stamp" /\ worker'[w].lead = l /\ worker'[w].account = a
              /\ worker'[w].result = "skipped"
          BY <2>6, <3>2, <4>1, <4>3, LeadSteps DEF Sent, Decided, Kept
        <5>2. Busy(w)'
          BY <5>1 DEF Busy, Skipping, Holds
        <5> QED
          BY <5>2 DEF Told
      <4> QED
        BY <4>2, <4>3
    <3>3. CASE worker[w].lead # l
      <4>1. memory'[l] = memory[l]
        BY <1>0, <2>6, <3>3 DEF Record, MemType
      <4>2. worker'[w].lead = worker[w].lead
        BY <2>6, LeadSteps DEF Kept
      <4> QED
        BY <2>k, <3>1, <3>3, <4>1, <4>2
    <3> QED
      BY <3>2, <3>3
  <2> QED
    BY <1>2, <2>1, <2>2, <2>3, <2>4, <2>5, <2>6 DEF OwnSteps, Quiet
<1>3. ASSUME NEW w \in Workers, PageWedged(w) PROVE Told
  <2>1. UNCHANGED <<memory, stamped, invited>> /\ l \notin exposed /\ worker[w].pc = "send"
    BY <1>3 DEF PageWedged, Trouble, disk, At
  <2>2. \A v \in Workers \ {w} : Kept(v) /\ Steady(v)
    BY <1>3, PageWedgedStep, OthersSteady, OthersKeep DEF Others
  <2>3. worker'[w].lead = NoLead
    <3>1. worker[w] \in WorkerType
      BY DEF TypeInv, WorkersFit
    <3> QED
      BY <1>3, <3>1, PageWedgedStep DEF WorkerType
  <2>4. \A v \in Workers : (Busy(v) => Busy(v)') /\ (worker'[v].lead = l => worker[v].lead = l)
    BY <1>0, <1>b, <1>s, <2>1, <2>2, <2>3
  <2> QED
    BY <1>k, <2>1, <2>4
<1>4. ASSUME GiveBack \/ \E w \in Workers : \E n \in 1 .. MaxBrowsers : SetMax(w, n) PROVE Told
  <2>1. UNCHANGED <<memory, stamped, invited, exposed>>
    BY <1>4 DEF GiveBack, SetMax, disk, world, hist
  <2>2. \A v \in Workers : Kept(v) /\ Steady(v)
    BY <1>4, WakeOnlyStep, OthersSteady, OthersKeep
  <2> QED
    BY <1>k, <1>s, <2>1, <2>2
<1>5. ASSUME StartCampaign PROVE Told
  <2>1. invited' = invited /\ stamped' = stamped /\ l \notin exposed
    BY <1>5 DEF StartCampaign, world
  <2>2. \A w \in Workers : ~Busy(w)
    BY <1>5, <1>b DEF StartCampaign, TypeInv, RunFit, At
  <2>3. CASE memory[l] = SentBy(a)
    <3>1. memory'[l] = memory[l]
      BY <1>5, <2>3 DEF StartCampaign, SentBy
    <3> QED
      BY <2>3, <3>1 DEF Told
  <2>4. CASE stamped[l] = "skipped"
    <3>1. \A v \in Workers : worker'[v].lead = NoLead
      BY <1>5, FreshStep DEF AtRest, Resting
    <3> QED
      BY <1>0, <2>1, <2>4, <3>1 DEF Told, Skipped, Holds
  <2> QED
    BY <2>1, <2>2, <2>3, <2>4 DEF TellInv, Skipped, Busy
<1>6. ASSUME Crash PROVE Told
  <2>1. /\ invited' = invited /\ memory' = memory /\ stamped' = stamped
        /\ exposed' = exposed \union ({worker[w].lead : w \in Workers} \ {NoLead})
    BY <1>6 DEF Crash, Trouble, disk
  <2>2. \A v \in Workers : ~Busy(v)
    BY <1>0, <1>b, <2>1
  <2>3. \A v \in Workers : worker'[v].lead = NoLead
    BY <1>6, FreshStep DEF AtRest, Resting
  <2> QED
    BY <1>0, <1>k, <2>1, <2>2, <2>3
<1>7. ASSUME Aside PROVE Told
  <2>1. worker' = worker
    BY <1>7, AsideStep
  <2>2. memory' = memory /\ stamped' = stamped /\ l \notin exposed
    BY <1>7 DEF Aside, Finish, AdriftLands, Flush, FlushUnconfirmed, Stop, Pause, Resume, Bench,
       Unbench, RetryParked, Borrow, vars, disk, hist, Trouble, Operates
  <2>3. <<a, l>> \in invited
    <3>1. ASSUME NEW s \in Accounts \X Leads, AdriftLands(s) PROVE <<a, l>> \in invited
      <4>1. s \in adrift /\ invited' = invited \union {s}
        BY <3>1 DEF AdriftLands
      <4>2. <<a, l>> \notin adrift
        BY <2>2 DEF LeadInv, LeadSafe
      <4> QED
        BY <4>1, <4>2
    <3>2. CASE ~\E s \in Accounts \X Leads : AdriftLands(s)
      BY <1>7, <3>2 DEF Aside, Finish, Flush, FlushUnconfirmed, Stop, Pause, Resume, Bench,
         Unbench, RetryParked, Borrow, vars, world
    <3> QED
      BY <3>1, <3>2
  <2> QED
    BY <1>k, <1>v, <2>1, <2>2, <2>3
<1>8. Told
  BY <1>1, <1>2, <1>3, <1>4, <1>5, <1>6, <1>7, StepKinds
<1> QED
  BY <1>8 DEF Told, Busy

LEMMA CapAlways == Spec => []CapInv
<1>1. Init => CapInv
  <2> SUFFICES ASSUME Init PROVE CapInv
    OBVIOUS
  <2>1. \A a \in Accounts : Done(a) = {}
    BY DEF Init, Done, SentBy, Unknown
  <2>2. \A a \in Accounts : SentToday(a) = 0
    BY <2>1, DoneFacts, FS_EmptySet
  <2>3. CountInv
    BY <2>2, BoundsAssumption DEF Init, CountInv, Stopped
  <2>4. AcctInv /\ RoomInv /\ TellInv
    BY DEF Init, AcctInv, RoomInv, TellInv, Resting, Uncounted
  <2> QED
    BY <2>3, <2>4 DEF CapInv
<1>2. TypeInv /\ LeadInv /\ CapInv /\ [Next]_vars => CapInv'
  BY AcctNext, RoomNext, CountNext, TellNext DEF CapInv
<1> QED
  BY <1>1, <1>2, TypeAlways, LeadAlways, PTL DEF Spec

\* Over all runs of the day an account sends no more than its limit, of the sends the app
\* knows of: campaignSendCounts is counted before the next lead is taken, and a new run seeds
\* it from state.json.  Sends the page did not confirm, and those of leads in trouble, are
\* not among them, and the code bounds them by nothing.
THEOREM LimitKept == Spec => []DailyCap
<1>1. TypeInv /\ LeadInv /\ CapInv => DailyCap
  <2> SUFFICES ASSUME TypeInv, CapInv, NEW a \in Accounts
               PROVE  Cardinality({l \in Leads \ exposed : <<a, l>> \in invited /\ stamped[l] # "skipped"})
                        <= DailyLimit
    BY DEF DailyCap
  <2> DEFINE I == {l \in Leads \ exposed : <<a, l>> \in invited /\ stamped[l] # "skipped"}
             H == {l \in Leads : \E w \in Workers : Recording(w, a, l) \/ Skipping(w, a, l)}
             D == Done(a) \union H
  <2>1. I \subseteq D
    BY DEF CapInv, TellInv, Skipped, Done
  <2>2. IsFiniteSet(Done(a))
    BY DoneFacts
  <2>3. IsFiniteSet(D) /\ Cardinality(D) <= DailyLimit
    <3>1. CASE H = {}
      BY <2>2, <3>1, DoneFacts DEF CapInv, CountInv
    <3>2. CASE H # {}
      <4>1. PICK w \in Workers : Uncounted(w) /\ worker[w].account = a
        BY <3>2 DEF Recording, Skipping, Uncounted, At
      <4>2. \A l \in H : l = worker[w].lead
        BY <4>1, BoundsAssumption DEF Recording, Skipping, Holds, CapInv, AcctInv
      <4>3. PICK l \in Leads : H = {l}
        BY <3>2, <4>2
      <4>4. run.on /\ ~Capped(a)
        BY <4>1 DEF TypeInv, RunFit, CapInv, RoomInv, Uncounted, At
      <4>5. SentToday(a) <= tally[a] /\ tally[a] \in 0 .. DailyLimit /\ ~(tally[a] >= DailyLimit)
        BY <4>4, TypeParts DEF CapInv, CountInv, PlanType, Capped
      <4>6. SentToday(a) \in Nat /\ SentToday(a) = Cardinality(Done(a))
        BY DoneFacts
      <4>7. IsFiniteSet(D) /\ Cardinality(D) \in {SentToday(a), SentToday(a) + 1}
        <5>1. D = Done(a) \union {l}
          BY <4>3
        <5>2. /\ IsFiniteSet(Done(a) \union {l})
              /\ Cardinality(Done(a) \union {l}) =
                   IF l \in Done(a) THEN Cardinality(Done(a)) ELSE Cardinality(Done(a)) + 1
          BY <2>2, FS_AddElement
        <5> HIDE DEF D
        <5> QED
          BY <4>6, <5>1, <5>2
      <4>8. \A d, n, t, u \in Nat : d \in {n, n + 1} /\ n <= t /\ ~(t >= u) => d <= u
        OBVIOUS
      <4>9. Cardinality(D) \in Nat /\ DailyLimit \in Nat /\ tally[a] \in Nat
        BY <4>5, <4>7, FS_CardinalityType, BoundsAssumption
      <4> QED
        BY <4>5, <4>6, <4>7, <4>8, <4>9
    <3> QED
      BY <3>1, <3>2
  <2> HIDE DEF D, I
  <2>4. Cardinality(I) <= Cardinality(D) /\ Cardinality(I) \in Nat
    BY <2>1, <2>3, FS_Subset, FS_CardinalityType
  <2>5. Cardinality(D) \in Nat /\ DailyLimit \in Nat
    BY <2>3, FS_CardinalityType, BoundsAssumption
  <2>6. \A m, n, k \in Nat : m <= n /\ n <= k => m <= k
    OBVIOUS
  <2>7. Cardinality(I) <= DailyLimit
    BY <2>3, <2>4, <2>5, <2>6
  <2> QED
    BY <2>7 DEF I
<1> QED
  BY <1>1, TypeAlways, LeadAlways, CapAlways, PTL

-----------------------------------------------------------------------------
(* Browsers.                                                               *)

\* Who opens a browser, and whom a change of the semaphore to s lets open one.
Opening == {w \in Workers : At(w, "launch")}
Woke(s) == {w \in Workers : Woken(s, w)}

LEMMA WokeFacts ==
  ASSUME TypeInv, NEW s
  PROVE  /\ Woke(s) = ToSet(slots.waiting) \ ToSet(s.waiting)
         /\ \A v \in Woke(s) : At(v, "waiting")
         /\ IsFiniteSet(Woke(s)) /\ IsFiniteSet(Opening)
         /\ Cardinality(Woke(s)) \in Nat /\ Cardinality(Opening) \in Nat
<1>1. ToSet(slots.waiting) \subseteq Workers
  BY WaitersAreWorkers DEF TypeInv, SlotsFit
<1>2. Woke(s) = ToSet(slots.waiting) \ ToSet(s.waiting)
  BY <1>1 DEF Woke, Woken, ToSet
<1>3. \A v \in Woke(s) : At(v, "waiting")
  BY <1>2 DEF TypeInv, SlotsFit
<1>4. IsFiniteSet(Woke(s)) /\ IsFiniteSet(Opening)
  <2>1. Woke(s) \subseteq Workers /\ Opening \subseteq Workers /\ IsFiniteSet(Workers)
    BY BoundsAssumption DEF Woke, Opening
  <2> QED
    BY <2>1, FS_Subset
<1> QED
  BY <1>2, <1>3, <1>4, FS_CardinalityType

\* The workers of G leave; whoever is woken comes.
LEMMA OpeningStep ==
  ASSUME TypeInv, NEW s, NEW G \in SUBSET Workers, G \intersect Woke(s) = {},
         \A v \in G : worker'[v].pc # "launch",
         \A v \in Workers \ G : worker'[v].pc = IF Woken(s, v) THEN "launch" ELSE worker[v].pc
  PROVE  /\ Cardinality(Opening') = Cardinality(Opening \ G) + Cardinality(Woke(s))
         /\ Cardinality(Opening \ G) \in Nat
<1>1. Opening' = (Opening \ G) \union Woke(s)
  BY DEF Opening, Woke, At
<1>2. (Opening \ G) \intersect Woke(s) = {}
  BY WokeFacts DEF Opening, At
<1>3. IsFiniteSet(Opening \ G) /\ IsFiniteSet(Woke(s))
  BY WokeFacts, FS_Difference
<1>4. Cardinality((Opening \ G) \union Woke(s)) =
        Cardinality(Opening \ G) + Cardinality(Woke(s)) - Cardinality((Opening \ G) \intersect Woke(s))
  BY <1>3, FS_Union
<1>5. Cardinality((Opening \ G) \intersect Woke(s)) = 0
  BY <1>2, FS_EmptySet
<1>6. Cardinality(Opening \ G) \in Nat /\ Cardinality(Woke(s)) \in Nat
  BY <1>3, FS_CardinalityType
<1> QED
  BY <1>1, <1>4, <1>5, <1>6

\* A release frees the slot, or gives it to one waiter.
LEMMA ReleasedCount ==
  ASSUME TypeInv, slots.count > 0
  PROVE  Released.count = slots.count - 1 + Cardinality(Woke(Released))
<1>1. slots \in SlotType /\ slots.count \in Nat
  BY BoundsAssumption DEF TypeInv, SlotsFit, SlotType
<1>2. CASE slots.waiting # <<>> /\ slots.count - 1 < slots.max
  <2>1. Released = [slots EXCEPT !.count = slots.count - 1 + 1, !.waiting = Tail(@)]
    BY <1>2 DEF Released
  <2>2. Released.count = slots.count /\ Released.waiting = Tail(slots.waiting)
    BY <1>1, <2>1 DEF SlotType
  <2>3. Woke(Released) = {Head(slots.waiting)}
    BY <1>2, <2>2, WokeFacts, ReleaseShorter
  <2>4. Cardinality(Woke(Released)) = 1
    BY <2>3, FS_Singleton
  <2> QED
    BY <1>1, <2>2, <2>4
<1>3. CASE ~(slots.waiting # <<>> /\ slots.count - 1 < slots.max)
  <2>1. Released = [slots EXCEPT !.count = slots.count - 1]
    BY <1>3 DEF Released
  <2>2. Released.count = slots.count - 1 /\ Released.waiting = slots.waiting
    BY <1>1, <2>1 DEF SlotType
  <2>3. Woke(Released) = {}
    BY <2>2, WokeFacts
  <2>4. Cardinality(Woke(Released)) = 0
    BY <2>3, FS_EmptySet
  <2> QED
    BY <1>1, <2>2, <2>4
<1> QED
  BY <1>2, <1>3

\* A wider cap lets as many waiters in as it counts.
LEMMA GrantedCount ==
  ASSUME TypeInv, NEW n \in 1 .. MaxBrowsers
  PROVE  Granted(n).count = slots.count + Cardinality(Woke(Granted(n)))
<1> DEFINE q == slots.waiting
           g == Grants(n)
<1>1. q \in Seq(Workers) /\ Distinct(q) /\ Len(q) \in Nat
  BY LenProperties DEF TypeInv, SlotsFit, SlotType
<1>2. /\ g \in 0 .. Len(q)
      /\ ToSet(Granted(n).waiting) = {q[i] : i \in g + 1 .. Len(q)}
  BY GrantShorter
<1> HIDE DEF g
<1>3. Woke(Granted(n)) = {q[i] : i \in 1 .. g}
  <2>1. Woke(Granted(n)) = {q[i] : i \in 1 .. Len(q)} \ {q[i] : i \in g + 1 .. Len(q)}
    BY <1>1, <1>2, WokeFacts, ToSetIndices
  <2>2. ASSUME NEW i \in 1 .. g, NEW j \in g + 1 .. Len(q) PROVE q[i] # q[j]
    <3>1. i \in 1 .. Len(q) /\ j \in 1 .. Len(q) /\ i # j
      BY <1>1, <1>2
    <3> QED
      BY <1>1, <3>1 DEF Distinct
  <2>3. ASSUME NEW i \in 1 .. Len(q) PROVE i \in 1 .. g \/ i \in g + 1 .. Len(q)
    BY <1>1, <1>2
  <2>4. ASSUME NEW v \in Woke(Granted(n)) PROVE v \in {q[i] : i \in 1 .. g}
    BY <2>1, <2>3
  <2>5. ASSUME NEW i \in 1 .. g PROVE q[i] \in Woke(Granted(n))
    <3>1. i \in 1 .. Len(q)
      BY <1>1, <1>2
    <3> QED
      BY <2>1, <2>2, <3>1
  <2> QED
    BY <2>4, <2>5
<1>4. Cardinality({q[i] : i \in 1 .. g}) = g
  <2> DEFINE f == [i \in 1 .. g |-> q[i]]
             S == {q[i] : i \in 1 .. g}
  <2>1. \A i, j \in 1 .. g : q[i] = q[j] => i = j
    <3>1. \A i \in 1 .. g : i \in 1 .. Len(q)
      BY <1>1, <1>2
    <3> QED
      BY <1>1, <3>1 DEF Distinct
  <2>2. f \in Bijection(1 .. g, S)
    BY <2>1 DEF Bijection, Injection, Surjection, IsInjective
  <2>3. ExistsBijection(1 .. g, S)
    BY <2>2 DEF ExistsBijection
  <2> QED
    BY <1>2, <2>3, FS_CountingElements
<1>5. Granted(n).count = slots.count + g
  BY DEF Granted, g
<1> QED
  BY <1>3, <1>4, <1>5

\* Whose browser is open is in a turn, and who drives it.
Driving   == {"paused", "turn", "send", "record", "stamp", "close"}
Drives(a) == \E w \in Workers : worker[w].account = a /\ worker[w].pc \in Driving
DrivenInv == IsFiniteSet(sessions) /\ \A a \in sessions : Drives(a)

LEMMA DriverKept ==
  ASSUME TypeInv, NEW v \in Workers, GoesOn(v), worker[v].pc \in Driving
  PROVE  worker'[v] = worker[v]
  BY DEF GoesOn, At, Driving

\* Browsers close one at a time, and who drives goes on.
LEMMA DrivenKept ==
  ASSUME TypeInv, DrivenInv, NEW w \in Workers, Others(w),
         sessions' \subseteq sessions,
         \/ worker[w].pc \notin Driving \/ worker[w].account \notin sessions'
         \/ worker'[w].account = worker[w].account /\ worker'[w].pc \in Driving
  PROVE  DrivenInv'
<1>1. IsFiniteSet(sessions')
  BY FS_Subset DEF DrivenInv
<1>2. ASSUME NEW a \in sessions'
      PROVE  \E v \in Workers : worker'[v].account = a /\ worker'[v].pc \in Driving
  <2>1. PICK v \in Workers : worker[v].account = a /\ worker[v].pc \in Driving
    BY DEF DrivenInv, Drives
  <2>2. CASE v = w
    BY <2>1, <2>2
  <2>3. CASE v # w
    BY <2>1, <2>3, DriverKept DEF Others
  <2> QED
    BY <2>2, <2>3
<1> QED
  BY <1>1, <1>2 DEF DrivenInv, Drives

LEMMA NoRunNoBrowser ==
  ASSUME TypeInv, DrivenInv, ~run.on
  PROVE  sessions = {} /\ Opening = {}
<1>1. \A w \in Workers : At(w, "off")
  BY DEF TypeInv, RunFit
<1> QED
  BY <1>1 DEF DrivenInv, Drives, Driving, Opening, At

\* What the count is made of.
LEMMA BrowserFacts ==
  ASSUME TypeInv, DrivenInv, SlotsMatch, ~Borrowed
  PROVE  /\ worker \in [Workers -> WorkerType]
         /\ \A v \in Workers : Fit(worker[v]) /\ worker[v] \in WorkerType
         /\ slots \in SlotType /\ slots.count \in Nat
         /\ IsFiniteSet(sessions) /\ Cardinality(sessions) \in Nat
         /\ IsFiniteSet(Opening) /\ Cardinality(Opening) \in Nat
         /\ slots.count = Cardinality(sessions) + Cardinality(Opening) + (IF borrower THEN 1 ELSE 0)
<1>1. worker \in [Workers -> WorkerType] /\ \A v \in Workers : Fit(worker[v])
  BY DEF TypeInv, WorkersFit
<1>2. slots \in SlotType
  BY DEF TypeInv, SlotsFit
<1>3. slots.count \in Nat
  BY <1>2, BoundsAssumption DEF SlotType
<1>4. IsFiniteSet(sessions) /\ Cardinality(sessions) \in Nat
  BY FS_CardinalityType DEF DrivenInv
<1>5. IsFiniteSet(Opening) /\ Cardinality(Opening) \in Nat
  BY WokeFacts
<1>6. slots.count = Cardinality(sessions) + Cardinality(Opening) + (IF borrower THEN 1 ELSE 0)
  BY DEF SlotsMatch, Opening
<1> QED
  BY <1>1, <1>2, <1>3, <1>4, <1>5, <1>6

\* A turn that ends: it gives its browser back, if it had one or was to open one.
LEMMA TurnEndBrowser ==
  ASSUME TypeInv, DrivenInv, SlotsMatch, ~Borrowed, NEW w \in Workers, TurnEnds(w)
  PROVE  /\ DrivenInv'
         /\ slots'.count = Cardinality(sessions') + Cardinality(Opening')
                           + (IF borrower THEN 1 ELSE 0)
<1>0. /\ worker \in [Workers -> WorkerType] /\ \A v \in Workers : Fit(worker[v])
      /\ slots \in SlotType /\ slots.count \in Nat
      /\ IsFiniteSet(sessions) /\ Cardinality(sessions) \in Nat
      /\ slots.count = Cardinality(sessions) + Cardinality(Opening) + (IF borrower THEN 1 ELSE 0)
      /\ IsFiniteSet(Opening) /\ Cardinality(Opening) \in Nat
  BY BrowserFacts
<1>1. worker'[w] = AtRest /\ Others(w)
  BY TurnEndStep
<1>r. AtRest.pc = "idle" /\ AtRest.account = NoAccount
  BY DEF AtRest, Resting
<1>w. ASSUME NEW s, worker' = [WakeUp(s, worker) EXCEPT ![w] = AtRest], w \notin Woke(s)
      PROVE  /\ Cardinality(Opening') = Cardinality(Opening \ {w}) + Cardinality(Woke(s))
             /\ Cardinality(Opening \ {w}) =
                  IF At(w, "launch") THEN Cardinality(Opening) - 1 ELSE Cardinality(Opening)
  <2>1. \A v \in Workers \ {w} : worker'[v] = IF Woken(s, v) THEN [worker[v] EXCEPT !.pc = "launch"]
                                              ELSE worker[v]
    BY <1>w DEF WakeUp
  <2>2. \A v \in Workers : worker[v] \in WorkerType
    BY <1>0
  <2>3. \A v \in Workers \ {w} : worker'[v].pc = IF Woken(s, v) THEN "launch" ELSE worker[v].pc
    BY <2>1, <2>2 DEF WorkerType
  <2>4. {w} \in SUBSET Workers /\ {w} \intersect Woke(s) = {} /\ \A v \in {w} : worker'[v].pc # "launch"
    BY <1>w, <1>1, <1>r
  <2>5. Cardinality(Opening') = Cardinality(Opening \ {w}) + Cardinality(Woke(s))
    BY <2>3, <2>4, OpeningStep
  <2> QED
    BY <1>0, <2>5, FS_RemoveElement DEF Opening
<1>n. \A s : ~At(w, "waiting") => w \notin Woke(s)
  BY WokeFacts
<1>2. CASE Restricted(w) \/ GiveUp(w)
  <2>1. /\ sessions' = sessions /\ slots'.count = slots.count
        /\ worker' = [worker EXCEPT ![w] = AtRest]
        /\ worker[w].pc \in {"acquire", "waiting"}
    BY <1>0, <1>2 DEF Restricted, GiveUp, EndTurn, AtRest, At, SlotType
  <2>2. Opening' = Opening
    BY <1>0, <1>r, <2>1 DEF Opening, At
  <2>3. DrivenInv'
    BY <1>1, <2>1, DrivenKept DEF Driving
  <2> QED
    BY <1>0, <2>1, <2>2, <2>3
<1>3. CASE NotLaunched(w)
  <2>1. /\ sessions' = sessions /\ slots' = Released /\ At(w, "launch")
        /\ worker' = [WakeUp(Released, worker) EXCEPT ![w] = AtRest]
    BY <1>3 DEF NotLaunched, LaunchFails, EndTurn, AtRest
  <2>2. Cardinality(Opening') = Cardinality(Opening) - 1 + Cardinality(Woke(Released))
    BY <1>w, <1>n, <2>1 DEF At
  <2>3. slots.count > 0
    <3>1. Opening # {}
      BY <2>1 DEF Opening
    <3>2. Cardinality(Opening) # 0
      BY <1>0, <3>1, FS_EmptySet
    <3> QED
      BY <1>0, <3>2
  <2>4. slots'.count = slots.count - 1 + Cardinality(Woke(Released))
    BY <2>1, <2>3, ReleasedCount
  <2>5. DrivenInv'
    BY <1>1, <2>1, DrivenKept DEF Driving, At
  <2>6. Cardinality(Woke(Released)) \in Nat
    BY WokeFacts
  <2> QED
    BY <1>0, <2>1, <2>2, <2>4, <2>5, <2>6
<1>4. CASE Close(w)
  <2> DEFINE a == worker[w].account
  <2>1. /\ At(w, "close") /\ sessions' = sessions \ {a}
        /\ slots' = IF a \in sessions THEN Released ELSE slots
    BY <1>4 DEF Close, CloseSession
  <2>s. PICK s : s = slots'
    OBVIOUS
  <2>2. worker' = [WakeUp(s, worker) EXCEPT ![w] = AtRest]
    BY <1>4, <2>s DEF Close, EndTurn, AtRest
  <2>3. Cardinality(Opening') = Cardinality(Opening) + Cardinality(Woke(s))
    BY <1>w, <1>n, <2>1, <2>2 DEF At
  <2>4. DrivenInv'
    BY <1>1, <2>1, DrivenKept
  <2>5. CASE a \in sessions
    <3>1. Cardinality(sessions') = Cardinality(sessions) - 1
      BY <1>0, <2>1, <2>5, FS_RemoveElement
    <3>2. slots.count > 0
      <4>1. Cardinality(sessions) # 0
        BY <1>0, <2>5, FS_EmptySet
      <4> QED
        BY <1>0, <4>1
    <3>3. s = Released /\ s.count = slots.count - 1 + Cardinality(Woke(s))
      BY <2>1, <2>5, <2>s, <3>2, ReleasedCount
    <3>4. Cardinality(Woke(s)) \in Nat
      BY WokeFacts
    <3> QED
      BY <1>0, <2>3, <2>4, <2>s, <3>1, <3>3, <3>4
  <2>6. CASE a \notin sessions
    <3>1. sessions' = sessions /\ s = slots
      BY <2>1, <2>6, <2>s
    <3>2. Cardinality(Woke(s)) = 0
      BY <3>1, WokeFacts, FS_EmptySet
    <3> QED
      BY <1>0, <2>3, <2>4, <2>s, <3>1, <3>2
  <2> QED
    BY <2>5, <2>6
<1> QED
  BY <1>2, <1>3, <1>4 DEF TurnEnds

\* A dead page takes its browser along.
LEMMA WedgedBrowser ==
  ASSUME TypeInv, DrivenInv, SlotsMatch, ~Borrowed, NEW w \in Workers, PageWedged(w)
  PROVE  /\ DrivenInv'
         /\ slots'.count = Cardinality(sessions') + Cardinality(Opening')
                           + (IF borrower THEN 1 ELSE 0)
<1> DEFINE a == worker[w].account
<1>0. /\ worker \in [Workers -> WorkerType] /\ \A v \in Workers : worker[v] \in WorkerType
      /\ slots \in SlotType /\ slots.count \in Nat
      /\ IsFiniteSet(sessions) /\ Cardinality(sessions) \in Nat
      /\ slots.count = Cardinality(sessions) + Cardinality(Opening) + (IF borrower THEN 1 ELSE 0)
      /\ Cardinality(Opening) \in Nat
  BY BrowserFacts
<1>1. /\ Others(w) /\ worker'[w] = [worker[w] EXCEPT !.pc = "close", !.lead = NoLead]
      /\ slots' = IF a \in sessions THEN Released ELSE slots
  BY PageWedgedStep
<1>2. At(w, "send") /\ sessions' = sessions \ {a}
  BY DEF PageWedged, CloseSession
<1>s. PICK s : s = slots'
  OBVIOUS
<1>3. /\ worker' = WakeUp(s, [worker EXCEPT ![w] = [worker[w] EXCEPT !.pc = "close", !.lead = NoLead]])
      /\ worker'[w].pc = "close"
  BY <1>0, <1>1, <1>s DEF PageWedged, WorkerType
<1>4. Cardinality(Opening') = Cardinality(Opening) + Cardinality(Woke(s))
  <2>1. \A v \in Workers \ {w} : worker'[v] = IF Woken(s, v) THEN [worker[v] EXCEPT !.pc = "launch"]
                                              ELSE worker[v]
    BY <1>0, <1>3 DEF WakeUp
  <2>2. \A v \in Workers \ {w} : worker'[v].pc = IF Woken(s, v) THEN "launch" ELSE worker[v].pc
    BY <1>0, <2>1 DEF WorkerType
  <2>3. w \notin Woke(s)
    BY <1>2, WokeFacts DEF At
  <2>4. {w} \in SUBSET Workers /\ {w} \intersect Woke(s) = {} /\ \A v \in {w} : worker'[v].pc # "launch"
    BY <1>3, <2>3
  <2>5. Cardinality(Opening') = Cardinality(Opening \ {w}) + Cardinality(Woke(s))
    BY <2>2, <2>4, OpeningStep
  <2>6. Opening \ {w} = Opening
    BY <1>2 DEF Opening, At
  <2> QED
    BY <2>5, <2>6
<1>5. DrivenInv'
  BY <1>1, <1>2, DrivenKept
<1>6. CASE a \in sessions
  <2>1. Cardinality(sessions') = Cardinality(sessions) - 1
    BY <1>0, <1>2, <1>6, FS_RemoveElement
  <2>2. Cardinality(sessions) # 0
    BY <1>0, <1>6, FS_EmptySet
  <2>3. s = Released /\ s.count = slots.count - 1 + Cardinality(Woke(s))
    BY <1>0, <1>1, <1>6, <1>s, <2>2, ReleasedCount
  <2>4. Cardinality(Woke(s)) \in Nat
    BY WokeFacts
  <2> QED
    BY <1>0, <1>4, <1>5, <1>s, <2>1, <2>3, <2>4
<1>7. CASE a \notin sessions
  <2>1. sessions' = sessions /\ s = slots
    BY <1>1, <1>2, <1>7, <1>s
  <2>2. Cardinality(Woke(s)) = 0
    BY <2>1, WokeFacts, FS_EmptySet
  <2> QED
    BY <1>0, <1>4, <1>5, <1>s, <2>1, <2>2
<1> QED
  BY <1>6, <1>7

\* The runner's browser given back, and another cap.
LEMMA WakeOnlyBrowser ==
  ASSUME TypeInv, DrivenInv, SlotsMatch, ~Borrowed,
         GiveBack \/ \E w \in Workers : \E n \in 1 .. MaxBrowsers : SetMax(w, n)
  PROVE  /\ DrivenInv'
         /\ slots'.count = Cardinality(sessions') + Cardinality(Opening')
                           + (IF borrower' THEN 1 ELSE 0)
<1>0. /\ worker \in [Workers -> WorkerType] /\ \A v \in Workers : worker[v] \in WorkerType
      /\ slots \in SlotType /\ slots.count \in Nat
      /\ IsFiniteSet(sessions) /\ Cardinality(sessions) \in Nat
      /\ slots.count = Cardinality(sessions) + Cardinality(Opening) + (IF borrower THEN 1 ELSE 0)
      /\ Cardinality(Opening) \in Nat
  BY BrowserFacts
<1>1. sessions' = sessions
  BY DEF GiveBack, SetMax
<1>2. DrivenInv'
  <2>1. \A v \in Workers : GoesOn(v)
    BY WakeOnlyStep
  <2>2. ASSUME NEW a \in sessions
        PROVE  \E v \in Workers : worker'[v].account = a /\ worker'[v].pc \in Driving
    BY <2>1, DriverKept DEF DrivenInv, Drives
  <2> QED
    BY <1>1, <2>2 DEF DrivenInv, Drives
<1>w. ASSUME NEW s, worker' = WakeUp(s, worker)
      PROVE  Cardinality(Opening') = Cardinality(Opening) + Cardinality(Woke(s))
  <2>1. \A v \in Workers : worker'[v].pc = IF Woken(s, v) THEN "launch" ELSE worker[v].pc
    BY <1>0, <1>w DEF WakeUp, WorkerType
  <2>2. Cardinality(Opening') = Cardinality(Opening \ {}) + Cardinality(Woke(s))
    BY <2>1, OpeningStep
  <2>3. Opening \ {} = Opening
    OBVIOUS
  <2> QED
    BY <2>2, <2>3
<1>3. CASE GiveBack
  <2>1. borrower /\ ~borrower' /\ slots' = Released /\ worker' = WakeUp(Released, worker)
    BY <1>3 DEF GiveBack
  <2>2. slots.count > 0
    BY <1>0, <2>1
  <2>3. slots'.count = slots.count - 1 + Cardinality(Woke(Released))
    BY <2>1, <2>2, ReleasedCount
  <2>4. Cardinality(Opening') = Cardinality(Opening) + Cardinality(Woke(Released))
    BY <1>w, <2>1
  <2>5. Cardinality(Woke(Released)) \in Nat
    BY WokeFacts
  <2> QED
    BY <1>0, <1>1, <1>2, <2>1, <2>3, <2>4, <2>5
<1>4. ASSUME NEW w \in Workers, NEW n \in 1 .. MaxBrowsers, SetMax(w, n)
      PROVE  slots'.count = Cardinality(sessions') + Cardinality(Opening')
                            + (IF borrower' THEN 1 ELSE 0)
  <2>1. slots' = Granted(n) /\ worker' = WakeUp(Granted(n), worker)
    BY <1>4, SetMaxStep
  <2>2. borrower' = borrower
    BY <1>4 DEF SetMax
  <2>3. slots'.count = slots.count + Cardinality(Woke(Granted(n)))
    BY <2>1, GrantedCount
  <2>4. Cardinality(Opening') = Cardinality(Opening) + Cardinality(Woke(Granted(n)))
    BY <1>w, <2>1
  <2>5. Cardinality(Woke(Granted(n))) \in Nat
    BY WokeFacts
  <2> QED
    BY <1>0, <1>1, <2>2, <2>3, <2>4, <2>5
<1> QED
  BY <1>2, <1>3, <1>4

\* The steps of a worker other than to ask for a slot and to open a browser.
GoesBy(w) == OwnSteps(w) /\ ~Acquire(w) /\ ~Launch(w)

LEMMA GoesByPc ==
  ASSUME TypeInv, NEW w \in Workers, GoesBy(w)
  PROVE  /\ worker[w].pc # "launch" /\ worker'[w].pc # "launch"
         /\ \/ worker[w].pc \notin Driving
            \/ worker[w].account = NoAccount
            \/ worker'[w].account = worker[w].account /\ worker'[w].pc \in Driving
         /\ UNCHANGED <<sessions, slots, borrower>>
<1>0. worker \in [Workers -> WorkerType] /\ worker[w] \in WorkerType
  BY DEF TypeInv, WorkersFit
<1>p. \A a \in Accounts : PickNextProfile(w, a) => At(w, "idle") /\ worker'[w].pc = "acquire"
  BY <1>0 DEF PickNextProfile, Resting
<1>1. UNCHANGED <<sessions, slots, borrower>>
  BY DEF GoesBy, OwnSteps, WorkerExit, Pausing, Unpausing, PickNextProfile, TakeLead, LeadsExhausted,
     TurnOver, Invite, Unconfirmed, Transient, Watchdog, Refused, Record, Stamp, StampFails, Stamps, Preempt
<1>2. CASE WorkerExit(w) \/ \E a \in Accounts : PickNextProfile(w, a)
  <2>1. CASE WorkerExit(w)
    BY <1>0, <1>1, <2>1 DEF WorkerExit, At, Resting, Driving
  <2> QED
    BY <1>1, <1>2, <1>p, <2>1 DEF At, Driving
<1>3. CASE Pausing(w) \/ Unpausing(w)
  <2>1. CASE Pausing(w)
    BY <1>0, <1>1, <2>1 DEF Pausing, Driving, WorkerType
  <2>2. CASE Unpausing(w)
    <3>1. worker'[w] = [worker[w] EXCEPT !.pc = IF worker[w].account = NoAccount THEN "idle" ELSE "turn"]
      BY <1>0, <2>2 DEF Unpausing
    <3> QED
      BY <1>0, <1>1, <2>2, <3>1 DEF Unpausing, At, Driving, WorkerType
  <2> QED
    BY <1>3, <2>1, <2>2
<1>4. CASE \/ \E l \in Leads : TakeLead(w, l)
           \/ LeadsExhausted(w) \/ TurnOver(w) \/ Invite(w) \/ Unconfirmed(w) \/ Transient(w) \/ Watchdog(w)
           \/ \E result \in Results \ {"sent"} : Refused(w, result)
           \/ Record(w) \/ Stamp(w) \/ StampFails(w) \/ Preempt(w)
  <2>1. worker[w].pc \in {"turn", "send", "record", "stamp"}
    BY <1>4 DEF TakeLead, LeadsExhausted, TurnOver, Invite, Unconfirmed, Transient, Watchdog, Refused, Record,
       Stamp, StampFails, Stamps, Preempt, At
  <2>2. CASE (\E l \in Leads : TakeLead(w, l)) \/ LeadsExhausted(w) \/ TurnOver(w)
    <3>1. ASSUME NEW l \in Leads, TakeLead(w, l)
          PROVE  worker'[w].pc = "send" /\ worker'[w].account = worker[w].account
      BY <1>0, <3>1 DEF TakeLead, WorkerType
    <3>2. ASSUME LeadsExhausted(w) \/ TurnOver(w)
          PROVE  worker'[w].pc = "close" /\ worker'[w].account = worker[w].account
      BY <1>0, <3>2 DEF LeadsExhausted, TurnOver, WorkerType
    <3> QED
      BY <1>1, <2>1, <2>2, <3>1, <3>2 DEF Driving
  <2>3. CASE Record(w) \/ Stamp(w) \/ StampFails(w) \/ Preempt(w)
    BY <1>0, <1>1, <2>1, <2>3 DEF Record, Stamp, StampFails, Stamps, Preempt, WorkerType, Driving
  <2>4. CASE \/ Invite(w) \/ Unconfirmed(w) \/ Transient(w) \/ Watchdog(w)
             \/ \E result \in Results \ {"sent"} : Refused(w, result)
    <3>1. At(w, "send")
      BY <2>4 DEF Invite, Unconfirmed, Transient, Watchdog, Refused
    <3>2. \/ \E r \in Results : Result(w, r)
          \/ worker' = [worker EXCEPT ![w].tries = @ + 1]
      BY <2>4 DEF Invite, Unconfirmed, Transient, Watchdog, Refused, RetryOrSkip, Results, Outcomes
    <3> QED
      BY <1>0, <1>1, <3>1, <3>2 DEF Result, WorkerType, Driving, At
  <2> QED
    BY <1>4, <2>2, <2>3, <2>4
<1> QED
  BY <1>2, <1>3, <1>4 DEF GoesBy, OwnSteps

\* A worker's own step: a slot it takes is a browser it opens, and then has open.
LEMMA OwnBrowser ==
  ASSUME TypeInv, AcctInv, DrivenInv, SlotsMatch, ~Borrowed, NEW w \in Workers, OwnSteps(w)
  PROVE  /\ DrivenInv'
         /\ slots'.count = Cardinality(sessions') + Cardinality(Opening')
                           + (IF borrower THEN 1 ELSE 0)
<1>0. /\ worker \in [Workers -> WorkerType] /\ \A v \in Workers : worker[v] \in WorkerType
      /\ slots \in SlotType /\ slots.count \in Nat
      /\ IsFiniteSet(sessions) /\ Cardinality(sessions) \in Nat
      /\ slots.count = Cardinality(sessions) + Cardinality(Opening) + (IF borrower THEN 1 ELSE 0)
      /\ IsFiniteSet(Opening) /\ Cardinality(Opening) \in Nat
  BY BrowserFacts
<1>1. \A v \in Workers \ {w} : worker'[v] = worker[v]
  BY OwnStep
<1>o. Others(w)
  BY <1>1 DEF Others, GoesOn
<1>2. CASE GoesBy(w)
  <2>1. sessions' = sessions /\ slots' = slots /\ Opening' = Opening
    BY <1>1, <1>2, GoesByPc DEF Opening, At
  <2>2. NoAccount \notin sessions'
    BY <2>1, BoundsAssumption DEF TypeInv, TypeOK
  <2>3. DrivenInv'
    BY <1>2, <1>o, <2>1, <2>2, GoesByPc, DrivenKept
  <2> QED
    BY <1>0, <2>1, <2>3
<1>3. CASE Acquire(w)
  <2>1. At(w, "acquire") /\ sessions' = sessions
    BY <1>3 DEF Acquire
  <2>2. DrivenInv'
    BY <1>o, <2>1, DrivenKept DEF Driving, At
  <2>3. CASE slots.count < slots.max
    <3>1. slots'.count = slots.count + 1 /\ worker'[w].pc = "launch"
      BY <1>0, <1>3, <2>3 DEF Acquire, SlotType, WorkerType
    <3>2. Opening' = Opening \union {w} /\ w \notin Opening
      BY <1>1, <2>1, <3>1 DEF Opening, At
    <3>3. Cardinality(Opening') = Cardinality(Opening) + 1
      BY <1>0, <3>2, FS_AddElement
    <3> QED
      BY <1>0, <2>1, <2>2, <3>1, <3>3
  <2>4. CASE ~(slots.count < slots.max)
    <3>1. slots'.count = slots.count /\ worker'[w].pc = "waiting"
      BY <1>0, <1>3, <2>4 DEF Acquire, SlotType, WorkerType
    <3>2. Opening' = Opening
      BY <1>1, <2>1, <3>1 DEF Opening, At
    <3> QED
      BY <1>0, <2>1, <2>2, <3>1, <3>2
  <2> QED
    BY <2>3, <2>4
<1>4. CASE Launch(w)
  <2> DEFINE a == worker[w].account
  <2>1. /\ At(w, "launch") /\ sessions' = sessions \union {a} /\ slots' = slots
        /\ worker'[w].pc = "turn" /\ worker'[w].account = a
    BY <1>0, <1>4 DEF Launch, WorkerType
  <2>2. a \notin sessions
    <3> SUFFICES ASSUME a \in sessions PROVE FALSE
      OBVIOUS
    <3>1. PICK v \in Workers : worker[v].account = a /\ worker[v].pc \in Driving
      BY DEF DrivenInv, Drives
    <3>2. a # NoAccount
      BY BoundsAssumption DEF TypeInv, TypeOK
    <3>3. v = w
      BY <3>1, <3>2 DEF AcctInv
    <3> QED
      BY <2>1, <3>1, <3>3 DEF Driving, At
  <2>3. Cardinality(sessions') = Cardinality(sessions) + 1 /\ IsFiniteSet(sessions')
    BY <1>0, <2>1, <2>2, FS_AddElement
  <2>4. Opening' = Opening \ {w} /\ w \in Opening
    BY <1>1, <2>1 DEF Opening, At
  <2>5. Cardinality(Opening') = Cardinality(Opening) - 1
    BY <1>0, <2>4, FS_RemoveElement
  <2>6. DrivenInv'
    <3>1. ASSUME NEW b \in sessions'
          PROVE  \E v \in Workers : worker'[v].account = b /\ worker'[v].pc \in Driving
      <4>1. CASE b = a
        BY <2>1, <4>1 DEF Driving
      <4>2. CASE b \in sessions
        <5>1. PICK v \in Workers : worker[v].account = b /\ worker[v].pc \in Driving
          BY <4>2 DEF DrivenInv, Drives
        <5>2. v # w
          BY <2>1, <5>1 DEF Driving, At
        <5> QED
          BY <1>1, <5>1, <5>2
      <4> QED
        BY <2>1, <4>1, <4>2
    <3> QED
      BY <2>3, <3>1 DEF DrivenInv, Drives
  <2> QED
    BY <1>0, <2>1, <2>3, <2>5, <2>6
<1> QED
  BY <1>2, <1>3, <1>4 DEF GoesBy

SlotInv == DrivenInv /\ SlotsMatch

\* The slots and the browsers when nobody gives a slot back or takes one as a worker.
LEMMA AsideBrowser ==
  ASSUME TypeInv, DrivenInv, StartCampaign \/ Crash \/ Aside
  PROVE  DrivenInv' /\ (SlotsMatch => SlotsMatch')
<1>0. /\ slots \in SlotType /\ IsFiniteSet(sessions) /\ Cardinality(sessions) \in Nat
      /\ Cardinality(Opening) \in Nat
  BY WokeFacts, FS_CardinalityType DEF TypeInv, SlotsFit, DrivenInv
<1>f. ASSUME sessions' = {}, \A w \in Workers : worker'[w] \in {AtRest, Resting},
             slots' = FreeSlots, ~borrower' \/ Borrowed
      PROVE  DrivenInv' /\ SlotsMatch'
  <2>1. {w \in Workers : worker'[w].pc = "launch"} = {}
    BY <1>f DEF AtRest, Resting
  <2>2. IsFiniteSet({}) /\ Cardinality({}) = 0
    BY FS_EmptySet
  <2>3. DrivenInv'
    BY <1>f, <2>2 DEF DrivenInv
  <2>4. slots'.count = 0 /\ Cardinality(sessions') = 0
        /\ Cardinality({w \in Workers : worker'[w].pc = "launch"}) = 0
    BY <1>f, <2>1, <2>2 DEF FreeSlots
  <2>5. SlotsMatch'
    BY <1>f, <2>4 DEF SlotsMatch, At
  <2> QED
    BY <2>3, <2>5
<1>1. CASE StartCampaign
  <2>1. ~run.on /\ sessions' = sessions /\ slots' = FreeSlots /\ (borrower' => Borrowed)
    BY <1>1 DEF StartCampaign
  <2> QED
    BY <1>1, <1>f, <2>1, NoRunNoBrowser, FreshStep
<1>2. CASE Crash
  BY <1>2, <1>f, FreshStep DEF Crash
<1>3. CASE Aside
  <2>1. worker' = worker
    BY <1>3, AsideStep
  <2>2. sessions' = sessions
    BY <1>3 DEF Aside, Finish, AdriftLands, Flush, FlushUnconfirmed, Stop, Pause, Resume,
       Bench, Unbench, RetryParked, Borrow, vars
  <2>3. DrivenInv'
    BY <2>1, <2>2 DEF DrivenInv, Drives
  <2>4. CASE Borrow
    BY <1>0, <2>1, <2>2, <2>3, <2>4 DEF Borrow, SlotsMatch, SlotType, At, Opening
  <2>5. CASE ~Borrow
    <3>1. UNCHANGED <<slots, borrower>>
      BY <1>3, <2>5 DEF Aside, Finish, AdriftLands, Flush, FlushUnconfirmed, Stop, Pause,
         Resume, Bench, Unbench, RetryParked, vars
    <3> QED
      BY <2>1, <2>2, <2>3, <3>1 DEF SlotsMatch, At
  <2> QED
    BY <2>4, <2>5
<1> QED
  BY <1>1, <1>2, <1>3

\* Where a start may forget the runner's browser nothing is claimed.
LEMMA SlotNext == TypeInv /\ AcctInv /\ SlotInv /\ ~Borrowed /\ [Next]_vars => SlotInv'
<1> SUFFICES ASSUME TypeInv, AcctInv, SlotInv, ~Borrowed, [Next]_vars PROVE SlotInv'
  OBVIOUS
<1>0. DrivenInv /\ SlotsMatch
  BY DEF SlotInv
<1>m. SlotsMatch' <=> slots'.count = Cardinality(sessions') + Cardinality(Opening')
                                     + (IF borrower' THEN 1 ELSE 0)
  BY DEF SlotsMatch, Opening
<1>1. ASSUME NEW w \in Workers, TurnEnds(w) \/ OwnSteps(w) \/ PageWedged(w) PROVE SlotInv'
  <2>1. borrower' = borrower
    BY <1>1 DEF TurnEnds, Restricted, GiveUp, NotLaunched, LaunchFails, Close, OwnSteps, WorkerExit,
       Pausing, Unpausing, Acquire, Launch, PickNextProfile, TakeLead, LeadsExhausted, TurnOver,
       Invite, Unconfirmed, Transient, Watchdog, Refused, Record, Stamp, StampFails, Stamps, Preempt, PageWedged
  <2> QED
    BY <1>0, <1>1, <1>m, <2>1, TurnEndBrowser, OwnBrowser, WedgedBrowser DEF SlotInv
<1>2. CASE GiveBack \/ \E w \in Workers : \E n \in 1 .. MaxBrowsers : SetMax(w, n)
  BY <1>0, <1>2, <1>m, WakeOnlyBrowser DEF SlotInv
<1>3. CASE StartCampaign \/ Crash \/ Aside
  BY <1>0, <1>3, AsideBrowser DEF SlotInv
<1> QED
  BY <1>1, <1>2, <1>3, StepKinds

\* The semaphore counts the browsers that are open or being opened, over every end of a
\* turn, dead page, wait given up and change of the limit (acquire, release and setMax of
\* browser-semaphore.js, and closeSession).
THEOREM SlotsCounted == Spec => []SlotsMatch
<1>1. Init => SlotInv
  <2> SUFFICES ASSUME Init PROVE SlotInv
    OBVIOUS
  <2>1. sessions = {} /\ Opening = {} /\ slots.count = 0 /\ ~borrower
    BY DEF Init, Resting, FreeSlots, Opening, At
  <2>2. IsFiniteSet({}) /\ Cardinality({}) = 0
    BY FS_EmptySet
  <2> QED
    BY <2>1, <2>2 DEF SlotInv, DrivenInv, SlotsMatch, Opening
<1>2. CASE Borrowed
  <2>1. SlotsMatch
    BY <1>2 DEF SlotsMatch
  <2> QED
    BY <2>1, PTL
<1>3. CASE ~Borrowed
  <2>1. TypeInv /\ CapInv /\ SlotInv /\ [Next]_vars => SlotInv'
    BY <1>3, SlotNext DEF CapInv
  <2>2. SlotInv => SlotsMatch
    BY DEF SlotInv
  <2> QED
    BY <1>1, <2>1, <2>2, TypeAlways, CapAlways, PTL DEF Spec
<1> QED
  BY <1>2, <1>3

=============================================================================
