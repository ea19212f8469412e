-------------------------- MODULE Acceptance_proofs --------------------------
(***************************************************************************)
(* Proofs about Acceptance, for any rows, persons, URLs and accounts and   *)
(* any number of mishaps and posted checks.                                *)
(*                                                                         *)
(* What the loop over the rows queues is worked out first (QueueLoop, by   *)
(* induction over the rows, and QueueGreedy), and what a matching decides  *)
(* and an update leaves in a row (DecidedKinds, WrittenRow).  SentInv      *)
(* counts the introductions of open and of closed rows and of those a      *)
(* sweep still believes open; ConnInv follows who knows whom from the      *)
(* reads through the matching, its updates and what cuts them short, to    *)
(* the message.  A sweep works on URLs, so both speak of all rows of a URL *)
(* at once.                                                                *)
(***************************************************************************)
EXTENDS Acceptance, SeqLemmas

-----------------------------------------------------------------------------
(* The queue of a sweep.                                                   *)

\* A non-empty set of rows has a last one.
LEMMA LastRow ==
  ASSUME NEW T, T \subseteq Rows, T # {}
  PROVE  Max(T) \in T /\ \A r \in T : r <= Max(T)
<1> DEFINE U == {N - r : r \in T}
<1>1. U \subseteq Nat /\ U # {}
  <2>1. ASSUME NEW r \in T PROVE N - r \in Nat
    BY RowsAssumption DEF Rows
  <2>2. PICK r : r \in T
    OBVIOUS
  <2>3. N - r \in U
    BY <2>2
  <2> QED BY <2>1, <2>3
<1> HIDE DEF U
<1>2. PICK m \in U : \A u \in U : m <= u
  BY <1>1, LeastNat
<1>3. PICK last \in T : m = N - last
  BY DEF U
<1>4. ASSUME NEW r \in T PROVE last >= r
  <2>1. m <= N - r
    BY <1>2 DEF U
  <2> QED BY <2>1, <1>3, RowsAssumption DEF Rows
<1>5. Max(T) \in T /\ \A r \in T : Max(T) >= r
  BY <1>4 DEF Max
<1> QED
  BY <1>5, RowsAssumption DEF Rows

\* What the loop has queued when it comes to a row: Q, and the identities that rules out.
Taken(Q) == TerminalKeys \union UNION {KeysOf[r] : r \in Q}
Takes(a, Q, n) == IF MayIntroduce(n, a) /\ KeysOf[n] \cap Taken(Q) = {} THEN Q \union {n} ELSE Q

\* The loop is well defined, and does at each row what it says.
LEMMA QueueLoop ==
  ASSUME NEW a
  PROVE  \E q \in [0 .. N -> SUBSET Rows] :
            /\ q[0] = {} /\ \A n \in 1 .. N : q[n] = Takes(a, q[n - 1], n)
            /\ Queue(a) = q[N]
<1> DEFINE F(g) == [n \in 0 .. N |-> IF n = 0 THEN {} ELSE Takes(a, g[n - 1], n)]
           step == [x \in (SUBSET Rows) \X (1 .. N) |-> Takes(a, x[1], x[2])]
           q == CHOOSE g : g = F(g)
<1>1. Queue(a) = q[N]
  BY DEF Queue, Takes, Taken
<1>2. \E g : g = F(g)
  <2> DEFINE X == SUBSET Rows
  <2>1. IsStep(step, X, N)
    BY DEF Takes, Rows, IsStep
  <2>2. {} \in X
    OBVIOUS
  <2> HIDE DEF step, X
  <2>3. PICK g : BuiltBy(g, {}, step, X, N)
    BY <2>1, <2>2, RowsAssumption, Iterates
  <2>4. ASSUME NEW n \in 1 .. N PROVE g[n] = Takes(a, g[n - 1], n)
    <3>1. n - 1 \in 0 .. N
      BY RowsAssumption
    <3>2. g[n - 1] \in X
      BY <3>1, <2>3 DEF BuiltBy
    <3> QED BY <3>2, <2>3 DEF step, X, BuiltBy
  <2>5. g = F(g)
    BY <2>3, <2>4, RowsAssumption DEF BuiltBy
  <2> QED BY <2>5
<1>3. q = F(q)
  BY <1>2
<1> HIDE DEF q
<1>4. q[0] = {} /\ \A n \in 1 .. N : q[n] = Takes(a, q[n - 1], n)
  <2>1. ASSUME NEW n \in 0 .. N PROVE F(q)[n] = IF n = 0 THEN {} ELSE Takes(a, q[n - 1], n)
    OBVIOUS
  <2> HIDE DEF F
  <2>2. ASSUME NEW n \in 0 .. N PROVE q[n] = IF n = 0 THEN {} ELSE Takes(a, q[n - 1], n)
    BY <1>3, <2>1
  <2> QED BY <2>2, RowsAssumption
<1>5. q \in [0 .. N -> SUBSET Rows]
  <2> DEFINE S == {n \in 0 .. N : q[n] \subseteq Rows}
  <2>1. 0 \in S
    BY <1>4, RowsAssumption
  <2>2. ASSUME NEW n \in 1 .. N, n - 1 \in S PROVE n \in S
    <3>1. q[n - 1] \subseteq Rows /\ q[n] = Takes(a, q[n - 1], n)
      BY <2>2, <1>4
    <3>2. n \in Rows /\ n \in 0 .. N
      BY RowsAssumption DEF Rows
    <3>3. q[n] \subseteq Rows
      BY <3>1, <3>2 DEF Takes
    <3> QED BY <3>2, <3>3
  <2> HIDE DEF S
  <2>3. 0 .. N \subseteq S
    BY <2>1, <2>2, Induction, RowsAssumption
  <2>4. \A n \in 0 .. N : q[n] \in SUBSET Rows
    BY <2>3 DEF S
  <2> QED BY <2>4, <1>3
<1> QED
  BY <1>1, <1>4, <1>5

\* The queue of a sweep is the greedy one: a row that may be introduced is in it exactly
\* if no closed row and no earlier row of the queue shares an identity with it.
LEMMA QueueGreedy ==
  ASSUME NEW a, NEW r \in Rows
  PROVE  r \in Queue(a) <=> /\ MayIntroduce(r, a)
                            /\ KeysOf[r] \cap Taken({s \in Queue(a) : s < r}) = {}
<1>1. PICK q \in [0 .. N -> SUBSET Rows] :
         /\ q[0] = {} /\ \A n \in 1 .. N : q[n] = Takes(a, q[n - 1], n)
         /\ Queue(a) = q[N]
  BY QueueLoop
<1> DEFINE Fits(n) == MayIntroduce(n, a) /\ KeysOf[n] \cap Taken(q[n - 1]) = {}
           S == {n \in 0 .. N : q[n] = {s \in 1 .. n : Fits(s)}}
<1> HIDE DEF Fits
<1>2. 0 \in S
  BY <1>1, RowsAssumption
<1>3. ASSUME NEW n \in 1 .. N, n - 1 \in S PROVE n \in S
  <2>1. q[n - 1] = {s \in 1 .. n - 1 : Fits(s)}
    BY <1>3
  <2>2. q[n] = IF Fits(n) THEN q[n - 1] \union {n} ELSE q[n - 1]
    BY <1>1 DEF Takes, Fits
  <2>3. q[n] = {s \in 1 .. n : Fits(s)}
    BY <2>1, <2>2, RowsAssumption
  <2> QED BY <2>3, RowsAssumption
<1> HIDE DEF S
<1>4. 0 .. N \subseteq S
  BY <1>2, <1>3, Induction, RowsAssumption
<1>5. \A n \in 0 .. N : q[n] = {s \in 1 .. n : Fits(s)}
  BY <1>4 DEF S
<1>6. N \in 0 .. N /\ r - 1 \in 0 .. N /\ r \in 1 .. N /\ r \in Nat
  BY RowsAssumption DEF Rows
<1>7. Queue(a) = {s \in 1 .. N : Fits(s)} /\ q[r - 1] = {s \in 1 .. r - 1 : Fits(s)}
  BY <1>1, <1>5, <1>6
<1>8. q[r - 1] = {s \in Queue(a) : s < r}
  BY <1>7, <1>6, RowsAssumption
<1>9. r \in Queue(a) <=> Fits(r)
  BY <1>6, <1>7
<1> QED
  BY <1>8, <1>9 DEF Fits

-----------------------------------------------------------------------------
(* Types.                                                                  *)

RowType == [accepted: Accepted \union {"blank", "pending"},
            intro: Settled \union {"open"}, sender: Accounts \union {NoAccount}]

UpdateType == [kind: Kinds, to: Accounts \union {NoAccount}]

\* A sweep has an account, and a row in hand from its choice to its mark; it has updates
\* to write only while it writes them; and it takes up, and stamps as duplicates, rows it
\* has read as open.
Shaped ==
    /\ sweep.pc = "idle" => sweep = NoSweep
    /\ sweep.pc # "idle" => sweep.acct \in Accounts
    /\ sweep.hand \in Rows <=> sweep.pc \in {"send", "stamp", "mark"}
    /\ sweep.hand \in Rows => sweep.hand \in sweep.open
    /\ \A u \in sweep.urls : \E r \in Rows : UrlOf[r] = u
    /\ sweep.pc # "apply" => \A r \in Rows : sweep.plan[r].kind = "none"
    /\ \A r \in Rows : sweep.plan[r].kind = "duplicate" => r \in sweep.open

TypeInv == TypeOK /\ Shaped

\* What a decision about a row says of the row.
LEMMA DecidedKinds ==
  ASSUME TypeOK, NEW a \in Accounts, NEW s \in Rows, NEW heir \in Accounts
  PROVE  LET u == Decided(s, a, heir) IN
         /\ u \in UpdateType
         /\ u.kind = "move" => Reassigned(s) /\ u.to = IF a \in Matched(s) THEN a ELSE heir
         /\ u.kind = "own" => /\ Recognised(s, a)
                              /\ u.to = IF row[s].sender = NoAccount THEN heir ELSE row[s].sender
         /\ u.kind = "connected" => Recognised(s, a)
         /\ u.kind = "duplicate" => Duplicate(s, a)
         /\ Reassigned(s) => u.kind = "move"
<1> DEFINE u == Decided(s, a, heir)
<1>1. row[s].sender \in Accounts \union {NoAccount}
  BY DEF TypeOK
<1>2. Reassigned(s) => ~Duplicate(s, a) /\ ~Recognised(s, a) /\ ~StillPending(s, a)
  BY DEF Reassigned, Duplicate, MayIntroduce, Recognised, StillPending
<1>3. Duplicate(s, a) => ~Recognised(s, a) /\ ~StillPending(s, a)
  BY DEF Duplicate, MayIntroduce, Recognised, StillPending, Accepted
<1>4. Recognised(s, a) => ~StillPending(s, a)
  BY DEF Recognised, StillPending, AssignedConnected
<1>5. CASE Reassigned(s)
  <2>1. u = [kind |-> "move", to |-> IF a \in Matched(s) THEN a ELSE heir]
    BY <1>2, <1>5 DEF Decided
  <2> QED BY <1>5, <2>1 DEF UpdateType, Kinds
<1>6. CASE Duplicate(s, a)
  <2>1. u = [kind |-> "duplicate", to |-> NoAccount]
    BY <1>2, <1>3, <1>6 DEF Decided
  <2> QED BY <1>2, <1>6, <2>1 DEF UpdateType, Kinds
<1>7. CASE Recognised(s, a)
  <2>1. u = IF s \in Invited THEN [kind |-> "connected", to |-> NoAccount]
            ELSE [kind |-> "own", to |-> IF row[s].sender = NoAccount THEN heir
                                         ELSE row[s].sender]
    BY <1>2, <1>3, <1>4, <1>7 DEF Decided
  <2> QED BY <1>1, <1>2, <1>7, <2>1 DEF UpdateType, Kinds
<1>8. CASE StillPending(s, a)
  <2>1. u = [kind |-> "pending", to |-> NoAccount]
    BY <1>2, <1>3, <1>4, <1>8 DEF Decided
  <2> QED BY <1>2, <1>8, <2>1 DEF UpdateType, Kinds
<1>9. CASE ~(Reassigned(s) \/ Duplicate(s, a) \/ Recognised(s, a) \/ StillPending(s, a))
  <2>1. u = NoUpdate
    BY <1>9 DEF Decided
  <2> QED BY <1>9, <2>1 DEF UpdateType, Kinds, NoUpdate
<1> QED
  BY <1>5, <1>6, <1>7, <1>8, <1>9

\* What an update leaves in a row.
LEMMA WrittenRow ==
  ASSUME TypeOK, NEW s \in Rows, NEW u \in UpdateType
  PROVE  LET new == Written(s, u) IN
         /\ new \in RowType
         /\ u.kind \in {"move", "own"} => /\ new.sender = u.to /\ new.intro = row[s].intro
         /\ u.kind \notin {"move", "own"} => new.sender = row[s].sender
         /\ u.kind \notin {"move", "own", "connected"} /\ new.accepted \in Accepted
              => row[s].accepted \in Accepted
         /\ new.intro # row[s].intro => new.intro = "duplicate" /\ u.kind = "duplicate"
<1>1. row[s] \in RowType
  BY DEF TypeOK, RowType
<1>2. CASE u.kind \in {"move", "own"}
  <2>1. Written(s, u) = [row[s] EXCEPT !.accepted = "already", !.sender = u.to]
    BY <1>2 DEF Written
  <2> QED BY <1>1, <1>2, <2>1 DEF RowType, UpdateType, Accepted
<1>3. CASE u.kind = "connected"
  <2>1. Written(s, u) = [row[s] EXCEPT !.accepted = "connected"]
    BY <1>3 DEF Written
  <2> QED BY <1>1, <1>3, <2>1 DEF RowType, Accepted
<1>4. CASE u.kind = "pending"
  <2>1. Written(s, u) = [row[s] EXCEPT !.accepted = "pending"]
    BY <1>4 DEF Written
  <2> QED BY <1>1, <1>4, <2>1 DEF RowType, Accepted
<1>5. CASE u.kind = "duplicate"
  <2>1. Written(s, u) = [row[s] EXCEPT !.intro = "duplicate"]
    BY <1>5 DEF Written
  <2> QED BY <1>1, <1>5, <2>1 DEF RowType, Settled
<1>6. CASE u.kind = "none"
  <2>1. Written(s, u) = row[s]
    BY <1>6 DEF Written
  <2> QED BY <1>1, <1>6, <2>1
<1> QED
  BY <1>2, <1>3, <1>4, <1>5, <1>6 DEF UpdateType, Kinds

\* The last row of a URL has this URL.
LEMMA LeadOfUrl ==
  ASSUME NEW u, \E r \in Rows : UrlOf[r] = u
  PROVE  LeadOf(u) \in Rows /\ UrlOf[LeadOf(u)] = u
<1> DEFINE T == {r \in Rows : UrlOf[r] = u}
<1>1. Max(T) \in T
  BY LastRow
<1> QED
  BY <1>1 DEF LeadOf

LEMMA TypeInit == Init => TypeInv
<1> SUFFICES ASSUME Init PROVE TypeInv
  OBVIOUS
<1>1. row \in [Rows -> RowType]
  BY MapsAssumption DEF Init, RowType, Accepted
<1>2. NoPlan \in [Rows -> UpdateType] /\ \A r \in Rows : NoPlan[r].kind = "none"
  BY DEF NoPlan, NoUpdate, UpdateType, Kinds
<1>3. sweep = NoSweep /\ NoRow \notin Rows /\ sweep.plan = NoPlan
  BY NonesAssumption DEF Init, NoSweep
<1>4. Shaped
  BY <1>2, <1>3 DEF Shaped, NoSweep
<1>5. sweep \in [pc: {"idle", "fetch", "match", "apply", "gate", "intro", "send", "stamp", "mark"},
                 acct: Accounts \union {NoAccount}, urls: SUBSET Urls,
                 hand: Rows \union {NoRow}, open: SUBSET Rows, plan: [Rows -> UpdateType]]
  BY <1>2, <1>3 DEF NoSweep
<1>6. TypeOK
  BY <1>1, <1>5, MapsAssumption, NonesAssumption DEF Init, TypeOK, RowType, UpdateType
<1> QED
  BY <1>4, <1>6 DEF TypeInv

\* What a sweep has in its hands after the matching: a decision about every row, and
\* URLs of rows that may be introduced.
LEMMA MatchSteps ==
  ASSUME TypeInv, Match
  PROVE  /\ sweep.acct \in Accounts /\ sweep.pc = "match"
         /\ sweep' = [pc |-> "apply", acct |-> sweep.acct, urls |-> sweep'.urls,
                      hand |-> sweep.hand, open |-> sweep'.open, plan |-> sweep'.plan]
         /\ UNCHANGED <<row, conns, net, armed, acted, sent, mishaps, doubt>>
         /\ \/ /\ sweep'.open = sweep.open /\ sweep'.plan = sweep.plan
               /\ sweep'.urls = sweep.urls
            \/ /\ sweep'.open = {r \in Rows : Open(r)}
               /\ sweep'.plan \in [Rows -> UpdateType]
               /\ \A r \in Rows : \E heir \in Accounts :
                     /\ Matched(r) # {} => heir \in Matched(r)
                     /\ sweep'.plan[r] = Decided(r, sweep.acct, heir)
               /\ \A u \in sweep'.urls : \E r \in Rows :
                     UrlOf[r] = u /\ MayIntroduce(r, sweep.acct)
<1> DEFINE a == sweep.acct
<1>1. a \in Accounts /\ sweep.pc = "match" /\ TypeOK
  BY DEF TypeInv, Shaped, Match
<1>2. sweep = [pc |-> sweep.pc, acct |-> sweep.acct, urls |-> sweep.urls, hand |-> sweep.hand,
               open |-> sweep.open, plan |-> sweep.plan]
  BY DEF TypeInv, TypeOK
<1>3. UNCHANGED <<row, conns, net, armed, acted, sent, mishaps, doubt>>
  BY DEF Match
<1>4. CASE ~IsSender(a)
  <2>1. sweep' = [sweep EXCEPT !.pc = "apply"]
    BY <1>4 DEF Match
  <2>2. sweep' = [pc |-> "apply", acct |-> sweep.acct, urls |-> sweep.urls, hand |-> sweep.hand,
                  open |-> sweep.open, plan |-> sweep.plan]
    BY <1>2, <2>1
  <2> QED BY <1>1, <1>3, <2>2
<1>5. CASE IsSender(a)
  <2>1. PICK heir \in [Rows -> Accounts] :
          /\ \A r \in Rows : Matched(r) # {} => heir[r] \in Matched(r)
          /\ sweep' = [sweep EXCEPT !.pc = "apply",
                                    !.open = {r \in Rows : Open(r)},
                                    !.plan = [r \in Rows |-> Decided(r, a, heir[r])],
                                    !.urls = {UrlOf[r] : r \in Queue(a)}]
    BY <1>5 DEF Match
  <2> DEFINE op == {r \in Rows : Open(r)}
             pl == [r \in Rows |-> Decided(r, a, heir[r])]
             ur == {UrlOf[r] : r \in Queue(a)}
  <2>2. pl \in [Rows -> UpdateType]
    <3>1. \A r \in Rows : Decided(r, a, heir[r]) \in UpdateType
      BY <1>1, <2>1, DecidedKinds
    <3> QED BY <3>1
  <2>3. \A r \in Rows : \E h \in Accounts :
           (Matched(r) # {} => h \in Matched(r)) /\ pl[r] = Decided(r, a, h)
    BY <2>1
  <2>4. \A u \in ur : \E r \in Rows : UrlOf[r] = u /\ MayIntroduce(r, a)
    <3>1. Queue(a) \subseteq Rows
      BY QueueLoop, RowsAssumption
    <3>2. \A r \in Queue(a) : MayIntroduce(r, a)
      BY <3>1, QueueGreedy
    <3> QED BY <3>1, <3>2
  <2>5. sweep' = [sweep EXCEPT !.pc = "apply", !.open = op, !.plan = pl, !.urls = ur]
    BY <2>1
  <2> HIDE DEF op, pl, ur
  <2>6. sweep' = [pc |-> "apply", acct |-> sweep.acct, urls |-> ur, hand |-> sweep.hand,
                  open |-> op, plan |-> pl]
    BY <1>2, <2>5
  <2>7. sweep'.open = op /\ sweep'.plan = pl /\ sweep'.urls = ur
        /\ sweep' = [pc |-> "apply", acct |-> sweep.acct, urls |-> sweep'.urls,
                      hand |-> sweep.hand, open |-> sweep'.open, plan |-> sweep'.plan]
    BY <2>6
  <2> QED BY <1>1, <1>3, <2>2, <2>3, <2>4, <2>7 DEF op
<1> QED
  BY <1>4, <1>5

\* Writing an update: which one, and to which rows.
LEMMA ApplySteps ==
  ASSUME TypeInv, Apply
  PROVE  /\ UNCHANGED <<conns, net, armed, acted, sent, mishaps, doubt>>
         /\ \E r \in Rows :
              /\ sweep.plan[r] \in UpdateType /\ sweep.plan[r].kind # "none"
              /\ row' \in [Rows -> RowType]
              /\ \A s \in Rows : row'[s] = IF UrlOf[s] = UrlOf[r] THEN Written(s, sweep.plan[r])
                                           ELSE row[s]
              /\ sweep'.plan \in [Rows -> UpdateType]
              /\ sweep'.plan[r].kind = "none"
              /\ \A s \in Rows \ {r} : sweep'.plan[s] = sweep.plan[s]
              /\ sweep' = [pc |-> "apply", acct |-> sweep.acct, urls |-> sweep.urls,
                           hand |-> sweep.hand, open |-> sweep.open, plan |-> sweep'.plan]
<1>1. PICK r \in Rows :
        /\ sweep.plan[r].kind # "none"
        /\ row' = [s \in Rows |-> IF UrlOf[s] = UrlOf[r] THEN Written(s, sweep.plan[r])
                                  ELSE row[s]]
        /\ sweep' = [sweep EXCEPT !.plan[r] = NoUpdate]
  BY DEF Apply
<1>2. sweep = [pc |-> "apply", acct |-> sweep.acct, urls |-> sweep.urls, hand |-> sweep.hand,
               open |-> sweep.open, plan |-> sweep.plan]
  BY DEF TypeInv, TypeOK, Apply
<1>3. sweep.plan \in [Rows -> UpdateType] /\ TypeOK /\ row \in [Rows -> RowType]
  BY DEF TypeInv, TypeOK, UpdateType, RowType
<1> DEFINE pl == [sweep.plan EXCEPT ![r] = NoUpdate]
<1>4. sweep' = [sweep EXCEPT !.plan = pl]
  BY <1>1
<1>5. pl \in [Rows -> UpdateType] /\ pl[r].kind = "none" /\ \A s \in Rows \ {r} : pl[s] = sweep.plan[s]
  BY <1>3 DEF NoUpdate, UpdateType, Kinds
<1> HIDE DEF pl
<1>6. sweep' = [pc |-> "apply", acct |-> sweep.acct, urls |-> sweep.urls, hand |-> sweep.hand,
                open |-> sweep.open, plan |-> pl]
  BY <1>2, <1>4
<1>7. \A s \in Rows : Written(s, sweep.plan[r]) \in RowType
  BY <1>3, WrittenRow
<1>8. row' \in [Rows -> RowType]
  BY <1>1, <1>3, <1>7
<1>9. sweep'.plan = pl
  BY <1>6
<1> QED
  BY <1>1, <1>3, <1>5, <1>6, <1>8, <1>9 DEF Apply

\* A check that is posted fills blanks.
LEMMA PostedRows ==
  ASSUME TypeInv, NEW u \in Urls, NEW introduced \in BOOLEAN, LocalCheck(u, introduced)
  PROVE  /\ row' \in [Rows -> RowType]
         /\ \A r \in Rows : /\ row'[r].sender = row[r].sender
                            /\ row'[r].intro # row[r].intro => Open(r)
                            /\ UrlOf[r] # u => row'[r] = row[r]
<1>1. row \in [Rows -> RowType]
  BY DEF TypeInv, TypeOK, RowType
<1>2. row' = [r \in Rows |->
                IF UrlOf[r] = u
                THEN [row[r] EXCEPT !.accepted = IF @ = "blank" THEN "connected" ELSE @,
                                    !.intro = IF introduced /\ @ = "open" THEN "made" ELSE @]
                ELSE row[r]]
  BY DEF LocalCheck
<1>3. ASSUME NEW r \in Rows
      PROVE  /\ row'[r] \in RowType /\ row'[r].sender = row[r].sender
             /\ row'[r].intro # row[r].intro => Open(r)
             /\ UrlOf[r] # u => row'[r] = row[r]
  <2>1. row[r] \in RowType
    BY <1>1
  <2>2. CASE UrlOf[r] # u
    BY <1>2, <2>1, <2>2
  <2>3. CASE UrlOf[r] = u
    <3> DEFINE acc == IF row[r].accepted = "blank" THEN "connected" ELSE row[r].accepted
               int == IF introduced /\ row[r].intro = "open" THEN "made" ELSE row[r].intro
    <3>1. row'[r] = [row[r] EXCEPT !.accepted = acc, !.intro = int]
      BY <1>2, <2>3
    <3>2. acc \in Accepted \union {"blank", "pending"} /\ int \in Settled \union {"open"}
          /\ (int # row[r].intro => row[r].intro = "open")
      BY <2>1 DEF RowType, Accepted, Settled
    <3> HIDE DEF acc, int
    <3> QED BY <2>1, <2>3, <3>1, <3>2 DEF RowType, Open
  <2> QED BY <2>2, <2>3
<1> QED
  BY <1>2, <1>3

\* What a sweep and the rows look like when it has come to an end.
LEMMA NoSweepType ==
  /\ NoSweep \in [pc: {"idle", "fetch", "match", "apply", "gate", "intro", "send", "stamp", "mark"},
                  acct: Accounts \union {NoAccount}, urls: SUBSET Urls,
                  hand: Rows \union {NoRow}, open: SUBSET Rows, plan: [Rows -> UpdateType]]
  /\ NoSweep.pc = "idle" /\ NoSweep.urls = {} /\ NoSweep.hand = NoRow /\ NoSweep.hand \notin Rows
  /\ NoSweep.open = {} /\ \A r \in Rows : NoSweep.plan[r].kind = "none"
<1>1. NoPlan \in [Rows -> UpdateType] /\ \A r \in Rows : NoPlan[r].kind = "none"
  BY DEF NoPlan, NoUpdate, UpdateType, Kinds
<1> HIDE DEF NoPlan
<1> QED
  BY <1>1, NonesAssumption DEF NoSweep

\* Every step keeps the types.
LEMMA TypeNext == TypeInv /\ [Next]_vars => TypeInv'
<1> SUFFICES ASSUME TypeInv, [Next]_vars PROVE TypeInv'
  OBVIOUS
<1> DEFINE SweepType == [pc: {"idle", "fetch", "match", "apply", "gate", "intro", "send", "stamp",
                              "mark"},
                         acct: Accounts \union {NoAccount}, urls: SUBSET Urls,
                         hand: Rows \union {NoRow}, open: SUBSET Rows, plan: [Rows -> UpdateType]]
<1>a1. /\ row \in [Rows -> RowType] /\ conns \in [Accounts -> SUBSET Persons]
      /\ net \in [Accounts -> SUBSET Persons] /\ sweep \in SweepType /\ armed \in BOOLEAN
      /\ acted \subseteq Urls /\ sent \in [Rows -> Nat] /\ mishaps \in 0 .. MaxMishaps
      /\ doubt \subseteq Urls
  BY DEF TypeInv, TypeOK, RowType, UpdateType
<1>g1. row \in [Rows -> RowType] /\ sent \in [Rows -> Nat]
  BY <1>a1
<1>b1. SUFFICES /\ row' \in [Rows -> RowType] /\ conns' \in [Accounts -> SUBSET Persons]
               /\ net' \in [Accounts -> SUBSET Persons] /\ sweep' \in SweepType
               /\ armed' \in BOOLEAN
               /\ acted' \subseteq Urls /\ sent' \in [Rows -> Nat] /\ mishaps' \in 0 .. MaxMishaps
               /\ doubt' \subseteq Urls /\ Shaped'
  BY DEF TypeInv, TypeOK, RowType, UpdateType
<1>c1. Shaped
  BY DEF TypeInv
<1>d1. sweep = [pc |-> sweep.pc, acct |-> sweep.acct, urls |-> sweep.urls, hand |-> sweep.hand,
               open |-> sweep.open, plan |-> sweep.plan]
  BY <1>a1
<1>e1. NoSweep \in SweepType /\ (sweep' = NoSweep => Shaped')
  BY NoSweepType DEF Shaped
<1>f1. ASSUME NEW p \in {"fetch", "match", "apply", "gate", "intro", "send", "stamp", "mark"},
             sweep' = [sweep EXCEPT !.pc = p], sweep.pc # "idle",
             p \in {"send", "stamp", "mark"} <=> sweep.pc \in {"send", "stamp", "mark"},
             p = "apply" \/ sweep.pc # "apply"
      PROVE  sweep' \in SweepType /\ Shaped'
  <2>1. sweep' = [pc |-> p, acct |-> sweep.acct, urls |-> sweep.urls, hand |-> sweep.hand,
                  open |-> sweep.open, plan |-> sweep.plan]
    BY <1>d1, <1>f1
  <2> QED BY <1>a1, <1>c1, <1>f1, <2>1 DEF Shaped
<1>1. CASE \E p \in Persons, a \in Accounts : Accept(p, a)
  <2>1. PICK p \in Persons, a \in Accounts : Accept(p, a)
    BY <1>1
  <2>2. net' \in [Accounts -> SUBSET Persons]
    BY <1>a1, <2>1 DEF Accept
  <2>3. UNCHANGED <<row, conns, sweep, armed, acted, sent, mishaps, doubt>>
    BY <2>1 DEF Accept
  <2> QED BY <1>a1, <1>c1, <2>2, <2>3 DEF Shaped
<1>2. CASE \E u \in Urls, introduced \in BOOLEAN : LocalCheck(u, introduced)
  <2>1. PICK u \in Urls, introduced \in BOOLEAN : LocalCheck(u, introduced)
    BY <1>2
  <2>2. row' \in [Rows -> RowType]
    BY <2>1, PostedRows
  <2>3. UNCHANGED <<conns, net, sweep, armed, acted, sent, mishaps>> /\ doubt' \subseteq Urls
    BY <1>a1, <2>1 DEF LocalCheck
  <2> QED BY <1>a1, <1>c1, <2>2, <2>3 DEF Shaped
<1>3. CASE \E a \in Accounts : OpenSession(a)
  <2>1. PICK a \in Accounts : OpenSession(a)
    BY <1>3
  <2>2. UNCHANGED <<row, conns, net, armed, acted, sent, mishaps, doubt>>
        /\ sweep' = [NoSweep EXCEPT !.pc = "fetch", !.acct = a]
    BY <2>1 DEF OpenSession
  <2>3. sweep' = [pc |-> "fetch", acct |-> a, urls |-> {}, hand |-> NoRow, open |-> {},
                  plan |-> NoPlan]
    BY <2>2 DEF NoSweep
  <2>4. NoPlan \in [Rows -> UpdateType] /\ \A r \in Rows : NoPlan[r].kind = "none"
    BY NoSweepType DEF NoSweep
  <2>5. sweep' \in SweepType
    BY <2>3, <2>4, NonesAssumption
  <2>6. sweep'.pc = "fetch" /\ sweep'.acct = a /\ sweep'.urls = {} /\ sweep'.hand = NoRow
        /\ sweep'.plan = NoPlan
    BY <2>3
  <2>7. Shaped'
    BY <2>4, <2>6, NonesAssumption DEF Shaped
  <2> QED BY <1>a1, <2>2, <2>5, <2>7
<1>4. CASE \E a \in Accounts : \E fresh \in SUBSET net[a] : Fetch(a, fresh)
  <2>0. PICK a \in Accounts : \E fresh \in SUBSET net[a] : Fetch(a, fresh)
    BY <1>4
  <2>1. PICK fresh \in SUBSET net[a] : Fetch(a, fresh)
    BY <2>0
  <2>2. conns' \in [Accounts -> SUBSET Persons]
        /\ UNCHANGED <<row, net, armed, acted, sent, mishaps, doubt>>
    BY <1>a1, <2>1 DEF Fetch
  <2>3. sweep' \in SweepType /\ Shaped'
    BY <1>f1, <2>1 DEF Fetch
  <2> QED BY <1>a1, <2>2, <2>3
<1>5. CASE SessionDead \/ Hold \/ SweepDone
  BY <1>5, <1>a1, <1>e1 DEF SessionDead, Hold, SweepDone
<1>6. CASE Match
  <2>1. sweep.acct \in Accounts /\ sweep.pc = "match"
        /\ sweep' = [pc |-> "apply", acct |-> sweep.acct, urls |-> sweep'.urls,
                     hand |-> sweep.hand, open |-> sweep'.open, plan |-> sweep'.plan]
        /\ UNCHANGED <<row, conns, net, armed, acted, sent, mishaps, doubt>>
    BY <1>6, MatchSteps
  <2>2. CASE sweep'.open = sweep.open /\ sweep'.plan = sweep.plan /\ sweep'.urls = sweep.urls
    BY <1>a1, <1>c1, <2>1, <2>2 DEF Shaped
  <2>3. CASE /\ sweep'.open = {r \in Rows : Open(r)}
             /\ sweep'.plan \in [Rows -> UpdateType]
             /\ \A r \in Rows : \E heir \in Accounts :
                   /\ Matched(r) # {} => heir \in Matched(r)
                   /\ sweep'.plan[r] = Decided(r, sweep.acct, heir)
             /\ \A u \in sweep'.urls : \E r \in Rows : UrlOf[r] = u /\ MayIntroduce(r, sweep.acct)
    <3>1. \A u \in sweep'.urls : \E r \in Rows : UrlOf[r] = u
      BY <2>3
    <3>2. sweep'.urls \subseteq Urls
      BY <3>1, MapsAssumption
    <3>3. ASSUME NEW r \in Rows, sweep'.plan[r].kind = "duplicate" PROVE r \in sweep'.open
      <4>1. PICK heir \in Accounts : sweep'.plan[r] = Decided(r, sweep.acct, heir)
        BY <2>3
      <4>2. Duplicate(r, sweep.acct)
        BY <2>1, <3>3, <4>1, DecidedKinds DEF TypeInv
      <4> QED BY <2>3, <4>2 DEF Duplicate, MayIntroduce
    <3>4. sweep'.open \subseteq Rows /\ sweep'.plan \in [Rows -> UpdateType]
          /\ sweep.hand \notin Rows /\ sweep.hand \in Rows \union {NoRow}
      BY <1>a1, <1>c1, <2>1, <2>3 DEF Shaped
    <3> DEFINE ur == sweep'.urls
               op == sweep'.open
               pl == sweep'.plan
    <3>5. sweep' = [pc |-> "apply", acct |-> sweep.acct, urls |-> ur, hand |-> sweep.hand,
                    open |-> op, plan |-> pl]
          /\ ur \subseteq Urls /\ op \subseteq Rows /\ pl \in [Rows -> UpdateType]
      BY <2>1, <3>2, <3>4
    <3>6. sweep' \in SweepType
      <4> HIDE DEF ur, op, pl
      <4> QED BY <2>1, <3>4, <3>5
    <3>7. sweep'.pc = "apply" /\ sweep'.acct = sweep.acct /\ sweep'.hand = sweep.hand
      BY <2>1
    <3>8. Shaped'
      BY <2>1, <3>1, <3>3, <3>4, <3>7 DEF Shaped
    <3> QED BY <1>a1, <2>1, <3>6, <3>8
  <2> QED BY <1>6, <2>2, <2>3, MatchSteps
<1>7. CASE Apply
  <2>1. PICK r \in Rows :
          /\ row' \in [Rows -> RowType]
          /\ sweep'.plan \in [Rows -> UpdateType]
          /\ sweep'.plan[r].kind = "none"
          /\ \A s \in Rows \ {r} : sweep'.plan[s] = sweep.plan[s]
          /\ sweep' = [pc |-> "apply", acct |-> sweep.acct, urls |-> sweep.urls,
                       hand |-> sweep.hand, open |-> sweep.open, plan |-> sweep'.plan]
    BY <1>7, ApplySteps
  <2>2. UNCHANGED <<conns, net, armed, acted, sent, mishaps, doubt>> /\ sweep.pc = "apply"
    BY <1>7 DEF Apply
  <2> DEFINE pl == sweep'.plan
  <2>3. sweep' = [pc |-> "apply", acct |-> sweep.acct, urls |-> sweep.urls,
                  hand |-> sweep.hand, open |-> sweep.open, plan |-> pl]
        /\ pl \in [Rows -> UpdateType]
    BY <2>1
  <2>4. sweep' \in SweepType
    <3> HIDE DEF pl
    <3> QED BY <1>a1, <2>3
  <2>5. \A s \in Rows : sweep'.plan[s].kind = "duplicate" => s \in sweep.open
    BY <1>c1, <2>1 DEF Shaped
  <2>6. sweep'.pc = "apply" /\ sweep'.acct = sweep.acct /\ sweep'.hand = sweep.hand
        /\ sweep'.open = sweep.open /\ sweep'.urls = sweep.urls
    BY <2>3
  <2>7. Shaped'
    BY <1>c1, <2>2, <2>5, <2>6 DEF Shaped
  <2> QED BY <1>a1, <2>1, <2>2, <2>4, <2>7
<1>8. CASE Applied
  <2> DEFINE ur == sweep.urls \union Backlog(sweep.acct)
  <2>1. UNCHANGED <<row, conns, net, armed, acted, sent, mishaps, doubt>> /\ sweep.pc = "apply"
        /\ \A r \in Rows : sweep.plan[r].kind = "none"
    BY <1>8 DEF Applied
  <2>5. sweep' = [sweep EXCEPT !.pc = "gate", !.urls = ur]
    BY <1>8 DEF Applied
  <2>2. \A u \in ur : \E r \in Rows : UrlOf[r] = u
    BY <1>c1 DEF Backlog, Shaped
  <2>3. ur \subseteq Urls
    BY <2>2, MapsAssumption
  <2> HIDE DEF ur
  <2>4. sweep' = [pc |-> "gate", acct |-> sweep.acct, urls |-> ur, hand |-> sweep.hand,
                  open |-> sweep.open, plan |-> sweep.plan]
    BY <1>d1, <2>5
  <2> QED BY <1>a1, <1>c1, <2>1, <2>2, <2>3, <2>4 DEF Shaped
<1>9. CASE Gate
  <2> DEFINE op == {r \in Rows : Open(r)}
  <2>1. UNCHANGED <<row, conns, net, armed, acted, sent, mishaps, doubt>> /\ sweep.pc = "gate"
        /\ sweep' = [sweep EXCEPT !.pc = "intro", !.open = op] /\ op \subseteq Rows
    BY <1>9 DEF Gate
  <2> HIDE DEF op
  <2>2. sweep' = [pc |-> "intro", acct |-> sweep.acct, urls |-> sweep.urls, hand |-> sweep.hand,
                  open |-> op, plan |-> sweep.plan]
    BY <1>d1, <2>1
  <2> QED BY <1>a1, <1>c1, <2>1, <2>2 DEF Shaped
<1>10. CASE TakeUrl
  <2>1. PICK u \in sweep.urls :
          sweep' = LET rest == [sweep EXCEPT !.urls = @ \ {u}] IN
                   IF LeadOf(u) \in sweep.open /\ u \notin acted
                   THEN [rest EXCEPT !.pc = "send", !.hand = LeadOf(u)] ELSE rest
    BY <1>10 DEF TakeUrl
  <2>2. UNCHANGED <<row, conns, net, armed, acted, sent, mishaps, doubt>> /\ sweep.pc = "intro"
    BY <1>10 DEF TakeUrl
  <2>3. \/ /\ LeadOf(u) \in sweep.open
           /\ sweep' = [pc |-> "send", acct |-> sweep.acct, urls |-> sweep.urls \ {u},
                        hand |-> LeadOf(u), open |-> sweep.open, plan |-> sweep.plan]
        \/ sweep' = [pc |-> "intro", acct |-> sweep.acct, urls |-> sweep.urls \ {u},
                     hand |-> sweep.hand, open |-> sweep.open, plan |-> sweep.plan]
    BY <1>d1, <2>1, <2>2
  <2> QED BY <1>a1, <1>c1, <2>2, <2>3 DEF Shaped
<1>11. CASE Send
  <2>0. sent' = [sent EXCEPT ![sweep.hand] = @ + 1]
    BY <1>11 DEF Send
  <2>3. sent \in [Rows -> Nat] /\ sweep.hand \in Rows /\ sent[sweep.hand] + 1 \in Nat
    BY <1>11, <1>g1, <1>c1 DEF Send, Shaped
  <2>1. sent' \in [Rows -> Nat]
    BY <2>0, <2>3
  <2>2. sweep' \in SweepType /\ Shaped'
    BY <1>11, <1>f1 DEF Send
  <2> QED BY <1>11, <1>a1, <2>1, <2>2 DEF Send
<1>12. CASE AlreadyMade
  <2>1. sweep' \in SweepType /\ Shaped'
    BY <1>12, <1>f1 DEF AlreadyMade
  <2> QED BY <1>12, <1>a1, <2>1 DEF AlreadyMade
<1>13. CASE SendFails
  <2>1. sweep.hand \in Rows /\ sweep.pc = "send"
    BY <1>13, <1>c1 DEF SendFails, Shaped
  <2>2. row' \in [Rows -> RowType]
    BY <1>13, <1>g1, <2>1 DEF SendFails, Settled, RowType
  <2>0. PICK out \in {0, 1} : sent' = [sent EXCEPT ![sweep.hand] = @ + out]
    BY <1>13 DEF SendFails
  <2>6. sent \in [Rows -> Nat] /\ sent[sweep.hand] + out \in Nat
    BY <1>g1, <2>1
  <2>3. sent' \in [Rows -> Nat]
    BY <2>0, <2>6
  <2>4. sweep' = [pc |-> "intro", acct |-> sweep.acct, urls |-> sweep.urls, hand |-> NoRow,
                  open |-> sweep.open, plan |-> sweep.plan]
    BY <1>13, <1>d1 DEF SendFails
  <2>5. sweep' \in SweepType /\ Shaped'
    BY <1>a1, <1>c1, <2>1, <2>4, NonesAssumption DEF Shaped
  <2> QED BY <1>13, <1>a1, <2>2, <2>3, <2>5 DEF SendFails
<1>14. CASE Stamp
  <2>1. row' \in [Rows -> RowType]
    BY <1>14, <1>g1 DEF Stamp, Settled, Accepted, RowType
  <2>2. sweep' \in SweepType /\ Shaped'
    BY <1>14, <1>f1 DEF Stamp
  <2> QED BY <1>14, <1>a1, <2>1, <2>2 DEF Stamp
<1>15. CASE Mark
  <2>1. sweep.hand \in Rows /\ sweep.pc = "mark"
    BY <1>15, <1>c1 DEF Mark, Shaped
  <2>2. UrlOf[sweep.hand] \in Urls
    BY <2>1, MapsAssumption
  <2>3. sweep' = [pc |-> "intro", acct |-> sweep.acct, urls |-> sweep.urls, hand |-> NoRow,
                  open |-> sweep.open, plan |-> sweep.plan]
    BY <1>15, <1>d1 DEF Mark
  <2>4. sweep' \in SweepType /\ Shaped'
    BY <1>a1, <1>c1, <2>1, <2>3, NonesAssumption DEF Shaped
  <2> QED BY <1>15, <1>a1, <2>2, <2>4 DEF Mark
<1>16. CASE BrowserDies
  <2>1. row' \in [Rows -> RowType]
    BY <1>16, <1>g1 DEF BrowserDies, Settled, RowType
  <2> QED BY <1>16, <1>a1, <1>e1, <2>1 DEF BrowserDies
<1>17. CASE StoreFails \/ Crash
  <2>1. Cut /\ armed' \in BOOLEAN
    BY <1>17, <1>a1 DEF StoreFails, Crash
  <2>2. mishaps' \in 0 .. MaxMishaps
    BY <1>a1, <2>1, NonesAssumption DEF Cut
  <2>3. doubt' \subseteq Urls
    BY <1>a1, <2>1, MapsAssumption DEF Cut
  <2> QED BY <1>a1, <1>e1, <2>1, <2>2, <2>3 DEF Cut
<1>18. CASE Park \/ Rearm
  BY <1>18, <1>a1, <1>c1 DEF Park, Rearm, Shaped
<1>19. CASE UNCHANGED vars
  BY <1>19, <1>a1, <1>c1 DEF vars, Shaped
<1> QED
  BY <1>1, <1>2, <1>3, <1>4, <1>5, <1>6, <1>7, <1>8, <1>9, <1>10, <1>11, <1>12, <1>13, <1>14,
     <1>15, <1>16, <1>17, <1>18, <1>19 DEF Next

\* Every reachable state has the declared types.
THEOREM TypeCorrect == Spec => []TypeOK
<1>1. TypeInv => TypeOK
  BY DEF TypeInv
<1> QED
  BY TypeInit, TypeNext, <1>1, PTL DEF Spec

-----------------------------------------------------------------------------
(* A row is introduced once.                                               *)

\* An open row had no introduction that a mishap does not account for, except the one
\* that is about to be stamped; a closed row may have had one more.  The rows a sweep
\* still means to introduce had none, although the operator may have closed them since.
SentInv ==
    /\ \A r \in Rows : Open(r) => sent[r] <= mishaps \/ (sweep.pc = "stamp" /\ sweep.hand = r)
    /\ \A r \in Rows : sent[r] <= 1 + mishaps
    /\ sweep.pc \in {"intro", "send", "stamp", "mark"} =>
         \A r \in sweep.open : UrlOf[r] \in sweep.urls => sent[r] <= mishaps
    /\ sweep.pc \in {"send", "stamp", "mark"} => UrlOf[sweep.hand] \notin sweep.urls
    /\ sweep.pc = "send" => sent[sweep.hand] <= mishaps

\* Updates close rows as duplicates of the row they are decided for, and open none.
LEMMA ApplyCloses ==
  ASSUME TypeInv, Apply
  PROVE  \A r \in Rows : \/ row'[r].intro = row[r].intro
                         \/ /\ row'[r].intro = "duplicate"
                            /\ \E s \in sweep.open : UrlOf[s] = UrlOf[r]
<1>1. PICK s \in Rows :
        /\ sweep.plan[s] \in UpdateType
        /\ \A r \in Rows : row'[r] = IF UrlOf[r] = UrlOf[s] THEN Written(r, sweep.plan[s])
                                     ELSE row[r]
  BY ApplySteps
<1>2. TypeOK /\ (sweep.plan[s].kind = "duplicate" => s \in sweep.open)
  BY DEF TypeInv, Shaped
<1>3. ASSUME NEW r \in Rows, row'[r].intro # row[r].intro
      PROVE  row'[r].intro = "duplicate" /\ s \in sweep.open /\ UrlOf[s] = UrlOf[r]
  <2>1. UrlOf[r] = UrlOf[s] /\ row'[r] = Written(r, sweep.plan[s])
    BY <1>1, <1>3
  <2>2. row'[r].intro = "duplicate" /\ sweep.plan[s].kind = "duplicate"
    BY <1>1, <1>2, <1>3, <2>1, WrittenRow
  <2> QED BY <1>2, <2>1, <2>2
<1> QED
  BY <1>3

LEMMA SentNext == TypeInv /\ SentInv /\ [Next]_vars => SentInv'
<1> SUFFICES ASSUME TypeInv, SentInv, [Next]_vars PROVE SentInv'
  OBVIOUS
<1>a1. /\ row \in [Rows -> RowType] /\ sent \in [Rows -> Nat] /\ mishaps \in Nat
       /\ sweep.open \subseteq Rows
  BY DEF TypeInv, TypeOK, RowType
<1>b1. Shaped
  BY DEF TypeInv
<1>c1. sweep = [pc |-> sweep.pc, acct |-> sweep.acct, urls |-> sweep.urls, hand |-> sweep.hand,
               open |-> sweep.open, plan |-> sweep.plan]
  BY DEF TypeInv, TypeOK
<1>d1. ASSUME sweep' = NoSweep, UNCHANGED sent, mishaps' \in Nat,
              mishaps' = mishaps \/ mishaps' = mishaps + 1,
              \A r \in Rows : Open(r)' => Open(r),
              sweep.pc = "stamp" /\ row'[sweep.hand].intro = "open" => mishaps' = mishaps + 1
       PROVE  SentInv'
  <2>1. sweep'.pc = "idle"
    BY <1>d1, NoSweepType
  <2>2. ASSUME NEW r \in Rows
        PROVE  sent'[r] <= 1 + mishaps' /\ (Open(r)' => sent'[r] <= mishaps')
    <3>1. sent'[r] = sent[r] /\ sent[r] \in Nat /\ sent[r] <= 1 + mishaps
      BY <1>a1, <1>d1 DEF SentInv
    <3>2. Open(r)' => \/ sent[r] <= mishaps
                      \/ sweep.pc = "stamp" /\ sweep.hand = r /\ row'[sweep.hand].intro = "open"
      BY <1>d1 DEF SentInv, Open
    <3>3. mishaps \in Int /\ mishaps' \in Int /\ mishaps <= mishaps'
      BY <1>a1, <1>d1
    <3>4. sweep.pc = "stamp" /\ row'[sweep.hand].intro = "open" => sent[r] <= mishaps'
      BY <1>d1, <3>1, <3>3
    <3>5. Open(r)' => sent[r] <= mishaps'
      BY <3>1, <3>2, <3>3, <3>4
    <3> QED BY <3>1, <3>3, <3>5
  <2> QED BY <2>1, <2>2 DEF SentInv
<1>e1. ASSUME UNCHANGED <<sweep, sent, mishaps>>, \A r \in Rows : Open(r)' => Open(r)
       PROVE  SentInv'
  BY <1>e1 DEF SentInv
<1>1. CASE \E p \in Persons, a \in Accounts : Accept(p, a)
  BY <1>1, <1>e1 DEF Accept, Open
<1>2. CASE \E u \in Urls, introduced \in BOOLEAN : LocalCheck(u, introduced)
  <2>1. PICK u \in Urls, introduced \in BOOLEAN : LocalCheck(u, introduced)
    BY <1>2
  <2>2. \A r \in Rows : Open(r)' => Open(r)
    BY <2>1, PostedRows DEF Open
  <2> QED BY <1>e1, <2>1, <2>2 DEF LocalCheck
<1>3. CASE \E a \in Accounts : OpenSession(a)
  <2>1. sweep'.pc = "fetch" /\ UNCHANGED <<row, sent, mishaps>> /\ sweep.pc = "idle"
    BY <1>3 DEF OpenSession, NoSweep
  <2> QED BY <2>1 DEF SentInv, Open
<1>4. CASE \E a \in Accounts : \E fresh \in SUBSET net[a] : Fetch(a, fresh)
  <2>1. sweep' = [sweep EXCEPT !.pc = "match"] /\ UNCHANGED <<row, sent, mishaps>>
        /\ sweep.pc = "fetch"
    BY <1>4 DEF Fetch
  <2>2. sweep'.pc = "match"
    BY <1>c1, <2>1
  <2> QED BY <2>1, <2>2 DEF SentInv, Open
<1>5. CASE SessionDead \/ Hold \/ SweepDone
  <2>1. sweep' = NoSweep /\ UNCHANGED <<row, sent, mishaps>> /\ sweep.pc # "stamp"
    BY <1>5 DEF SessionDead, Hold, SweepDone
  <2> QED BY <1>a1, <1>d1, <2>1 DEF Open
<1>6. CASE Match
  <2>1. sweep.pc = "match" /\ sweep'.pc = "apply" /\ UNCHANGED <<row, sent, mishaps>>
    BY <1>6, MatchSteps
  <2> QED BY <2>1 DEF SentInv, Open
<1>7. CASE Apply
  <2>1. sweep.pc = "apply" /\ sweep'.pc = "apply" /\ UNCHANGED <<sent, mishaps>>
    BY <1>7, ApplySteps DEF Apply
  <2>2. \A r \in Rows : Open(r)' => Open(r)
    BY <1>7, ApplyCloses DEF Open
  <2> QED BY <2>1, <2>2 DEF SentInv
<1>8. CASE Applied
  <2>1. sweep' = [sweep EXCEPT !.pc = "gate", !.urls = @ \union Backlog(sweep.acct)]
        /\ UNCHANGED <<row, sent, mishaps>> /\ sweep.pc = "apply"
    BY <1>8 DEF Applied
  <2>2. sweep'.pc = "gate"
    BY <1>c1, <2>1
  <2> QED BY <2>1, <2>2 DEF SentInv, Open
<1>9. CASE Gate
  <2>1. sweep' = [sweep EXCEPT !.pc = "intro", !.open = {r \in Rows : Open(r)}]
        /\ UNCHANGED <<row, sent, mishaps>> /\ sweep.pc = "gate"
    BY <1>9 DEF Gate
  <2>2. sweep'.pc = "intro" /\ sweep'.open = {r \in Rows : Open(r)}
    BY <1>c1, <2>1
  <2> QED BY <2>1, <2>2 DEF SentInv, Open
<1>10. CASE TakeUrl
  <2>1. PICK u \in sweep.urls :
          sweep' = LET rest == [sweep EXCEPT !.urls = @ \ {u}] IN
                   IF LeadOf(u) \in sweep.open /\ u \notin acted
                   THEN [rest EXCEPT !.pc = "send", !.hand = LeadOf(u)] ELSE rest
    BY <1>10 DEF TakeUrl
  <2>2. UNCHANGED <<row, sent, mishaps>> /\ sweep.pc = "intro"
    BY <1>10 DEF TakeUrl
  <2>3. \/ /\ LeadOf(u) \in sweep.open
           /\ sweep'.pc = "send" /\ sweep'.hand = LeadOf(u)
           /\ sweep'.urls = sweep.urls \ {u} /\ sweep'.open = sweep.open
        \/ sweep'.pc = "intro" /\ sweep'.urls = sweep.urls \ {u} /\ sweep'.open = sweep.open
    BY <1>c1, <2>1, <2>2
  <2>4. UrlOf[LeadOf(u)] = u /\ u \in sweep.urls
    BY <1>b1, LeadOfUrl DEF Shaped
  <2> QED BY <2>2, <2>3, <2>4 DEF SentInv, Open
<1>11. CASE Send
  <2>1. sweep' = [sweep EXCEPT !.pc = "stamp"] /\ sweep.pc = "send"
        /\ sent' = [sent EXCEPT ![sweep.hand] = @ + 1] /\ UNCHANGED <<row, mishaps>>
    BY <1>11 DEF Send
  <2>2. sweep'.pc = "stamp" /\ sweep'.hand = sweep.hand /\ sweep'.open = sweep.open
        /\ sweep'.urls = sweep.urls /\ sweep.hand \in Rows
    BY <1>b1, <1>c1, <2>1 DEF Shaped
  <2>3. \A r \in Rows : sent'[r] = IF r = sweep.hand THEN sent[r] + 1 ELSE sent[r]
    BY <1>a1, <2>1
  <2>4. \A r \in sweep.open : UrlOf[r] \in sweep.urls => r \in Rows /\ r # sweep.hand
    BY <1>a1, <2>1 DEF SentInv
  <2> QED BY <1>a1, <2>1, <2>2, <2>3, <2>4 DEF SentInv, Open
<1>12. CASE AlreadyMade
  <2>1. sweep' = [sweep EXCEPT !.pc = "stamp"] /\ sweep.pc = "send"
        /\ UNCHANGED <<row, sent, mishaps>>
    BY <1>12 DEF AlreadyMade
  <2>2. sweep'.pc = "stamp" /\ sweep'.hand = sweep.hand /\ sweep'.open = sweep.open
        /\ sweep'.urls = sweep.urls
    BY <1>c1, <2>1
  <2> QED BY <2>1, <2>2 DEF SentInv, Open
<1>13. CASE SendFails
  <2>1. PICK out \in {0, 1} : sent' = [sent EXCEPT ![sweep.hand] = @ + out]
    BY <1>13 DEF SendFails
  <2>2. sweep' = [sweep EXCEPT !.pc = "intro", !.hand = NoRow] /\ sweep.pc = "send"
        /\ row' = [row EXCEPT ![sweep.hand].intro = "failed"] /\ UNCHANGED mishaps
    BY <1>13 DEF SendFails
  <2>3. sweep'.pc = "intro" /\ sweep'.open = sweep.open /\ sweep'.urls = sweep.urls
        /\ sweep.hand \in Rows
    BY <1>b1, <1>c1, <2>2 DEF Shaped
  <2>4. \A r \in Rows : sent'[r] = IF r = sweep.hand THEN sent[r] + out ELSE sent[r]
    BY <1>a1, <2>1
  <2>5. \A r \in sweep.open : UrlOf[r] \in sweep.urls => r \in Rows /\ r # sweep.hand
    BY <1>a1, <2>2 DEF SentInv
  <2>6. \A r \in Rows : Open(r)' => Open(r) /\ r # sweep.hand
    BY <1>a1, <2>2, <2>3 DEF Open, RowType
  <2> QED BY <1>a1, <2>2, <2>3, <2>4, <2>5, <2>6 DEF SentInv
<1>14. CASE Stamp
  <2>1. sweep' = [sweep EXCEPT !.pc = "mark"] /\ sweep.pc = "stamp" /\ UNCHANGED <<sent, mishaps>>
        /\ row' = [row EXCEPT ![sweep.hand].intro = "made", ![sweep.hand].accepted = "connected"]
    BY <1>14 DEF Stamp
  <2>2. sweep'.pc = "mark" /\ sweep'.hand = sweep.hand /\ sweep'.open = sweep.open
        /\ sweep'.urls = sweep.urls /\ sweep.hand \in Rows
    BY <1>b1, <1>c1, <2>1 DEF Shaped
  <2>3. \A r \in Rows : Open(r)' => Open(r) /\ r # sweep.hand
    BY <1>a1, <2>1, <2>2 DEF Open, RowType
  <2> QED BY <2>1, <2>2, <2>3 DEF SentInv
<1>15. CASE Mark
  <2>1. sweep' = [sweep EXCEPT !.pc = "intro", !.hand = NoRow] /\ sweep.pc = "mark"
        /\ UNCHANGED <<row, sent, mishaps>>
    BY <1>15 DEF Mark
  <2>2. sweep'.pc = "intro" /\ sweep'.open = sweep.open /\ sweep'.urls = sweep.urls
    BY <1>c1, <2>1
  <2> QED BY <2>1, <2>2 DEF SentInv, Open
<1>16. CASE BrowserDies
  <2>1. sweep' = NoSweep /\ UNCHANGED <<sent, mishaps>> /\ sweep.pc # "stamp"
    BY <1>16 DEF BrowserDies
  <2>2. \A r \in Rows : Open(r)' => Open(r)
    BY <1>16, <1>a1 DEF BrowserDies, Open, RowType
  <2> QED BY <1>a1, <1>d1, <2>1, <2>2
<1>17. CASE StoreFails \/ Crash
  <2>1. sweep' = NoSweep /\ UNCHANGED <<row, sent>> /\ mishaps' = mishaps + 1
    BY <1>17 DEF StoreFails, Crash, Cut
  <2> QED BY <1>a1, <1>d1, <2>1 DEF Open
<1>18. CASE Park \/ Rearm
  BY <1>18, <1>e1 DEF Park, Rearm, Open
<1>19. CASE UNCHANGED vars
  BY <1>19, <1>e1 DEF vars, Open
<1> QED
  BY <1>1, <1>2, <1>3, <1>4, <1>5, <1>6, <1>7, <1>8, <1>9, <1>10, <1>11, <1>12, <1>13, <1>14,
     <1>15, <1>16, <1>17, <1>18, <1>19 DEF Next

\* A row is introduced once, and once more at most for every mishap between the message
\* and its stamp, also when the operator posts its introduction in between.
THEOREM IntroducedOnce == Spec => []RowIntroducedOnce
<1>1. Init => SentInv
  BY NoSweepType, NonesAssumption DEF Init, SentInv
<1>2. SentInv => RowIntroducedOnce
  BY DEF SentInv, RowIntroducedOnce
<1> QED
  BY <1>1, <1>2, TypeInit, TypeNext, SentNext, PTL DEF Spec

-----------------------------------------------------------------------------
(* The outcome of a row is final.                                          *)

LEMMA OutcomeStep ==
  ASSUME TypeInv, Next, NEW r \in Rows, ~Open(r), row'[r].intro # row[r].intro
  PROVE  \/ r \in sweep.open
         \/ /\ row'[r].intro = "duplicate"
            /\ \E s \in sweep.open : s # r /\ UrlOf[s] = UrlOf[r]
<1>1. row \in [Rows -> RowType] /\ Shaped
  BY DEF TypeInv, TypeOK, RowType
<1>2. CASE Apply
  BY <1>2, ApplyCloses
<1>3. CASE SendFails \/ Stamp
  <2>1. r = sweep.hand
    BY <1>1, <1>3 DEF SendFails, Stamp, RowType
  <2> QED BY <1>1, <2>1 DEF Shaped
<1>4. CASE BrowserDies
  <2>1. r = sweep.hand \/ r \in sweep.open
    BY <1>1, <1>4 DEF BrowserDies, RowType
  <2> QED BY <1>1, <2>1 DEF Shaped
<1>5. CASE \E u \in Urls, introduced \in BOOLEAN : LocalCheck(u, introduced)
  BY <1>5, PostedRows
<1>6. CASE UNCHANGED row
  BY <1>6
<1> QED
  BY <1>2, <1>3, <1>4, <1>5, <1>6 DEF Next, Accept, OpenSession, Fetch, SessionDead, Match, Applied,
     Gate, Hold, TakeUrl, SweepDone, Send, AlreadyMade, Mark, StoreFails, Crash, Cut, Park, Rearm

\* No sweep overwrites an outcome it has read, except by the stamp of a duplicate that
\* goes to every row of its URL: for rows that share URLs, and checks posted meanwhile.
THEOREM OutcomesFinal == Spec => OutcomeKept
<1>1. TypeInv /\ [Next]_vars
      => [\A r \in Rows : ~Open(r) /\ row'[r].intro # row[r].intro =>
            \/ r \in sweep.open
            \/ /\ row'[r].intro = "duplicate"
               /\ \E s \in sweep.open : s # r /\ UrlOf[s] = UrlOf[r]]_vars
  BY OutcomeStep
<1> QED
  BY <1>1, TypeInit, TypeNext, PTL DEF Spec, OutcomeKept

-----------------------------------------------------------------------------
(* An introduction comes from an account that knows the person.            *)

\* The sender of a row knows its person; a row without one is known to some account.
Backed(r) == IF row[r].sender = NoAccount THEN Matched(r) # {} ELSE PersonOf[r] \in net[row[r].sender]

\* An update yet to be written gives the row a sender that knows its person.
Moving(r) == \E s \in Rows : UrlOf[s] = UrlOf[r] /\ sweep.plan[s].kind \in {"move", "own"}

Safe(r) == Backed(r) \/ UrlOf[r] \in doubt \/ Moving(r)

\* The table of connections is what LinkedIn had; an open row that counts as accepted is
\* safe, and so is one about to be written as accepted; a new sender knows the person; and
\* what a sweep is about to introduce is known to its account, or in doubt.
ConnInv ==
    /\ \A a \in Accounts : conns[a] \subseteq net[a]
    /\ \A r \in Rows : Open(r) /\ row[r].accepted \in Accepted => Safe(r)
    /\ \A r \in Rows : sweep.plan[r].kind \in {"move", "own"} => sweep.plan[r].to \in Matched(r)
    /\ \A r, s \in Rows :
          sweep.plan[s].kind = "connected" /\ UrlOf[s] = UrlOf[r] /\ Open(r) => Safe(r)
    /\ \A r \in Rows : UrlOf[r] \in sweep.urls => PersonOf[r] \in net[sweep.acct] \/ UrlOf[r] \in doubt
    /\ sweep.pc = "send" => PersonOf[sweep.hand] \in net[sweep.acct] \/ UrlOf[sweep.hand] \in doubt

\* Rows of one URL are about one person.
LEMMA Twins ==
  ASSUME NEW r \in Rows, NEW s \in Rows, UrlOf[r] = UrlOf[s]
  PROVE  PersonOf[r] = PersonOf[s] /\ Matched(r) = Matched(s)
  BY IdentityAssumption DEF Matched

\* A matching hands a row that its sender does not know to an account that does, and
\* leaves every open row it writes as accepted safe.
LEMMA MatchSafe ==
  ASSUME TypeInv, ConnInv, Match
  PROVE  ConnInv'
<1>1. /\ sweep.acct \in Accounts /\ sweep.pc = "match" /\ sweep'.pc = "apply"
      /\ sweep'.acct = sweep.acct
      /\ UNCHANGED <<row, conns, net, armed, acted, sent, mishaps, doubt>>
  BY MatchSteps
<1>2. TypeOK /\ \A r \in Rows : ~Moving(r)
  BY <1>1 DEF TypeInv, Shaped, Moving
<1>3. CASE sweep'.open = sweep.open /\ sweep'.plan = sweep.plan /\ sweep'.urls = sweep.urls
  BY <1>1, <1>3 DEF ConnInv, Open, Safe, Backed, Moving, Matched
<1>4. CASE /\ sweep'.plan \in [Rows -> UpdateType]
           /\ \A r \in Rows : \E heir \in Accounts :
                 /\ Matched(r) # {} => heir \in Matched(r)
                 /\ sweep'.plan[r] = Decided(r, sweep.acct, heir)
           /\ \A u \in sweep'.urls : \E r \in Rows : UrlOf[r] = u /\ MayIntroduce(r, sweep.acct)
  <2> DEFINE a == sweep.acct
             kind(r) == sweep'.plan[r].kind
  <2>1. ASSUME NEW r \in Rows
        PROVE  /\ kind(r) \in {"move", "own"} => sweep'.plan[r].to \in Matched(r)
               /\ kind(r) = "connected" => AssignedConnected(r)
               /\ Reassigned(r) => kind(r) = "move"
    <3>1. PICK heir \in Accounts : /\ Matched(r) # {} => heir \in Matched(r)
                                   /\ sweep'.plan[r] = Decided(r, a, heir)
      BY <1>4
    <3> DEFINE d == Decided(r, a, heir)
    <3>2. /\ d.kind = "move" => Reassigned(r) /\ d.to = IF a \in Matched(r) THEN a ELSE heir
          /\ d.kind = "own" => /\ Recognised(r, a)
                               /\ d.to = IF row[r].sender = NoAccount THEN heir ELSE row[r].sender
          /\ d.kind = "connected" => Recognised(r, a)
          /\ Reassigned(r) => d.kind = "move"
      BY <1>1, <1>2, DecidedKinds
    <3> HIDE DEF d
    <3>3. sweep'.plan[r] = d
      BY <3>1 DEF d
    <3> QED BY <3>1, <3>2, <3>3 DEF Reassigned, Recognised, AssignedConnected
  <2>2. \A r \in Rows : Matched(r)' = Matched(r) /\ (Open(r)' <=> Open(r)) /\ (Backed(r)' <=> Backed(r))
    BY <1>1 DEF Matched, Open, Backed
  <2>3. ASSUME NEW r \in Rows, Open(r), row[r].accepted \in Accepted
        PROVE  Backed(r) \/ UrlOf[r] \in doubt
    BY <1>2, <2>3 DEF ConnInv, Safe
  <2>4. ASSUME NEW r \in Rows, NEW s \in Rows, kind(s) = "connected", UrlOf[s] = UrlOf[r], Open(r)
        PROVE  Safe(r)'
    <3>1. AssignedConnected(s) /\ Matched(s) = Matched(r)
      BY <2>1, <2>4, Twins
    <3>2. Matched(r) # {}
      BY <3>1 DEF AssignedConnected
    <3>3. CASE Reassigned(r)
      <4>1. kind(r) = "move"
        BY <2>1, <3>3
      <4>2. Moving(r)'
        BY <4>1 DEF Moving
      <4> QED BY <4>2 DEF Safe
    <3>4. CASE row[r].accepted \in Accepted
      <4>1. Backed(r) \/ UrlOf[r] \in doubt
        BY <2>3, <2>4, <3>4
      <4> QED BY <1>1, <2>2, <4>1 DEF Safe
    <3>5. CASE ~Reassigned(r) /\ row[r].accepted \notin Accepted
      <4>1. AssignedConnected(r)
        BY <2>4, <3>2, <3>5 DEF Reassigned
      <4>2. Backed(r)
        BY <4>1 DEF AssignedConnected, Backed, ConnInv, Matched
      <4> QED BY <2>2, <4>2 DEF Safe
    <3> QED BY <3>3, <3>4, <3>5
  <2>5. ASSUME NEW r \in Rows, UrlOf[r] \in sweep'.urls
        PROVE  PersonOf[r] \in net[a] \/ UrlOf[r] \in doubt
    <3>1. PICK s \in Rows : UrlOf[s] = UrlOf[r] /\ MayIntroduce(s, a)
      BY <1>4, <2>5
    <3>2. CASE Matched(s) # {}
      <4>1. a \in Matched(s)
        BY <3>1, <3>2 DEF MayIntroduce
      <4> QED BY <1>1, <3>1, <4>1, Twins DEF Matched, ConnInv
    <3>3. CASE Matched(s) = {}
      <4>1. Open(s) /\ row[s].accepted \in Accepted /\ row[s].sender \in {NoAccount, a}
        BY <3>1, <3>3 DEF MayIntroduce, Mismatch
      <4>2. Backed(s) \/ UrlOf[s] \in doubt
        BY <2>3, <4>1
      <4>3. PersonOf[s] \in net[a] \/ UrlOf[s] \in doubt
        BY <3>3, <4>1, <4>2 DEF Backed
      <4> QED BY <3>1, <4>3, Twins
    <3> QED BY <3>2, <3>3
  <2>6. \A r \in Rows : Open(r)' /\ row'[r].accepted \in Accepted => Safe(r)'
    BY <1>1, <2>2, <2>3 DEF Safe
  <2>7. \A r \in Rows : kind(r) \in {"move", "own"} => sweep'.plan[r].to \in Matched(r)'
    BY <2>1, <2>2
  <2>8. \A r, s \in Rows : kind(s) = "connected" /\ UrlOf[s] = UrlOf[r] /\ Open(r)' => Safe(r)'
    BY <2>2, <2>4
  <2>9. \A r \in Rows : UrlOf[r] \in sweep'.urls => PersonOf[r] \in net'[sweep'.acct] \/ UrlOf[r] \in doubt'
    BY <1>1, <2>5
  <2>10. \A b \in Accounts : conns'[b] \subseteq net'[b]
    BY <1>1 DEF ConnInv
  <2> QED BY <1>1, <2>6, <2>7, <2>8, <2>9, <2>10 DEF ConnInv
<1> QED
  BY <1>3, <1>4, MatchSteps

\* Writing an update keeps safe rows safe.
LEMMA ApplySafe ==
  ASSUME TypeInv, ConnInv, Apply
  PROVE  ConnInv'
<1>1. PICK r \in Rows :
        /\ sweep.plan[r] \in UpdateType /\ sweep.plan[r].kind # "none"
        /\ row' \in [Rows -> RowType]
        /\ \A s \in Rows : row'[s] = IF UrlOf[s] = UrlOf[r] THEN Written(s, sweep.plan[r])
                                     ELSE row[s]
        /\ sweep'.plan[r].kind = "none"
        /\ \A s \in Rows \ {r} : sweep'.plan[s] = sweep.plan[s]
        /\ sweep' = [pc |-> "apply", acct |-> sweep.acct, urls |-> sweep.urls,
                     hand |-> sweep.hand, open |-> sweep.open, plan |-> sweep'.plan]
  BY ApplySteps
<1>2. UNCHANGED <<conns, net, doubt>> /\ TypeOK
  BY ApplySteps DEF TypeInv
<1> DEFINE u == sweep.plan[r]
<1>3. \A s \in Rows : Matched(s)' = Matched(s)
  BY <1>2 DEF Matched
<1>4. ASSUME NEW s \in Rows
      PROVE  /\ Open(s)' => Open(s)
             /\ UrlOf[s] # UrlOf[r] => row'[s] = row[s]
             /\ UrlOf[s] = UrlOf[r] /\ u.kind \in {"move", "own"} => row'[s].sender = u.to
             /\ u.kind \notin {"move", "own"} => row'[s].sender = row[s].sender
             /\ u.kind \notin {"move", "own", "connected"} /\ row'[s].accepted \in Accepted
                  => row[s].accepted \in Accepted
  <2>1. CASE UrlOf[s] # UrlOf[r]
    BY <1>1, <2>1 DEF Open
  <2>2. CASE UrlOf[s] = UrlOf[r]
    <3>1. row'[s] = Written(s, u)
      BY <1>1, <2>2
    <3> QED BY <1>1, <1>2, <2>2, <3>1, WrittenRow DEF Open
  <2> QED BY <2>1, <2>2
<1> HIDE DEF u
<1>5. ASSUME NEW s \in Rows, UrlOf[s] = UrlOf[r], u.kind \in {"move", "own"}
      PROVE  Safe(s)'
  <2>1. u.to \in Matched(r) /\ Matched(r) = Matched(s)
    BY <1>5, Twins DEF ConnInv, u
  <2>2. row'[s].sender \in Accounts /\ PersonOf[s] \in net[row'[s].sender]
    BY <1>4, <1>5, <2>1 DEF Matched, ConnInv
  <2> QED BY <1>2, <2>2, NonesAssumption DEF Safe, Backed
<1>6. ASSUME NEW s \in Rows, Safe(s)
      PROVE  Safe(s)'
  <2>1. CASE UrlOf[s] = UrlOf[r] /\ u.kind \in {"move", "own"}
    BY <1>5, <2>1
  <2>2. CASE ~(UrlOf[s] = UrlOf[r] /\ u.kind \in {"move", "own"})
    <3>1. row'[s].sender = row[s].sender
      BY <1>4, <2>2
    <3>2. Backed(s) => Backed(s)'
      BY <1>2, <1>3, <3>1 DEF Backed
    <3>3. Moving(s) => Moving(s)'
      <4>1. ASSUME NEW t \in Rows, UrlOf[t] = UrlOf[s], sweep.plan[t].kind \in {"move", "own"}
            PROVE  sweep'.plan[t].kind \in {"move", "own"}
        BY <1>1, <2>2, <4>1 DEF u
      <4> QED BY <4>1 DEF Moving
    <3> QED BY <1>2, <1>6, <3>2, <3>3 DEF Safe
  <2> QED BY <2>1, <2>2
<1>7. ASSUME NEW s \in Rows, Open(s)', row'[s].accepted \in Accepted PROVE Safe(s)'
  <2>1. CASE Safe(s)
    BY <1>6, <2>1
  <2>2. CASE ~Safe(s)
    <3>1. Open(s) /\ row[s].accepted \notin Accepted
      BY <1>4, <1>7, <2>2 DEF ConnInv
    <3>2. UrlOf[s] = UrlOf[r] /\ u.kind \in {"move", "own", "connected"}
      BY <1>4, <1>7, <3>1
    <3>3. u.kind # "connected"
      BY <2>2, <3>1, <3>2 DEF ConnInv, u
    <3> QED BY <1>5, <3>2, <3>3
  <2> QED BY <2>1, <2>2
<1>8. ASSUME NEW s \in Rows, sweep'.plan[s].kind \in {"move", "own"}
      PROVE  sweep'.plan[s].to \in Matched(s)'
  <2>1. sweep'.plan[s] = sweep.plan[s]
    BY <1>1, <1>8
  <2> QED BY <1>3, <1>8, <2>1 DEF ConnInv
<1>9. ASSUME NEW s \in Rows, NEW t \in Rows, sweep'.plan[t].kind = "connected",
             UrlOf[t] = UrlOf[s], Open(s)'
      PROVE  Safe(s)'
  <2>1. sweep.plan[t].kind = "connected"
    BY <1>1, <1>9
  <2>2. Safe(s)
    BY <1>4, <1>9, <2>1 DEF ConnInv
  <2> QED BY <1>6, <2>2
<1>10. sweep'.pc = "apply" /\ sweep'.urls = sweep.urls /\ sweep'.acct = sweep.acct
  BY <1>1
<1> QED
  BY <1>2, <1>7, <1>8, <1>9, <1>10 DEF ConnInv

\* When all updates are written the backlog is known to the swept account.
LEMMA BacklogSafe ==
  ASSUME TypeInv, ConnInv, Applied
  PROVE  ConnInv'
<1> DEFINE a == sweep.acct
<1>1. /\ sweep.pc = "apply" /\ UNCHANGED <<row, conns, net, doubt>>
      /\ \A r \in Rows : sweep.plan[r].kind = "none"
      /\ sweep' = [sweep EXCEPT !.pc = "gate", !.urls = @ \union Backlog(a)]
  BY DEF Applied
<1>2. a \in Accounts
  BY <1>1 DEF TypeInv, Shaped
<1>3. /\ sweep'.pc = "gate" /\ sweep'.acct = a /\ sweep'.plan = sweep.plan
      /\ sweep'.urls = sweep.urls \union Backlog(a)
  BY <1>1 DEF TypeInv, TypeOK
<1>4. ASSUME NEW r \in Rows, UrlOf[r] \in Backlog(a) PROVE PersonOf[r] \in net[a] \/ UrlOf[r] \in doubt
  <2>1. PICK s \in Rows : /\ UrlOf[s] = UrlOf[r] /\ row[s].sender = a
                          /\ row[s].accepted \in Accepted /\ Open(s)
    BY <1>4 DEF Backlog
  <2>2. Backed(s) \/ UrlOf[s] \in doubt
    BY <1>1, <2>1 DEF ConnInv, Safe, Moving
  <2>3. PersonOf[s] \in net[a] \/ UrlOf[s] \in doubt
    BY <1>2, <2>1, <2>2, NonesAssumption DEF Backed
  <2> QED BY <2>1, <2>3, Twins
<1>5. \A r \in Rows : Safe(r)' <=> Safe(r)
  BY <1>1, <1>3 DEF Safe, Backed, Moving, Matched
<1>6. \A r \in Rows : Matched(r)' = Matched(r) /\ (Open(r)' <=> Open(r))
  BY <1>1 DEF Matched, Open
<1> QED
  BY <1>1, <1>3, <1>4, <1>5, <1>6 DEF ConnInv

\* A sweep that is cut short leaves the rows it has half written in doubt.
LEMMA CutSafe ==
  ASSUME TypeInv, ConnInv, Cut
  PROVE  ConnInv'
<1>1. /\ sweep' = NoSweep /\ UNCHANGED <<row, conns, net>> /\ doubt \subseteq doubt'
      /\ \A s \in Rows : sweep.plan[s].kind # "none" => UrlOf[s] \in doubt'
  BY DEF Cut
<1>2. /\ sweep'.pc = "idle" /\ sweep'.urls = {} /\ \A r \in Rows : sweep'.plan[r].kind = "none"
  BY <1>1, NoSweepType
<1>3. \A r \in Rows : Safe(r) => Safe(r)'
  BY <1>1 DEF Safe, Backed, Moving, Matched
<1> QED
  BY <1>1, <1>2, <1>3 DEF ConnInv, Open

LEMMA ConnNext == TypeInv /\ ConnInv /\ [Next]_vars => ConnInv'
<1> SUFFICES ASSUME TypeInv, ConnInv, [Next]_vars PROVE ConnInv'
  OBVIOUS
<1>a1. /\ row \in [Rows -> RowType] /\ conns \in [Accounts -> SUBSET Persons]
       /\ net \in [Accounts -> SUBSET Persons] /\ Shaped
  BY DEF TypeInv, TypeOK, RowType
<1>c1. sweep = [pc |-> sweep.pc, acct |-> sweep.acct, urls |-> sweep.urls, hand |-> sweep.hand,
               open |-> sweep.open, plan |-> sweep.plan]
  BY DEF TypeInv, TypeOK
\* A sweep that ends, or goes on to nothing it has to know.
<1>d1. ASSUME sweep'.pc # "send", \A r \in Rows : sweep'.plan[r].kind = "none",
              \A r \in Rows : sweep.plan[r].kind = "none",
              sweep'.urls = {} \/ (sweep'.urls \subseteq sweep.urls /\ sweep'.acct = sweep.acct),
              \A r \in Rows : Open(r)' => Open(r) /\ row'[r] = row[r],
              UNCHANGED <<conns, net, doubt>>
       PROVE  ConnInv'
  <2>1. \A r \in Rows : ~Moving(r) /\ Matched(r)' = Matched(r)
    BY <1>d1 DEF Moving, Matched
  <2>2. \A r \in Rows : Open(r)' => (Safe(r) => Safe(r)')
    BY <1>d1, <2>1 DEF Safe, Backed
  <2> QED BY <1>d1, <2>2 DEF ConnInv
<1>1. CASE \E p \in Persons, a \in Accounts : Accept(p, a)
  <2>1. PICK p \in Persons, a \in Accounts : Accept(p, a)
    BY <1>1
  <2>2. UNCHANGED <<row, conns, sweep, doubt>> /\ \A b \in Accounts : net[b] \subseteq net'[b]
    BY <1>a1, <2>1 DEF Accept
  <2>3. ASSUME NEW r \in Rows, NEW b \in Accounts \union {NoAccount}, b # NoAccount, PersonOf[r] \in net[b]
        PROVE  PersonOf[r] \in net'[b]
    BY <2>2, <2>3
  <2>4. \A r \in Rows : row[r].sender \in Accounts \union {NoAccount}
    BY <1>a1 DEF RowType
  <2>5. \A r \in Rows : Matched(r)' = Matched(r) /\ (Open(r)' <=> Open(r))
    BY <2>2 DEF Matched, Open
  <2>6. \A r \in Rows : Safe(r) => Safe(r)'
    BY <2>2, <2>3, <2>4, <2>5 DEF Safe, Backed, Moving
  <2>7. sweep.pc = "idle" => sweep.urls = {}
    BY <1>a1, NoSweepType DEF Shaped
  <2>8. sweep.pc = "idle" \/ sweep.acct \in Accounts
    BY <1>a1 DEF Shaped
  <2>9. \A r \in Rows : sweep.acct \in Accounts /\ PersonOf[r] \in net[sweep.acct] => PersonOf[r] \in net'[sweep.acct]
    BY <2>3, NonesAssumption
  <2>10. sweep.pc = "send" => sweep.hand \in Rows
    BY <1>a1 DEF Shaped
  <2>11. \A b \in Accounts : conns'[b] \subseteq net'[b]
    BY <2>2 DEF ConnInv
  <2>12. \A r \in Rows : UrlOf[r] \in sweep.urls => PersonOf[r] \in net'[sweep.acct] \/ UrlOf[r] \in doubt
    BY <2>7, <2>8, <2>9 DEF ConnInv
  <2>13. sweep.pc = "send" => PersonOf[sweep.hand] \in net'[sweep.acct] \/ UrlOf[sweep.hand] \in doubt
    BY <2>8, <2>9, <2>10 DEF ConnInv
  <2> QED BY <2>2, <2>5, <2>6, <2>11, <2>12, <2>13 DEF ConnInv
<1>2. CASE \E u \in Urls, introduced \in BOOLEAN : LocalCheck(u, introduced)
  <2>1. PICK u \in Urls, introduced \in BOOLEAN : LocalCheck(u, introduced)
    BY <1>2
  <2>2. \A r \in Rows : /\ row'[r].sender = row[r].sender /\ Open(r)' => Open(r)
                        /\ UrlOf[r] # u => row'[r] = row[r]
    BY <2>1, PostedRows DEF Open
  <2>3. UNCHANGED <<conns, net, sweep>> /\ doubt' = doubt \union {u}
    BY <2>1 DEF LocalCheck
  <2>4. \A r \in Rows : Matched(r)' = Matched(r) /\ row'[r].sender = row[r].sender
    BY <2>1, <2>3, PostedRows DEF Matched
  <2>5. \A r \in Rows : (Safe(r) => Safe(r)') /\ (UrlOf[r] = u => Safe(r)')
    BY <2>3, <2>4 DEF Safe, Backed, Moving
  <2>6. \A r \in Rows : Open(r)' => Open(r)
    BY <2>1, PostedRows DEF Open
  <2> QED BY <2>2, <2>3, <2>4, <2>5, <2>6 DEF ConnInv
<1>3. CASE \E a \in Accounts : OpenSession(a)
  <2>1. PICK a \in Accounts : OpenSession(a)
    BY <1>3
  <2>2. sweep' = [NoSweep EXCEPT !.pc = "fetch", !.acct = a] /\ UNCHANGED <<row, conns, net, doubt>>
        /\ sweep.pc = "idle"
    BY <2>1 DEF OpenSession
  <2>3. sweep'.pc = "fetch" /\ sweep'.urls = {} /\ sweep'.plan = NoSweep.plan
    BY <2>2 DEF NoSweep
  <2>4. \A r \in Rows : sweep'.plan[r].kind = "none" /\ sweep.plan[r].kind = "none"
    BY <1>a1, <2>2, <2>3, NoSweepType DEF Shaped
  <2> QED BY <1>d1, <2>2, <2>3, <2>4 DEF Open
<1>4. CASE \E a \in Accounts : \E fresh \in SUBSET net[a] : Fetch(a, fresh)
  <2>0. PICK a \in Accounts : \E fresh \in SUBSET net[a] : Fetch(a, fresh)
    BY <1>4
  <2>1. PICK fresh \in SUBSET net[a] : Fetch(a, fresh)
    BY <2>0
  <2>2. UNCHANGED <<row, net, doubt>> /\ conns' = [conns EXCEPT ![a] = @ \union fresh]
        /\ sweep' = [sweep EXCEPT !.pc = "match"] /\ sweep.pc = "fetch"
    BY <2>1 DEF Fetch
  <2>3. sweep'.pc = "match" /\ sweep'.urls = sweep.urls /\ sweep'.acct = sweep.acct
        /\ sweep'.plan = sweep.plan /\ \A r \in Rows : sweep.plan[r].kind = "none"
    BY <1>a1, <1>c1, <2>2 DEF Shaped
  <2>4. \A b \in Accounts : conns'[b] \subseteq net'[b] /\ conns[b] \subseteq conns'[b]
    BY <1>a1, <2>2 DEF ConnInv
  <2>5. \A r \in Rows : Matched(r) \subseteq Matched(r)' /\ (Open(r)' <=> Open(r))
    BY <2>2, <2>4 DEF Matched, Open
  <2>6. \A r \in Rows : Safe(r) => Safe(r)'
    BY <2>2, <2>3, <2>5 DEF Safe, Backed, Moving
  <2> QED BY <2>2, <2>3, <2>4, <2>5, <2>6 DEF ConnInv
<1>5. CASE SessionDead \/ Hold \/ SweepDone
  <2>1. sweep' = NoSweep /\ UNCHANGED <<row, conns, net, doubt>> /\ sweep.pc # "apply"
    BY <1>5 DEF SessionDead, Hold, SweepDone
  <2> QED BY <1>a1, <1>d1, <2>1, NoSweepType DEF Open, Shaped
<1>6. CASE Match
  BY <1>6, MatchSafe
<1>7. CASE Apply
  BY <1>7, ApplySafe
<1>8. CASE Applied
  BY <1>8, BacklogSafe
<1>9. CASE Gate
  <2>1. sweep' = [sweep EXCEPT !.pc = "intro", !.open = {r \in Rows : Open(r)}]
        /\ UNCHANGED <<row, conns, net, doubt>> /\ sweep.pc = "gate"
    BY <1>9 DEF Gate
  <2>2. sweep'.pc = "intro" /\ sweep'.urls = sweep.urls /\ sweep'.acct = sweep.acct
        /\ sweep'.plan = sweep.plan
    BY <1>c1, <2>1
  <2> QED BY <1>a1, <1>d1, <2>1, <2>2 DEF Open, Shaped
<1>10. CASE TakeUrl
  <2>1. PICK u \in sweep.urls :
          sweep' = LET rest == [sweep EXCEPT !.urls = @ \ {u}] IN
                   IF LeadOf(u) \in sweep.open /\ u \notin acted
                   THEN [rest EXCEPT !.pc = "send", !.hand = LeadOf(u)] ELSE rest
    BY <1>10 DEF TakeUrl
  <2>2. UNCHANGED <<row, conns, net, doubt>> /\ sweep.pc = "intro"
    BY <1>10 DEF TakeUrl
  <2>3. /\ sweep'.urls \subseteq sweep.urls /\ sweep'.acct = sweep.acct
        /\ sweep'.plan = sweep.plan
        /\ sweep'.pc = "send" => sweep'.hand = LeadOf(u)
    BY <1>c1, <2>1, <2>2
  <2>4. LeadOf(u) \in Rows /\ UrlOf[LeadOf(u)] = u
    BY <1>a1, LeadOfUrl DEF Shaped
  <2>5. PersonOf[LeadOf(u)] \in net[sweep.acct] \/ UrlOf[LeadOf(u)] \in doubt
    BY <2>4 DEF ConnInv
  <2>6. \A r \in Rows : (Safe(r)' <=> Safe(r)) /\ Matched(r)' = Matched(r) /\ (Open(r)' <=> Open(r))
    BY <2>2, <2>3 DEF Safe, Backed, Moving, Matched, Open
  <2> QED BY <2>2, <2>3, <2>5, <2>6 DEF ConnInv
<1>11. CASE Send \/ AlreadyMade
  <2>1. sweep' = [sweep EXCEPT !.pc = "stamp"] /\ UNCHANGED <<row, conns, net, doubt>>
        /\ sweep.pc = "send"
    BY <1>11 DEF Send, AlreadyMade
  <2>2. sweep'.pc = "stamp" /\ sweep'.urls = sweep.urls /\ sweep'.acct = sweep.acct
        /\ sweep'.plan = sweep.plan
    BY <1>c1, <2>1
  <2> QED BY <1>a1, <1>d1, <2>1, <2>2 DEF Open, Shaped
<1>12. CASE SendFails
  <2>1. sweep' = [sweep EXCEPT !.pc = "intro", !.hand = NoRow] /\ UNCHANGED <<conns, net, doubt>>
        /\ row' = [row EXCEPT ![sweep.hand].intro = "failed"] /\ sweep.pc = "send"
    BY <1>12 DEF SendFails
  <2>2. sweep'.pc = "intro" /\ sweep'.urls = sweep.urls /\ sweep'.acct = sweep.acct
        /\ sweep'.plan = sweep.plan
    BY <1>c1, <2>1
  <2>3. \A r \in Rows : Open(r)' => Open(r) /\ row'[r] = row[r]
    BY <1>a1, <2>1 DEF Open, RowType
  <2> QED BY <1>a1, <1>d1, <2>1, <2>2, <2>3 DEF Shaped
<1>13. CASE Stamp
  <2>1. sweep' = [sweep EXCEPT !.pc = "mark"] /\ UNCHANGED <<conns, net, doubt>>
        /\ row' = [row EXCEPT ![sweep.hand].intro = "made", ![sweep.hand].accepted = "connected"]
        /\ sweep.pc = "stamp"
    BY <1>13 DEF Stamp
  <2>2. sweep'.pc = "mark" /\ sweep'.urls = sweep.urls /\ sweep'.acct = sweep.acct
        /\ sweep'.plan = sweep.plan
    BY <1>c1, <2>1
  <2>3. \A r \in Rows : Open(r)' => Open(r) /\ row'[r] = row[r]
    BY <1>a1, <2>1 DEF Open, RowType
  <2> QED BY <1>a1, <1>d1, <2>1, <2>2, <2>3 DEF Shaped
<1>14. CASE Mark
  <2>1. sweep' = [sweep EXCEPT !.pc = "intro", !.hand = NoRow] /\ UNCHANGED <<row, conns, net, doubt>>
        /\ sweep.pc = "mark"
    BY <1>14 DEF Mark
  <2>2. sweep'.pc = "intro" /\ sweep'.urls = sweep.urls /\ sweep'.acct = sweep.acct
        /\ sweep'.plan = sweep.plan
    BY <1>c1, <2>1
  <2> QED BY <1>a1, <1>d1, <2>1, <2>2 DEF Open, Shaped
<1>15. CASE BrowserDies
  <2>1. sweep' = NoSweep /\ UNCHANGED <<conns, net, doubt>> /\ sweep.pc # "apply"
    BY <1>15 DEF BrowserDies
  <2>2. \A r \in Rows : Open(r)' => Open(r) /\ row'[r] = row[r]
    BY <1>15, <1>a1 DEF BrowserDies, Open, RowType
  <2> QED BY <1>a1, <1>d1, <2>1, <2>2, NoSweepType DEF Shaped
<1>16. CASE StoreFails \/ Crash
  BY <1>16, CutSafe DEF StoreFails, Crash
<1>17. CASE UNCHANGED <<row, conns, net, sweep, doubt>>
  BY <1>17 DEF ConnInv, Open, Safe, Backed, Moving, Matched
<1> QED
  BY <1>1, <1>2, <1>3, <1>4, <1>5, <1>6, <1>7, <1>8, <1>9, <1>10, <1>11, <1>12, <1>13, <1>14,
     <1>15, <1>16, <1>17 DEF Next, Park, Rearm, vars

\* Whatever rows change hands, name no sender or share a URL, an introduction comes from an
\* account that is connected, unless the acceptance rests on the sheet's word alone: under
\* no sender, posted by the operator, or half written.
THEOREM IntroducedByConnected == Spec => []IntroFromConnected
<1>1. Init => ConnInv
  <2> SUFFICES ASSUME Init PROVE ConnInv
    OBVIOUS
  <2>1. sweep.pc = "idle" /\ sweep.urls = {} /\ \A r \in Rows : sweep.plan[r].kind = "none"
    BY NoSweepType DEF Init
  <2>2. ASSUME NEW r \in Rows, row[r].accepted \in Accepted
        PROVE  Safe(r)
    <3>1. r \in Known /\ row[r].sender = SenderOf[r]
      BY <2>2 DEF Init, Accepted
    <3>2. CASE SenderOf[r] = NoAccount
      BY <3>1, <3>2 DEF Init, Safe
    <3>3. CASE SenderOf[r] # NoAccount
      BY <3>1, <3>3 DEF Init, Safe, Backed
    <3> QED BY <3>2, <3>3
  <2> QED BY <2>1, <2>2 DEF Init, ConnInv
<1>2. ConnInv => IntroFromConnected
  BY DEF ConnInv, IntroFromConnected
<1> QED
  BY <1>1, <1>2, TypeInit, TypeNext, ConnNext, PTL DEF Spec
=============================================================================
