----------------------------- MODULE Acceptance -----------------------------
(***************************************************************************)
(* How a campaign learns who accepted its invitations, and whom it then    *)
(* introduces.  A sweep opens one account, reads its recent connections    *)
(* into the campaign's table (runBulkCheck), decides for every invited row *)
(* of the sheet what to stamp and whether to introduce it                  *)
(* (computeBulkCheckUpdates), and introduces (runAutoIntros).  Rows name   *)
(* persons: one person may stand in several rows, under different senders, *)
(* and be connected to accounts other than the row's sender.               *)
(*                                                                         *)
(* Grain.  A matching reads the rows and decides; its updates are written  *)
(* one after the other, each to every row of its URL; an introduction and  *)
(* its stamp are two actions.  Between a read and the write that rests on  *)
(* it the operator may post what a check on his own machine found, and the *)
(* pod may die.  Sweeps of different accounts follow one another, as in    *)
(* one handleMonitor; CampaignTasks is about handlers that overlap.        *)
(*                                                                         *)
(* Scope.  Mode connect_and_introduce.  A connection read from LinkedIn    *)
(* carries every identity of its person, so a row matches when its person  *)
(* is connected; a row itself may carry only some identities, which is all *)
(* the search for duplicates has.  Declined and manually reviewed rows,    *)
(* which a sweep leaves alone, and the older labels of a status are not    *)
(* here.  A person, once connected, stays connected.                       *)
(***************************************************************************)
EXTENDS Integers, FiniteSets, FiniteSetsExt

CONSTANTS
    N,           \* rows, in the order of the sheet
    Persons, Accounts, Urls, Keys,
    PersonOf,    \* row -> person
    UrlOf,       \* row -> lead_url
    KeysOf,      \* row -> the strong identities it carries (leadIdentityKeys)
    SenderOf,    \* row -> the account it names, NoAccount when the sheet named none
    Invited,     \* rows whose Connection Request Status is "Connection Request Sent"
    Known,       \* rows the imported sheet already calls "Connected"
    MaxMishaps,  \* bound: pods that die, store calls that fail
    MaxPosted,   \* bound: URLs a check on the operator's machine is posted for
    NoAccount, NoRow

Rows == 1 .. N

ASSUME RowsAssumption == N \in Nat
ASSUME MapsAssumption ==
    /\ PersonOf \in [Rows -> Persons] /\ UrlOf \in [Rows -> Urls]
    /\ KeysOf \in [Rows -> SUBSET Keys] /\ SenderOf \in [Rows -> Accounts \union {NoAccount}]
    /\ Invited \subseteq Rows /\ Known \subseteq Rows
\* One URL and one identity name one person.
ASSUME IdentityAssumption ==
    \A r, s \in Rows : UrlOf[r] = UrlOf[s] \/ KeysOf[r] \cap KeysOf[s] # {}
                       => PersonOf[r] = PersonOf[s]
ASSUME NonesAssumption == /\ NoAccount \notin Accounts /\ NoRow \notin Rows
                          /\ MaxMishaps \in Nat /\ MaxPosted \in Nat

VARIABLES
    row,      \* leads: accepted status, introduction status, assigned_profile
    conns,    \* campaign_connections: account -> persons
    net,      \* LinkedIn: account -> persons it is connected to
    sweep,    \* the account being swept, and the locals of its handler
    armed,    \* the monitor task is pending, or its handler runs
    acted,    \* Redis cmp:sent:<id>:intro: URLs introduced
    sent,     \* LinkedIn: introductions sent on behalf of a row
    mishaps,  \* bound
    doubt     \* history: URLs whose acceptance no reading of the engine backs

vars == <<row, conns, net, sweep, armed, acted, sent, mishaps, doubt>>

\* "Already Connected" of the cross-sender branch and "Connected" read alike.
Accepted == {"connected", "already"}
Settled  == {"made", "failed", "skipped", "duplicate"}

\* What a matching decides about a row, and the sender that goes with it.
Kinds    == {"none", "move", "own", "connected", "duplicate", "pending"}
NoUpdate == [kind |-> "none", to |-> NoAccount]
NoPlan   == [r \in Rows |-> NoUpdate]
NoSweep  == [pc |-> "idle", acct |-> NoAccount, urls |-> {}, hand |-> NoRow, open |-> {},
             plan |-> NoPlan]

TypeOK ==
    /\ row \in [Rows -> [accepted: Accepted \union {"blank", "pending"},
                         intro: Settled \union {"open"}, sender: Accounts \union {NoAccount}]]
    /\ conns \in [Accounts -> SUBSET Persons]
    /\ net \in [Accounts -> SUBSET Persons]
    /\ sweep \in [pc: {"idle", "fetch", "match", "apply", "gate", "intro", "send", "stamp", "mark"},
                  acct: Accounts \union {NoAccount}, urls: SUBSET Urls,
                  hand: Rows \union {NoRow}, open: SUBSET Rows,
                  plan: [Rows -> [kind: Kinds, to: Accounts \union {NoAccount}]]]
    /\ armed \in BOOLEAN
    /\ acted \subseteq Urls
    /\ sent \in [Rows -> Nat]
    /\ mishaps \in 0 .. MaxMishaps
    /\ doubt \subseteq Urls

\* Some accounts know some persons before the campaign; a row the sheet calls
\* connected is known to the account it names, if it names one.
Init ==
    /\ row = [r \in Rows |-> [accepted |-> IF r \in Known THEN "connected" ELSE "blank",
                             intro |-> "open", sender |-> SenderOf[r]]]
    /\ conns = [a \in Accounts |-> {}]
    /\ net \in [Accounts -> SUBSET Persons]
    /\ \A r \in Known : SenderOf[r] # NoAccount => PersonOf[r] \in net[SenderOf[r]]
    /\ sweep = NoSweep
    /\ armed = TRUE
    /\ acted = {}
    /\ sent = [r \in Rows |-> 0]
    /\ mishaps = 0
    /\ doubt = {UrlOf[r] : r \in {s \in Known : SenderOf[s] = NoAccount}}

-----------------------------------------------------------------------------
(* What a sweep of account a decides about the rows.                       *)

Open(r) == row[r].intro = "open"

\* The campaign accounts the row's person is known to be connected to.
Matched(r) == {a \in Accounts : PersonOf[r] \in conns[a]}

\* Identities that have had their introduction, whatever came of it.
TerminalKeys == UNION {KeysOf[r] : r \in {s \in Rows : ~Open(s)}}

\* An account that is nobody's sender touches no row, unless no row names a sender.
IsSender(a) == \/ \E r \in Rows : row[r].sender = a
               \/ \A r \in Rows : row[r].sender = NoAccount

\* A row that names no sender is everybody's (rowSenderMismatch, _assignedConnected).
Mismatch(r, a) == row[r].sender \notin {NoAccount, a}

\* Mutant: the case of a row without sender is forgotten.
AssignedConnected_Named(r) == row[r].sender \in Matched(r)

AssignedConnected(r) == IF row[r].sender = NoAccount THEN Matched(r) # {}
                        ELSE row[r].sender \in Matched(r)

\* Mutant: any sweep may introduce a row whose sender is connected (before v2.79).
MayIntroduce_AnySweep(r, a) ==
    /\ Open(r)
    /\ IF Matched(r) # {} THEN AssignedConnected(r)
       ELSE row[r].accepted \in Accepted /\ ~Mismatch(r, a)

\* Mutant: the introduction status is not looked at before queueing.
MayIntroduce_Closed(r, a) ==
    IF Matched(r) # {} THEN AssignedConnected(r) /\ a \in Matched(r)
    ELSE row[r].accepted \in Accepted /\ ~Mismatch(r, a)

\* The table says a knows the person, or the sheet does and the row is not another's.
MayIntroduce(r, a) ==
    /\ Open(r)
    /\ IF Matched(r) # {} THEN AssignedConnected(r) /\ a \in Matched(r)
       ELSE row[r].accepted \in Accepted /\ ~Mismatch(r, a)

\* The first row of a person is queued, a later one that shares an identity is not.
Queue(a) ==
    LET queued[n \in 0 .. N] ==
          IF n = 0 THEN {}
          ELSE LET known == TerminalKeys \union UNION {KeysOf[r] : r \in queued[n - 1]}
               IN  IF MayIntroduce(n, a) /\ KeysOf[n] \cap known = {}
                   THEN queued[n - 1] \union {n} ELSE queued[n - 1]
    IN  queued[N]

Duplicate(r, a) == MayIntroduce(r, a) /\ r \notin Queue(a)

\* Other accounts than the sender know the person: the row changes hands, unstamped before.
\* (Its request status changes too, which nobody asks for once it counts as accepted.)
Reassigned(r) == /\ Open(r)
                 /\ Matched(r) # {} /\ ~AssignedConnected(r)
                 /\ row[r].accepted \notin Accepted

Recognised(r, a) == /\ Open(r)
                    /\ AssignedConnected(r)
                    /\ row[r].accepted \notin Accepted
                    /\ ~Duplicate(r, a)

StillPending(r, a) == /\ Matched(r) = {}
                      /\ r \in Invited
                      /\ ~Mismatch(r, a)
                      /\ row[r].accepted = "blank"
                      /\ Open(r)

\* The update of a row.  A sender is picked among the accounts that know the person:
\* the swept one for a row that changes hands, any for one that had none.
Decided(r, a, heir) ==
    CASE Reassigned(r)      -> [kind |-> "move", to |-> IF a \in Matched(r) THEN a ELSE heir]
      [] Duplicate(r, a)    -> [kind |-> "duplicate", to |-> NoAccount]
      [] Recognised(r, a)   -> IF r \in Invited THEN [kind |-> "connected", to |-> NoAccount]
                               ELSE [kind |-> "own", to |-> IF row[r].sender = NoAccount THEN heir
                                                            ELSE row[r].sender]
      [] StillPending(r, a) -> [kind |-> "pending", to |-> NoAccount]
      [] OTHER              -> NoUpdate

\* What a row looks like when an update has been written to it.
Written(s, u) ==
    CASE u.kind \in {"move", "own"} -> [row[s] EXCEPT !.accepted = "already", !.sender = u.to]
      [] u.kind = "connected"       -> [row[s] EXCEPT !.accepted = "connected"]
      [] u.kind = "pending"         -> [row[s] EXCEPT !.accepted = "pending"]
      [] u.kind = "duplicate"       -> [row[s] EXCEPT !.intro = "duplicate"]
      [] OTHER                      -> row[s]

-----------------------------------------------------------------------------
(* A sweep.                                                                *)

\* An invited person accepts.  Who invited the person of a row without sender is not known.
Accept(p, a) ==
    /\ p \notin net[a]
    /\ \E r \in Invited : PersonOf[r] = p /\ SenderOf[r] \in {a, NoAccount}
    /\ net' = [net EXCEPT ![a] = @ \union {p}]
    /\ UNCHANGED <<row, conns, sweep, armed, acted, sent, mishaps, doubt>>

\* syncLeadStatuses: a check on the operator's machine found a connection, perhaps introduced;
\* what it found fills the blanks of every row of the URL.
LocalCheck(u, introduced) ==
    /\ Cardinality(doubt \union {u}) <= MaxPosted
    /\ \E r \in Rows, a \in Accounts : UrlOf[r] = u /\ PersonOf[r] \in net[a]
    /\ row' = [r \in Rows |->
                 IF UrlOf[r] = u
                 THEN [row[r] EXCEPT !.accepted = IF @ = "blank" THEN "connected" ELSE @,
                                     !.intro = IF introduced /\ @ = "open" THEN "made" ELSE @]
                 ELSE row[r]]
    /\ row' # row
    /\ doubt' = doubt \union {u}
    /\ UNCHANGED <<conns, net, sweep, armed, acted, sent, mishaps>>

\* handleMonitor takes up an account and opens its browser.
OpenSession(a) ==
    /\ armed /\ sweep.pc = "idle"
    /\ sweep' = [NoSweep EXCEPT !.pc = "fetch", !.acct = a]
    /\ UNCHANGED <<row, conns, net, armed, acted, sent, mishaps, doubt>>

\* The most recent connections: some have aged off the list, a failed read has none.
Fetch(a, fresh) ==
    /\ sweep.pc = "fetch" /\ sweep.acct = a
    /\ fresh \subseteq net[a]
    /\ conns' = [conns EXCEPT ![a] = @ \union fresh]
    /\ sweep' = [sweep EXCEPT !.pc = "match"]
    /\ UNCHANGED <<row, net, armed, acted, sent, mishaps, doubt>>

\* sessionInvalid is thrown: the account is swept no further.
SessionDead ==
    /\ sweep.pc = "fetch"
    /\ sweep' = NoSweep
    /\ UNCHANGED <<row, conns, net, armed, acted, sent, mishaps, doubt>>

\* The rows are read, and what to write and whom to introduce is decided.
Match ==
    LET a == sweep.acct IN
    /\ sweep.pc = "match"
    /\ IF IsSender(a)
       THEN \E heir \in [Rows -> Accounts] :
              /\ \A r \in Rows : Matched(r) # {} => heir[r] \in Matched(r)
              /\ sweep' = [sweep EXCEPT !.pc = "apply",
                                        !.open = {r \in Rows : Open(r)},
                                        !.plan = [r \in Rows |-> Decided(r, a, heir[r])],
                                        !.urls = {UrlOf[r] : r \in Queue(a)}]
       ELSE sweep' = [sweep EXCEPT !.pc = "apply"]
    /\ UNCHANGED <<row, conns, net, armed, acted, sent, mishaps, doubt>>

\* The next update goes to every row that has its URL, whatever the row says by now.
Apply ==
    /\ sweep.pc = "apply"
    /\ \E r \in Rows :
        /\ sweep.plan[r].kind # "none"
        /\ \A s \in Rows : s < r => sweep.plan[s].kind = "none"
        /\ row' = [s \in Rows |-> IF UrlOf[s] = UrlOf[r] THEN Written(s, sweep.plan[r])
                                  ELSE row[s]]
        /\ sweep' = [sweep EXCEPT !.plan[r] = NoUpdate]
    /\ UNCHANGED <<conns, net, armed, acted, sent, mishaps, doubt>>

\* The older acceptances whose introduction never landed are added to the work.
Backlog(a) == {UrlOf[r] : r \in {s \in Rows : /\ row[s].sender = a
                                              /\ row[s].accepted \in Accepted
                                              /\ Open(s)}}

Applied ==
    /\ sweep.pc = "apply" /\ \A r \in Rows : sweep.plan[r].kind = "none"
    /\ sweep' = [sweep EXCEPT !.pc = "gate", !.urls = @ \union Backlog(sweep.acct)]
    /\ UNCHANGED <<row, conns, net, armed, acted, sent, mishaps, doubt>>

\* The account must know the primary; if so the rows are read again for the introductions.
Gate ==
    /\ sweep.pc = "gate"
    /\ sweep' = [sweep EXCEPT !.pc = "intro", !.open = {r \in Rows : Open(r)}]
    /\ UNCHANGED <<row, conns, net, armed, acted, sent, mishaps, doubt>>

\* If not, every slot stays open for the next sweep.
Hold ==
    /\ sweep.pc = "gate"
    /\ sweep' = NoSweep
    /\ UNCHANGED <<row, conns, net, armed, acted, sent, mishaps, doubt>>

\* The lead a URL stands for: the map keeps the last row that has it.
LeadOf(u) == Max({r \in Rows : UrlOf[r] = u})

\* The next URL, passed over when its slot was filled as read or its introduction on record.
TakeUrl ==
    /\ sweep.pc = "intro"
    /\ \E u \in sweep.urls :
        LET rest == [sweep EXCEPT !.urls = @ \ {u}] IN
        sweep' = IF LeadOf(u) \in sweep.open /\ u \notin acted
                 THEN [rest EXCEPT !.pc = "send", !.hand = LeadOf(u)] ELSE rest
    /\ UNCHANGED <<row, conns, net, armed, acted, sent, mishaps, doubt>>

SweepDone ==
    /\ sweep.pc = "intro" /\ sweep.urls = {}
    /\ sweep' = NoSweep
    /\ UNCHANGED <<row, conns, net, armed, acted, sent, mishaps, doubt>>

\* The message goes out.
Send ==
    /\ sweep.pc = "send"
    /\ sent' = [sent EXCEPT ![sweep.hand] = @ + 1]
    /\ sweep' = [sweep EXCEPT !.pc = "stamp"]
    /\ UNCHANGED <<row, conns, net, armed, acted, mishaps, doubt>>

\* LinkedIn leads into a thread that is there already: stamped like a success.
AlreadyMade ==
    /\ sweep.pc = "send"
    /\ sweep' = [sweep EXCEPT !.pc = "stamp"]
    /\ UNCHANGED <<row, conns, net, armed, acted, sent, mishaps, doubt>>

\* Mutant: an answer that got lost after the message went out is tried again.
SendFails_Retried ==
    /\ sweep.pc = "send"
    /\ sent' = [sent EXCEPT ![sweep.hand] = @ + 1]
    /\ UNCHANGED <<row, conns, net, sweep, armed, acted, mishaps, doubt>>

\* The send reports an error; the message may be out all the same.
SendFails ==
    /\ sweep.pc = "send"
    /\ row' = [row EXCEPT ![sweep.hand].intro = "failed"]
    /\ \E out \in {0, 1} : sent' = [sent EXCEPT ![sweep.hand] = @ + out]
    /\ sweep' = [sweep EXCEPT !.pc = "intro", !.hand = NoRow]
    /\ UNCHANGED <<conns, net, armed, acted, mishaps, doubt>>

\* Stamp of the row that was in hand, then of its URL; both prove the connection.
Stamp ==
    /\ sweep.pc = "stamp"
    /\ row' = [row EXCEPT ![sweep.hand].intro = "made", ![sweep.hand].accepted = "connected"]
    /\ sweep' = [sweep EXCEPT !.pc = "mark"]
    /\ UNCHANGED <<conns, net, armed, acted, sent, mishaps, doubt>>

Mark ==
    /\ sweep.pc = "mark"
    /\ acted' = acted \union {UrlOf[sweep.hand]}
    /\ sweep' = [sweep EXCEPT !.pc = "intro", !.hand = NoRow]
    /\ UNCHANGED <<row, conns, net, armed, sent, mishaps, doubt>>

\* Before a URL or during its send the browser dies: it and the rest are skipped.
BrowserDies ==
    /\ sweep.pc \in {"intro", "send"}
    /\ row' = [r \in Rows |->
                 IF \/ r = sweep.hand
                    \/ UrlOf[r] \in sweep.urls /\ r = LeadOf(UrlOf[r]) /\ r \in sweep.open
                 THEN [row[r] EXCEPT !.intro = "skipped"] ELSE row[r]]
    /\ sweep' = NoSweep
    /\ UNCHANGED <<conns, net, armed, acted, sent, mishaps, doubt>>

\* A sweep that ends between two of its updates leaves the rest unwritten.
Cut == /\ mishaps < MaxMishaps /\ mishaps' = mishaps + 1
       /\ sweep' = NoSweep
       /\ doubt' = doubt \union {UrlOf[r] : r \in {s \in Rows : sweep.plan[s].kind # "none"}}
       /\ UNCHANGED <<row, conns, net, acted, sent>>

\* A call of the store throws: the handler goes on with the next account.
StoreFails ==
    /\ sweep.pc \notin {"idle", "send"}
    /\ Cut
    /\ UNCHANGED armed

\* The pod dies.  Nobody puts a claimed monitor task back (reapOrphanedTasks).
Crash ==
    /\ armed
    /\ Cut
    /\ armed' = FALSE

\* The tail of handleMonitor does not arm the next sweep: automatic checks are off, or a stop.
Park ==
    /\ armed /\ sweep.pc = "idle"
    /\ armed' = FALSE
    /\ UNCHANGED <<row, conns, net, sweep, acted, sent, mishaps, doubt>>

\* armMonitorTask: the operator presses "Check now", or turns automatic checks on.
Rearm ==
    /\ ~armed
    /\ armed' = TRUE
    /\ UNCHANGED <<row, conns, net, sweep, acted, sent, mishaps, doubt>>

Next ==
    \/ \E p \in Persons, a \in Accounts : Accept(p, a)
    \/ \E u \in Urls, introduced \in BOOLEAN : LocalCheck(u, introduced)
    \/ \E a \in Accounts : OpenSession(a)
    \/ \E a \in Accounts : \E fresh \in SUBSET net[a] : Fetch(a, fresh)
    \/ SessionDead \/ Match \/ Apply \/ Applied \/ Gate \/ Hold
    \/ TakeUrl \/ SweepDone
    \/ Send \/ AlreadyMade \/ SendFails \/ Stamp \/ Mark
    \/ BrowserDies \/ StoreFails \/ Crash \/ Park \/ Rearm

Spec == Init /\ [][Next]_vars

\* A handler goes on.  As long as monitoring is armed it sweeps every account again and
\* again, now and then with a live session that lists every connection and with the
\* primary in reach.  Nobody has to re-arm it.
Step == Match \/ Apply \/ Applied \/ TakeUrl \/ SweepDone \/ Send \/ SendFails \/ Stamp \/ Mark
FairSpec ==
    /\ Spec
    /\ WF_vars(Step)
    /\ \A a \in Accounts : /\ SF_vars(OpenSession(a))
                          /\ SF_vars(Fetch(a, net[a]))
                          /\ SF_vars(Gate /\ sweep.acct = a)

-----------------------------------------------------------------------------
(* Properties.                                                             *)

\* A row is introduced once, and once more at most for every mishap between the
\* message and its stamp (campaign-autointro.js 308: stamp after send), whatever the
\* operator posts meanwhile.
RowIntroducedOnce == \A r \in Rows : sent[r] <= 1 + mishaps

\* The account that introduces is connected to the person: v2.79, "the intro fires from
\* a genuine 1st-degree browser", through reassignments and backlog.  Three kinds of URL
\* are charged to doubt: connected in the sheet under no sender (any sweep introduces
\* it), posted by the operator, or left half written by a mishap.
IntroFromConnected == sweep.pc = "send" => \/ PersonOf[sweep.hand] \in net[sweep.acct]
                                           \/ UrlOf[sweep.hand] \in doubt

\* The introduction status is one-shot (v2.71): a sweep overwrites no outcome that it
\* has read.  One it did not see, posted after its read, is lost; and the stamp of a
\* duplicate goes to every row of its URL, whatever the others say.
OutcomeKept ==
    [][\A r \in Rows : ~Open(r) /\ row'[r].intro # row[r].intro =>
         \/ r \in sweep.open
         \/ /\ row'[r].intro = "duplicate"
            /\ \E s \in sweep.open : s # r /\ UrlOf[s] = UrlOf[r]]_vars

\* Rows that no sweep takes up: one that names no sender, when those who know its person
\* are no row's sender; one that counts as accepted under an account that does not know
\* its person, because it was posted so or half written.
Stranded(r) ==
    \/ row[r].sender = NoAccount /\ \A a \in Accounts : PersonOf[r] \in net[a] => ~IsSender(a)
    \/ UrlOf[r] \in doubt /\ row[r].sender \notin Matched(r) \union {NoAccount}

\* Once some campaign account is connected to a person every row of the person gets its
\* outcome, whichever account it was assigned to, whatever sweeps fail; unless monitoring
\* stops, by the operator or for good with the pod that held the task, or the row is
\* beyond every sweep (Stranded).
RowsSettled ==
    \A p \in {PersonOf[r] : r \in Rows} :
        (\E a \in Accounts : p \in net[a])
        ~> (~armed \/ \A r \in Rows : PersonOf[r] = p => ~Open(r) \/ Stranded(r))
=============================================================================
