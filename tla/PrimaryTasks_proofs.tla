------------------------ MODULE PrimaryTasks_proofs ------------------------
(***************************************************************************)
(* What holds of the desktop's follow-ups for every number of tasks,       *)
(* attempts, requests, restarts and overlapping edits: the types, that a   *)
(* follow-up goes out once beyond the trouble that was counted, that no    *)
(* task is left in progress, and that a discarded one is not sent.         *)
(*                                                                         *)
(* TypeInv adds to the types where the runner has a task in hand and an    *)
(* edit open.  BudgetInv, CleanInv and DroppedInv say what the file and    *)
(* the open edits, which may each overwrite it, have in common.            *)
(***************************************************************************)
EXTENDS PrimaryTasks, TLAPS

-----------------------------------------------------------------------------
(* Types.                                                                  *)

RunnerType == [pc: {"idle", "launch", "work", "claim", "send", "mark", "marking"},
               batch: [Tasks -> Nat \union {Absent}], browser: Outcomes \ {"held"},
               hand: Tasks \union {NoTask}, outcome: Outcomes]
BoardType  == [act: {"none", "discard", "restore", "send", "retry"}, targets: SUBSET Tasks,
               undo: [Tasks -> Statuses]]

Editing(w) == edit[w] # NoEdit

\* The runner has a task of its batch in hand from its claim to its mark, and an edit open
\* while it claims or marks; an undo makes a task what it can be before a discard.
ShapeInv ==
    /\ runner.pc \in {"idle", "launch", "work"} => runner.hand = NoTask
    /\ runner.pc \notin {"idle", "launch", "work"} => runner.hand \in Batch
    /\ Editing("runner") <=> runner.pc \in {"claim", "marking"}
    /\ runner.pc \notin {"mark", "marking"} => runner.outcome = "ok"
    /\ \A t \in Tasks : board.undo[t] \in {"none", "pending", "failed"}

TypeInv == TypeOK /\ ShapeInv

\* A list is not "no list", unless there are no tasks at all.
LEMMA ListIsEdit == ASSUME NEW t \in Tasks, NEW list \in [Tasks -> Entry] PROVE list # NoEdit
<1>1. DOMAIN list = Tasks
  OBVIOUS
<1>2. DOMAIN NoEdit = {}
  BY DEF NoEdit
<1> QED
  BY <1>1, <1>2

\* The edits of the file yield lists of entries.
LEMMA ListsOfEntries ==
  ASSUME TypeInv
  PROVE  /\ \A t \in Tasks, s \in Statuses, n \in Nat, b \in BOOLEAN : Marked(t, s, n, b) \in [Tasks -> Entry]
         /\ \A s \in Statuses, ts \in SUBSET Tasks : Are(s, ts) \in [Tasks -> Entry]
         /\ \A t \in Batch, o \in Outcomes : Settled(t, o) \in [Tasks -> Entry]
<1>0. file \in [Tasks -> Entry] /\ runner \in RunnerType
  BY DEF TypeInv, TypeOK, RunnerType
<1>1. \A t \in Tasks, s \in Statuses, n \in Nat, b \in BOOLEAN : Marked(t, s, n, b) \in [Tasks -> Entry]
  BY <1>0 DEF Marked, Entry
<1>2. \A s \in Statuses, ts \in SUBSET Tasks : Are(s, ts) \in [Tasks -> Entry]
  BY <1>0 DEF Are, Entry
<1>3. ASSUME NEW t \in Batch, NEW o \in Outcomes PROVE Settled(t, o) \in [Tasks -> Entry]
  <2>1. t \in Tasks /\ runner.batch[t] \in Nat /\ runner.batch[t] + 1 \in Nat
    <3>1. runner.batch \in [Tasks -> Nat \union {Absent}]
      BY <1>0 DEF RunnerType
    <3>2. t \in Tasks /\ runner.batch[t] # Absent
      BY DEF Batch
    <3>3. runner.batch[t] \in Nat
      BY <3>1, <3>2
    <3>4. runner.batch[t] + 1 \in Nat
      <4> DEFINE n == runner.batch[t]
      <4>1. n \in Nat
        BY <3>3
      <4> HIDE DEF n
      <4>2. n + 1 \in Nat
        BY <4>1
      <4> QED
        BY <4>2 DEF n
    <3> QED
      BY <3>2, <3>3, <3>4
  <2>2. CASE file[t].status = "none"
    BY <1>0, <2>2 DEF Settled
  <2>3. CASE file[t].status # "none" /\ o = "ok"
    BY <1>0, <2>1, <2>3 DEF Settled, Entry, Statuses
  <2>4. CASE file[t].status # "none" /\ o = "held"
    BY <1>0, <2>1, <2>4 DEF Settled, Entry, Statuses
  <2>5. CASE file[t].status # "none" /\ o = "signed-out"
    BY <1>1, <2>1, <2>5 DEF Settled, Statuses
  <2>6. CASE file[t].status # "none" /\ o = "error"
    BY <1>1, <2>1, <2>6 DEF Settled, Statuses
  <2> QED
    BY <2>2, <2>3, <2>4, <2>5, <2>6 DEF Outcomes
<1> QED
  BY <1>1, <1>2, <1>3

\* What a load, a save and a failed save leave.
FileType == /\ file \in [Tasks -> Entry]
            /\ edit \in [Writers -> [Tasks -> Entry] \union {NoEdit}]

LEMMA LoadStep ==
  ASSUME TypeInv, NEW w \in Writers, NEW list \in [Tasks -> Entry], NEW slipped \in BOOLEAN,
         LoadAlso(w, list, slipped), file' = file
  PROVE  /\ FileType'
         /\ edit' = [edit EXCEPT ![w] = list] /\ ~Editing(w)
         /\ \A v \in Writers \ {w} : edit'[v] = edit[v]
         /\ edit'[w] = list
         /\ slips' \in Nat /\ slips' >= slips /\ slips' + mishaps <= MaxTrouble
         /\ (slipped \/ Overlap) => slips' = slips + 1
<1> QED
  BY BoundsAssumption DEF TypeInv, TypeOK, FileType, LoadAlso, Slip, MayGoWrong, Editing

LEMMA SaveStep ==
  ASSUME TypeInv, NEW w \in Writers, Save(w)
  PROVE  /\ FileType' /\ file' = edit[w] /\ edit' = [edit EXCEPT ![w] = NoEdit] /\ Editing(w)
         /\ \A v \in Writers \ {w} : edit'[v] = edit[v]
         /\ edit'[w] = NoEdit
  BY DEF TypeInv, TypeOK, FileType, Save, Editing

LEMMA SaveFailsStep ==
  ASSUME TypeInv, NEW w \in Writers, SaveFails(w), file' = file
  PROVE  /\ FileType' /\ edit' = [edit EXCEPT ![w] = NoEdit] /\ Editing(w)
         /\ \A v \in Writers \ {w} : edit'[v] = edit[v]
         /\ edit'[w] = NoEdit
         /\ mishaps' = mishaps + 1 /\ mishaps' \in Nat /\ mishaps' + slips <= MaxTrouble
  BY BoundsAssumption DEF TypeInv, TypeOK, FileType, SaveFails, MayGoWrong, Editing

\* Nothing has happened at the start.
LEMMA TypeInit == Init => TypeInv
<1> SUFFICES ASSUME Init PROVE TypeInv
  OBVIOUS
<1>f. file \in [Tasks -> Entry]
  BY DEF Init, Entry, Statuses
<1>e. edit \in [Writers -> [Tasks -> Entry] \union {NoEdit}]
  BY DEF Init
<1>c. /\ campaign \in BOOLEAN /\ replied \subseteq Tasks /\ dropped \subseteq Tasks
      /\ sent \in [Tasks -> Nat]
  BY DEF Init
<1>1. /\ mishaps \in Nat /\ slips \in Nat /\ mishaps + slips <= MaxTrouble
      /\ ops \in 0 .. MaxOps
  BY BoundsAssumption DEF Init
<1>2. runner \in RunnerType
  BY DEF Init, IdleRunner, NoBatch, RunnerType, Outcomes
<1>3. board \in BoardType
  BY DEF Init, IdleBoard, BoardType, Statuses
<1>4. ShapeInv
  BY DEF Init, ShapeInv, IdleRunner, IdleBoard, Editing, Writers
<1> QED
  BY <1>f, <1>e, <1>c, <1>1, <1>2, <1>3, <1>4 DEF TypeInv, TypeOK, RunnerType, BoardType

\* The runner's steps keep its shape.
RunnerOK == /\ runner \in RunnerType
            /\ runner.pc \in {"idle", "launch", "work"} => runner.hand = NoTask
            /\ runner.pc \notin {"idle", "launch", "work"} => runner.hand \in Batch
            /\ runner.pc \notin {"mark", "marking"} => runner.outcome = "ok"
BoardOK  == /\ board \in BoardType
            /\ \A t \in Tasks : board.undo[t] \in {"none", "pending", "failed"}
CountsOK == /\ campaign \in BOOLEAN /\ replied \subseteq Tasks /\ dropped \subseteq Tasks
            /\ sent \in [Tasks -> Nat]
            /\ mishaps \in Nat /\ slips \in Nat /\ mishaps + slips <= MaxTrouble
            /\ ops \in 0 .. MaxOps
EditsOK  == FileType /\ (Editing("runner") <=> runner.pc \in {"claim", "marking"})

LEMMA TypeParts == TypeInv <=> RunnerOK /\ BoardOK /\ CountsOK /\ EditsOK
  BY DEF TypeInv, TypeOK, ShapeInv, RunnerOK, BoardOK, CountsOK, EditsOK, FileType, RunnerType, BoardType

LEMMA RunnerNext == TypeInv /\ [Next]_vars => RunnerOK'
<1> SUFFICES ASSUME TypeInv, [Next]_vars PROVE RunnerOK'
  OBVIOUS
<1>0. RunnerOK /\ file \in [Tasks -> Entry]
  BY TypeParts DEF EditsOK, FileType
<1>u. ASSUME runner' = runner PROVE RunnerOK'
  BY <1>0, <1>u DEF RunnerOK, Batch
<1>i. ASSUME runner' = IdleRunner PROVE RunnerOK'
  BY <1>i DEF RunnerOK, RunnerType, IdleRunner, NoBatch, Batch, Outcomes
<1> USE DEF RunnerOK, RunnerType, Batch
<1>1. CASE Tick
  <2>1. PICK due \in SUBSET {t \in Tasks : file[t].status = "pending"} :
          runner' = [IdleRunner EXCEPT !.pc = "launch",
                     !.batch = [t \in Tasks |-> IF t \in due THEN file[t].attempts ELSE Absent]]
    BY <1>1 DEF Tick
  <2>2. [t \in Tasks |-> IF t \in due THEN file[t].attempts ELSE Absent] \in [Tasks -> Nat \union {Absent}]
    BY <1>0 DEF Entry
  <2> QED
    BY <2>1, <2>2 DEF IdleRunner, Outcomes
<1>2. CASE Defer \/ CloseBrowser \/ Restart
  BY <1>2, <1>i DEF Defer, CloseBrowser, Restart
<1>3. ASSUME NEW result \in {"ok", "error", "signed-out"}, Launch(result) PROVE RunnerOK'
  BY <1>0, <1>3 DEF Launch, Outcomes
<1>4. ASSUME NEW t \in Tasks, Claim(t) PROVE RunnerOK'
  BY <1>0, <1>4 DEF Claim
<1>5. ASSUME NEW t \in Tasks, SettleUnsent(t) PROVE RunnerOK'
  BY <1>0, <1>5 DEF SettleUnsent
<1>6. CASE ClaimSaved \/ ClaimFails \/ Hold \/ Send \/ SendUnconfirmed \/ Mark
  BY <1>0, <1>6 DEF ClaimSaved, ClaimFails, Hold, Send, SendUnconfirmed, Mark, Outcomes
<1>7. ASSUME NEW reason \in {"error", "signed-out"}, SendFails(reason) PROVE RunnerOK'
  BY <1>0, <1>7 DEF SendFails, Outcomes
<1>8. CASE MarkSaved \/ MarkFails
  <2>1. runner' = Onward
    BY <1>8 DEF MarkSaved, MarkFails
  <2> QED
    BY <1>0, <2>1 DEF Onward, Outcomes
<1>9. CASE \/ StartCampaign \/ EndCampaign \/ (\E t \in Tasks : Enqueue(t)) \/ EnqueueSaved \/ EnqueueFails
           \/ Board \/ (\E t \in Tasks : LeadReplies(t)) \/ UNCHANGED vars
  BY <1>9, <1>u DEF StartCampaign, EndCampaign, Enqueue, EnqueueSaved, EnqueueFails, Board, Discard,
     Restore, Retry, SendHeld, Revive, RequestSaved, ReviveSaved, RequestFails, LeadReplies, vars
<1> QED
  BY <1>1, <1>2, <1>3, <1>4, <1>5, <1>6, <1>7, <1>8, <1>9 DEF Next, Runner

LEMMA BoardNext == TypeInv /\ [Next]_vars => BoardOK'
<1> SUFFICES ASSUME TypeInv, [Next]_vars PROVE BoardOK'
  OBVIOUS
<1>0. BoardOK
  BY TypeParts
<1>u. ASSUME board' = board PROVE BoardOK'
  BY <1>0, <1>u DEF BoardOK
<1>r. ASSUME NEW act \in {"discard", "restore", "send", "retry"}, NEW targets \in SUBSET Tasks,
             Request(act, targets)
      PROVE  BoardOK'
  BY <1>0, <1>r DEF BoardOK, BoardType, Request
<1>1. ASSUME NEW targets \in SUBSET Tasks, Discard(targets) PROVE BoardOK'
  BY <1>1, <1>r DEF Discard
<1>2. CASE Restore
  BY <1>2, <1>r DEF Restore
<1>3. CASE Retry
  BY <1>3, <1>r DEF Retry
<1>4. ASSUME NEW t \in Tasks, SendHeld(t) PROVE BoardOK'
  BY <1>4, <1>r DEF SendHeld
<1>5. ASSUME NEW t \in Tasks, Revive(t) PROVE BoardOK'
  BY <1>0, <1>5 DEF Revive, BoardOK, BoardType
<1>6. CASE RequestSaved
  <2> DEFINE undo == [t \in Tasks |-> IF t \notin board.targets THEN "none"
                                      ELSE IF edit["board"][t].parked THEN "pending" ELSE "failed"]
  <2>1. undo \in [Tasks -> {"none", "pending", "failed"}]
    OBVIOUS
  <2>2. board' = [act |-> "none", targets |-> {}, undo |-> undo] \/
        board' = [act |-> "none", targets |-> {}, undo |-> board.undo]
    BY <1>6 DEF RequestSaved
  <2> QED
    BY <1>0, <2>1, <2>2 DEF BoardOK, BoardType, Statuses
<1>7. CASE ReviveSaved
  BY <1>0, <1>7 DEF ReviveSaved, BoardOK, BoardType
<1>8. CASE RequestFails \/ Restart
  BY <1>0, <1>8 DEF RequestFails, Restart, BoardOK, BoardType
<1>9. CASE \/ StartCampaign \/ EndCampaign \/ (\E t \in Tasks : Enqueue(t)) \/ EnqueueSaved \/ EnqueueFails
           \/ Runner \/ (\E t \in Tasks : LeadReplies(t)) \/ UNCHANGED vars
  BY <1>9, <1>u DEF StartCampaign, EndCampaign, Enqueue, EnqueueSaved, EnqueueFails, Runner, Tick, Defer,
     Launch, Claim, SettleUnsent, ClaimSaved, ClaimFails, Hold, Send, SendUnconfirmed, SendFails, Mark,
     MarkSaved, MarkFails, CloseBrowser, LeadReplies, vars
<1> QED
  BY <1>1, <1>2, <1>3, <1>4, <1>5, <1>6, <1>7, <1>8, <1>9 DEF Next, Board

LEMMA CountsNext == TypeInv /\ [Next]_vars => CountsOK'
<1> SUFFICES ASSUME TypeInv, [Next]_vars PROVE CountsOK'
  OBVIOUS
<1>0. CountsOK /\ board.targets \subseteq Tasks
  BY TypeParts DEF BoardOK, BoardType
<1>h. runner.pc = "send" => runner.hand \in Tasks
  BY TypeParts DEF RunnerOK, Batch
<1>1. campaign' \in BOOLEAN /\ replied' \subseteq Tasks
  BY <1>0 DEF CountsOK, Next, StartCampaign, EndCampaign, Enqueue, EnqueueSaved, EnqueueFails, Runner,
     Tick, Defer, Launch, Claim, SettleUnsent, ClaimSaved, ClaimFails, Hold, Send, SendUnconfirmed,
     SendFails, Mark, MarkSaved, MarkFails, CloseBrowser, Board, Discard, Restore, Retry, SendHeld,
     Revive, RequestSaved, ReviveSaved, RequestFails, LeadReplies, Restart, vars
<1>2. dropped' \subseteq Tasks
  BY <1>0 DEF CountsOK, Next, StartCampaign, EndCampaign, Enqueue, EnqueueSaved, EnqueueFails, Runner,
     Tick, Defer, Launch, Claim, SettleUnsent, ClaimSaved, ClaimFails, Hold, Send, SendUnconfirmed,
     SendFails, Mark, MarkSaved, MarkFails, CloseBrowser, Board, Discard, Restore, Retry, SendHeld,
     Revive, RequestSaved, ReviveSaved, RequestFails, LeadReplies, Restart, vars
<1>3. sent' \in [Tasks -> Nat]
  <2>1. CASE Send \/ SendUnconfirmed
    BY <1>0, <1>h, <2>1 DEF CountsOK, Send, SendUnconfirmed
  <2>2. CASE ~(Send \/ SendUnconfirmed)
    <3>1. sent' = sent
      BY <2>2 DEF Next, StartCampaign, EndCampaign, Enqueue, EnqueueSaved, EnqueueFails, Runner,
         Tick, Defer, Launch, Claim, SettleUnsent, ClaimSaved, ClaimFails, Hold,
         SendFails, Mark, MarkSaved, MarkFails, CloseBrowser, Board, Discard, Restore, Retry, SendHeld,
         Revive, RequestSaved, ReviveSaved, RequestFails, LeadReplies, Restart, vars
    <3> QED
      BY <1>0, <3>1 DEF CountsOK
  <2> QED
    BY <2>1, <2>2
<1>4. mishaps' \in Nat /\ slips' \in Nat /\ mishaps' + slips' <= MaxTrouble
  <2>1. \/ UNCHANGED <<mishaps, slips>>
        \/ MayGoWrong /\ mishaps' = mishaps + 1 /\ slips' = slips
        \/ mishaps' = mishaps /\ \E b \in BOOLEAN : Slip(b)
    BY DEF Next, StartCampaign, EndCampaign, Enqueue, EnqueueSaved, EnqueueFails, Runner,
         Tick, Defer, Launch, Claim, SettleUnsent, ClaimSaved, ClaimFails, Hold, Send, SendUnconfirmed,
         SendFails, Mark, MarkSaved, MarkFails, CloseBrowser, Board, Discard, Restore, Retry, SendHeld,
         Revive, RequestSaved, ReviveSaved, RequestFails, LeadReplies, Restart, vars, bounds,
         Load, LoadAlso, SaveFails, Overlap, Stuck
  <2> QED
    BY <1>0, <2>1, BoundsAssumption DEF CountsOK, MayGoWrong, Slip
<1>5. ops' \in 0 .. MaxOps
  <2>1. ops' = ops \/ \E act \in {"discard", "restore", "send", "retry"}, ts \in SUBSET Tasks : Request(act, ts)
    BY DEF Next, StartCampaign, EndCampaign, Enqueue, EnqueueSaved, EnqueueFails, Runner,
         Tick, Defer, Launch, Claim, SettleUnsent, ClaimSaved, ClaimFails, Hold, Send, SendUnconfirmed,
         SendFails, Mark, MarkSaved, MarkFails, CloseBrowser, Board, Discard, Restore, Retry, SendHeld,
         Revive, RequestSaved, ReviveSaved, RequestFails, LeadReplies, Restart, vars, bounds
  <2>2. CASE ops' = ops
    BY <1>0, <2>2 DEF CountsOK
  <2>3. CASE ops < MaxOps /\ ops' = ops + 1
    BY <1>0, <2>3, BoundsAssumption DEF CountsOK
  <2> QED
    BY <2>1, <2>2, <2>3 DEF Request
<1> QED
  BY <1>1, <1>2, <1>3, <1>4, <1>5 DEF CountsOK

\* The steps that touch the file or an open edit: a load, a save, a failed save, a restart.
LEMMA Loads ==
  ASSUME TypeInv
  PROVE  /\ \A t \in Tasks : Enqueue(t) =>
              LoadAlso("campaign", Marked(t, "pending", 0, FALSE), FALSE)
         /\ \A t \in Tasks : Claim(t) =>
              LoadAlso("runner", IF file[t].status = "none" THEN file
                                 ELSE [file EXCEPT ![t].status = "in_progress"], FALSE)
         /\ \A t \in Tasks : SettleUnsent(t) => LoadAlso("runner", Settled(t, runner.browser), FALSE)
         /\ Mark => LoadAlso("runner", Settled(runner.hand, runner.outcome), FALSE)
  BY DEF Enqueue, Claim, SettleUnsent, Mark, Load

\* What the runner marks is a list of entries.
LEMMA RunnerLists ==
  ASSUME TypeInv
  PROVE  /\ \A t \in Tasks : (IF file[t].status = "none" THEN file
                              ELSE [file EXCEPT ![t].status = "in_progress"]) \in [Tasks -> Entry]
         /\ \A t \in Batch : Settled(t, runner.browser) \in [Tasks -> Entry]
         /\ runner.hand \in Batch => Settled(runner.hand, runner.outcome) \in [Tasks -> Entry]
<1>0. file \in [Tasks -> Entry] /\ runner \in RunnerType
  BY DEF TypeInv, TypeOK, RunnerType
<1>1. \A t \in Tasks : [file EXCEPT ![t].status = "in_progress"] \in [Tasks -> Entry]
  BY <1>0 DEF Entry, Statuses
<1>2. runner.browser \in Outcomes /\ runner.outcome \in Outcomes
  BY <1>0 DEF RunnerType
<1> QED
  BY <1>0, <1>1, <1>2, ListsOfEntries

\* So is what the board and the campaign save.
LEMMA BoardLists ==
  ASSUME TypeInv
  PROVE  /\ \A ts \in SUBSET Tasks : [t \in Tasks |-> IF t \in ts THEN [file[t] EXCEPT !.status = board.undo[t]]
                                                     ELSE file[t]] \in [Tasks -> Entry]
         /\ \A t \in Tasks : Marked(t, "pending", 0, file[t].parked) \in [Tasks -> Entry]
         /\ \A t \in Tasks : Marked(t, "pending", 0, FALSE) \in [Tasks -> Entry]
         /\ file \in [Tasks -> Entry]
<1>0. file \in [Tasks -> Entry] /\ board \in BoardType
  BY DEF TypeInv, TypeOK, BoardType
<1>1. \A t \in Tasks : [file[t] EXCEPT !.status = board.undo[t]] \in Entry
  BY <1>0 DEF BoardType, Entry
<1>2. \A t \in Tasks : file[t].parked \in BOOLEAN
  BY <1>0 DEF Entry
<1> QED
  BY <1>0, <1>1, <1>2, ListsOfEntries DEF Statuses

LEMMA EditsNext == TypeInv /\ [Next]_vars => EditsOK'
<1> SUFFICES ASSUME TypeInv, [Next]_vars PROVE EditsOK'
  OBVIOUS
<1>0. EditsOK /\ FileType /\ (Editing("runner") <=> runner.pc \in {"claim", "marking"})
  BY TypeParts DEF EditsOK
<1>w. "runner" \in Writers /\ "campaign" \in Writers /\ "board" \in Writers
  BY DEF Writers
<1>u. ASSUME UNCHANGED <<file, edit>>,
             runner'.pc \in {"claim", "marking"} <=> runner.pc \in {"claim", "marking"}
      PROVE  EditsOK'
  BY <1>0, <1>u DEF EditsOK, FileType, Editing
\* A writer other than the runner: the runner stays where it is.
<1>l. ASSUME NEW w \in Writers \ {"runner"}, NEW list \in [Tasks -> Entry], NEW b \in BOOLEAN,
             LoadAlso(w, list, b), file' = file, runner' = runner
      PROVE  EditsOK'
  BY <1>0, <1>l, <1>w, LoadStep DEF EditsOK, Editing
<1>s. ASSUME NEW w \in Writers \ {"runner"}, Save(w) \/ (SaveFails(w) /\ file' = file), runner' = runner
      PROVE  EditsOK'
  BY <1>0, <1>s, <1>w, SaveStep, SaveFailsStep DEF EditsOK, Editing
<1>m. ASSUME NEW list \in [Tasks -> Entry], NEW t \in Tasks,
             LoadAlso("runner", list, FALSE), file' = file, runner'.pc \in {"claim", "marking"}
      PROVE  EditsOK'
  <2>1. edit'["runner"] = list /\ FileType'
    BY <1>m, <1>w, LoadStep
  <2> QED
    BY <1>m, <2>1, ListIsEdit DEF EditsOK, Editing
<1>n. ASSUME Save("runner") \/ (SaveFails("runner") /\ file' = file),
             runner'.pc \notin {"claim", "marking"}
      PROVE  EditsOK'
  BY <1>n, <1>w, SaveStep, SaveFailsStep DEF EditsOK, Editing
<1>r. runner \in RunnerType /\ (runner.pc \in {"mark", "marking", "claim", "send"} => runner.hand \in Batch)
  BY TypeParts DEF RunnerOK
<1>b. Batch \subseteq Tasks
  BY DEF Batch
<1>1. ASSUME NEW t \in Tasks, Enqueue(t) PROVE EditsOK'
  BY <1>1, <1>l, <1>w, BoardLists DEF Enqueue, Load
<1>2. CASE EnqueueSaved \/ EnqueueFails
  BY <1>2, <1>s, <1>w DEF EnqueueSaved, EnqueueFails
<1>3. ASSUME NEW t \in Tasks, Claim(t) PROVE EditsOK'
  <2>1. runner'.pc = "claim" /\ file' = file
    BY <1>r, <1>3 DEF Claim, RunnerType
  <2> QED
    BY <1>3, <2>1, <1>m, Loads, RunnerLists
<1>4. ASSUME NEW t \in Tasks, SettleUnsent(t) PROVE EditsOK'
  <2>1. runner'.pc = "marking" /\ file' = file /\ t \in Batch
    BY <1>r, <1>4 DEF SettleUnsent, RunnerType
  <2> QED
    BY <1>4, <2>1, <1>m, Loads, RunnerLists
<1>5. CASE Mark
  <2>1. runner'.pc = "marking" /\ file' = file /\ runner.hand \in Batch
    BY <1>r, <1>5 DEF Mark, RunnerType
  <2> QED
    BY <1>5, <2>1, <1>m, <1>b, Loads, RunnerLists
<1>6. CASE ClaimSaved \/ ClaimFails
  <2>1. runner'.pc \in {"send", "mark"}
    BY <1>r, <1>6 DEF ClaimSaved, ClaimFails, RunnerType
  <2> QED
    BY <1>6, <2>1, <1>n DEF ClaimSaved, ClaimFails
<1>7. CASE MarkSaved \/ MarkFails
  <2>1. runner'.pc = "work"
    BY <1>r, <1>7 DEF MarkSaved, MarkFails, Onward, RunnerType
  <2> QED
    BY <1>7, <2>1, <1>n DEF MarkSaved, MarkFails
<1>8. ASSUME UNCHANGED <<file, edit>>, runner.pc \in {"idle", "launch", "send", "work"},
             \/ runner' = IdleRunner
             \/ \E pc \in {"launch", "work", "mark"} : runner'.pc = pc
      PROVE  EditsOK'
  <2>1. runner'.pc \notin {"claim", "marking"}
    BY <1>8 DEF IdleRunner
  <2> QED
    BY <1>8, <1>u, <2>1
<1>12. CASE Tick
  BY <1>12, <1>8 DEF Tick, IdleRunner
<1>13. CASE Defer \/ CloseBrowser
  BY <1>13, <1>8 DEF Defer, CloseBrowser
<1>14. ASSUME NEW result \in {"ok", "error", "signed-out"}, Launch(result) PROVE EditsOK'
  BY <1>14, <1>8, <1>r DEF Launch, RunnerType
<1>15. CASE Hold \/ Send \/ SendUnconfirmed
  BY <1>15, <1>8, <1>r DEF Hold, Send, SendUnconfirmed, RunnerType
<1>16. ASSUME NEW reason \in {"error", "signed-out"}, SendFails(reason) PROVE EditsOK'
  BY <1>16, <1>8, <1>r DEF SendFails, RunnerType
<1>9. CASE Board
  <2>1. runner' = runner
    BY <1>9 DEF Board, Discard, Restore, Retry, SendHeld, Revive, RequestSaved, ReviveSaved, RequestFails
  <2>2. CASE Retry
    BY <1>u, <2>1, <2>2 DEF Retry
  <2>3. ASSUME NEW targets \in SUBSET Tasks, Discard(targets) PROVE EditsOK'
    BY <1>l, <1>w, <2>1, <2>3, ListsOfEntries DEF Discard, Load, Statuses
  <2>4. CASE Restore
    BY <1>l, <1>w, <2>1, <2>4, BoardLists DEF Restore, Load
  <2>5. ASSUME NEW t \in Tasks, SendHeld(t) PROVE EditsOK'
    BY <1>l, <1>w, <2>1, <2>5, BoardLists DEF SendHeld, Load
  <2>6. ASSUME NEW t \in Tasks, Revive(t) PROVE EditsOK'
    <3>1. (IF file[t].status = "none" THEN file ELSE Marked(t, "pending", 0, FALSE)) \in [Tasks -> Entry]
      BY BoardLists
    <3>2. (~Stuck(file[t])) \in BOOLEAN
      BY DEF Stuck
    <3> QED
      BY <1>l, <1>w, <2>1, <2>6, <3>1, <3>2 DEF Revive
  <2>7. CASE RequestSaved \/ ReviveSaved \/ RequestFails
    BY <1>s, <1>w, <2>1, <2>7 DEF RequestSaved, ReviveSaved, RequestFails
  <2> QED
    BY <1>9, <2>2, <2>3, <2>4, <2>5, <2>6, <2>7 DEF Board
<1>10. CASE Restart
  <2>1. file' \in [Tasks -> Entry]
    BY <1>10, ListsOfEntries DEF Restart, Statuses
  <2>2. edit' = [w \in Writers |-> NoEdit] /\ runner' = IdleRunner
    BY <1>10 DEF Restart
  <2> QED
    BY <2>1, <2>2, <1>w DEF EditsOK, FileType, Editing, IdleRunner
<1>11. CASE \/ StartCampaign \/ EndCampaign \/ (\E t \in Tasks : LeadReplies(t)) \/ UNCHANGED vars
  BY <1>11, <1>u DEF StartCampaign, EndCampaign, LeadReplies, vars
<1> QED
  BY <1>1, <1>2, <1>3, <1>4, <1>5, <1>6, <1>7, <1>9, <1>10, <1>11, <1>12, <1>13, <1>14, <1>15, <1>16
     DEF Next, Runner

LEMMA TypeNext == TypeInv /\ [Next]_vars => TypeInv'
<1>1. TypeInv' <=> RunnerOK' /\ BoardOK' /\ CountsOK' /\ EditsOK'
  BY DEF TypeInv, TypeOK, ShapeInv, RunnerOK, BoardOK, CountsOK, EditsOK, FileType, RunnerType, BoardType
<1> QED
  BY <1>1, RunnerNext, BoardNext, CountsNext, EditsNext

\* The variables keep their types, and the runner its shape: the app's record of a batch,
\* a browser and a task in hand, the list each writer is about to save.
THEOREM TypeCorrect == Spec => []TypeOK
<1>1. Spec => []TypeInv
  BY TypeInit, TypeNext, PTL DEF Spec
<1>2. TypeInv => TypeOK
  BY DEF TypeInv
<1> QED
  BY <1>1, <1>2, PTL

-----------------------------------------------------------------------------
(* A follow-up goes out once.                                              *)

Trouble == mishaps + slips

InFile(t)    == file[t].status # "none"
InEdit(w, t) == edit[w][t].status # "none"

\* The task is in the file and in every list that may overwrite it; in none of them; in the
\* list of the campaign that is about to add it.
Exists(t) == InFile(t) /\ \A w \in Writers : Editing(w) => InEdit(w, t)
Unborn(t) == ~InFile(t) /\ \A w \in Writers : Editing(w) => ~InEdit(w, t)
Born(t)   == /\ ~InFile(t) /\ Editing("campaign") /\ InEdit("campaign", t)
             /\ ~Editing("runner") /\ ~Editing("board")

\* The runner has claimed the task, or sends it.
Going(t) == runner.hand = t /\ runner.pc \in {"claim", "send"}
Due(t)   == t \in Batch /\ runner.hand # t
Spend(t) == sent[t] + (IF Going(t) THEN 1 ELSE 0)

\* The task was sent, and nothing the app will do by itself sends it again.
Spent(t) ==
    \/ Going(t)
    \/ runner.hand = t /\ runner.pc = "mark" /\ runner.outcome = "ok"
    \/ /\ runner.hand = t /\ runner.pc = "marking"
       /\ edit["runner"][t].status = "done" /\ ~Editing("campaign") /\ ~Editing("board")
    \/ /\ t \notin Batch /\ file[t].status = "done"
       /\ \A w \in Writers : Editing(w) => edit[w][t].status = "done"

\* What was sent was paid for: by the one follow-up of a task that exists and is spent,
\* or by trouble.
BudgetFor(t) ==
    /\ ~Exists(t) => Spend(t) <= Trouble
    /\ ~Exists(t) /\ ~Unborn(t) /\ ~Born(t) => Spend(t) + 1 <= Trouble
    /\ ~Exists(t) /\ Due(t) => Spend(t) + 1 <= Trouble
    /\ Exists(t) => Spend(t) <= Trouble \/ (Spend(t) <= 1 + Trouble /\ Spent(t))

BudgetInv == \A t \in Tasks : BudgetFor(t)

LEMMA SpendType ==
  ASSUME TypeInv, NEW t \in Tasks
  PROVE  Trouble \in Nat /\ Spend(t) \in Nat /\ sent[t] \in Nat /\ sent[t] <= Spend(t)
                         /\ Spend(t) <= sent[t] + 1
  BY DEF TypeInv, TypeOK, Trouble, Spend

\* A load may add to the slips only.
LEMMA TroubleRises ==
  ASSUME TypeInv, mishaps' = mishaps, slips' \in Nat, slips' >= slips
  PROVE  Trouble' \in Nat /\ Trouble' >= Trouble /\ (slips' = slips + 1 => Trouble' = Trouble + 1)
<1>1. mishaps \in Nat /\ slips \in Nat /\ mishaps' \in Nat
  BY DEF TypeInv, TypeOK
<1>2. \A m, s, r \in Nat : r >= s => /\ m + r \in Nat /\ m + r >= m + s
                                     /\ r = s + 1 => m + r = (m + s) + 1
  OBVIOUS
<1> QED
  BY <1>1, <1>2 DEF Trouble

\* A load that keeps whether the task exists.
LEMMA LoadFacts ==
  ASSUME TypeInv, NEW t \in Tasks, NEW w \in Writers, NEW list \in [Tasks -> Entry], NEW b \in BOOLEAN,
         LoadAlso(w, list, b), file' = file, mishaps' = mishaps,
         list[t].status = "none" <=> file[t].status = "none"
  PROVE  /\ ~Editing(w) /\ edit'[w] = list /\ Editing(w)' /\ \A v \in Writers \ {w} : edit'[v] = edit[v]
         /\ Trouble' \in Nat /\ Trouble' >= Trouble /\ (b \/ Overlap => Trouble' = Trouble + 1)
         /\ Exists(t)' <=> Exists(t)
         /\ Unborn(t)' <=> Unborn(t)
         /\ ~Exists(t) /\ ~Unborn(t) => Overlap
<1>1. /\ ~Editing(w) /\ edit'[w] = list /\ Editing(w)' /\ \A v \in Writers \ {w} : edit'[v] = edit[v]
  BY LoadStep, ListIsEdit DEF Editing
<1>2. slips' \in Nat /\ slips' >= slips /\ (b \/ Overlap => slips' = slips + 1)
  BY LoadStep
<1>3. Trouble' \in Nat /\ Trouble' >= Trouble /\ (b \/ Overlap => Trouble' = Trouble + 1)
  BY <1>2, TroubleRises
<1>5. Exists(t)' <=> Exists(t)
  BY <1>1 DEF Exists, InFile, InEdit, Editing
<1>6. Unborn(t)' <=> Unborn(t)
  BY <1>1 DEF Unborn, InFile, InEdit, Editing
<1>7. ~Exists(t) /\ ~Unborn(t) => Overlap
  BY DEF Exists, Unborn, Overlap, Editing
<1> QED
  BY <1>1, <1>3, <1>5, <1>6, <1>7

\* Such a load pays for what it overlaps.
LEMMA BudgetLoaded ==
  ASSUME TypeInv, NEW t \in Tasks, BudgetFor(t),
         NEW w \in Writers, NEW list \in [Tasks -> Entry], NEW b \in BOOLEAN,
         LoadAlso(w, list, b), file' = file, mishaps' = mishaps,
         list[t].status = "none" <=> file[t].status = "none",
         Spend(t)' = Spend(t), Due(t)' => Due(t),
         Spent(t) /\ Exists(t) => Spent(t)' \/ b \/ Overlap
  PROVE  BudgetFor(t)'
<1>1. /\ Trouble' \in Nat /\ Trouble' >= Trouble /\ (b \/ Overlap => Trouble' = Trouble + 1)
      /\ Exists(t)' <=> Exists(t)
      /\ Unborn(t)' <=> Unborn(t)
      /\ ~Exists(t) /\ ~Unborn(t) => Overlap
  BY LoadFacts
<1>2. Trouble \in Nat /\ Spend(t) \in Nat
  BY SpendType
<1>3. /\ ~Exists(t) => Spend(t) <= Trouble'
      /\ ~Exists(t) /\ Due(t) => Spend(t) + 1 <= Trouble'
  BY <1>1, <1>2 DEF BudgetFor
<1>4. ~Exists(t) /\ ~Unborn(t) => Spend(t) + 1 <= Trouble'
  BY <1>1, <1>2 DEF BudgetFor
<1>5. Exists(t) => Spend(t) <= Trouble' \/ (Spend(t) <= 1 + Trouble' /\ Spent(t)')
  BY <1>1, <1>2 DEF BudgetFor
<1> QED
  BY <1>1, <1>3, <1>4, <1>5 DEF BudgetFor

\* A load by the board or the campaign that does not add the task, nor revive it unasked.
LEMMA BudgetLoad ==
  ASSUME TypeInv, NEW t \in Tasks, BudgetFor(t),
         NEW w \in Writers \ {"runner"}, NEW list \in [Tasks -> Entry], NEW b \in BOOLEAN,
         LoadAlso(w, list, b), UNCHANGED <<file, runner, sent, mishaps>>,
         list[t].status = "none" <=> file[t].status = "none",
         file[t].status = "done" => list[t].status = "done" \/ b
  PROVE  BudgetFor(t)'
<1>0. file' = file /\ runner' = runner /\ mishaps' = mishaps
  OBVIOUS
<1>1. /\ ~Editing(w) /\ edit'[w] = list /\ Editing(w)' /\ \A v \in Writers \ {w} : edit'[v] = edit[v]
  BY <1>0, LoadFacts
<1>4. Spend(t)' = Spend(t) /\ Going(t)' = Going(t) /\ Due(t)' = Due(t) /\ Batch' = Batch
  BY DEF Spend, Going, Due, Batch
<1>8. Spent(t) /\ Exists(t) => Spent(t)' \/ b \/ Overlap
  <2>2. CASE Going(t) \/ (runner.hand = t /\ runner.pc = "mark" /\ runner.outcome = "ok")
    BY <1>0, <1>4, <2>2 DEF Spent
  <2>3. CASE runner.pc = "marking"
    BY <2>3 DEF TypeInv, ShapeInv, Overlap, Editing, Writers
  <2>4. CASE t \notin Batch /\ file[t].status = "done" /\ ~Overlap
    BY <1>0, <1>1, <1>4, <2>4 DEF Spent, Overlap, Editing
  <2> QED
    BY <2>2, <2>3, <2>4 DEF Spent
<1> QED
  BY <1>0, <1>4, <1>8, BudgetLoaded

\* A save pays for nothing: what it writes is what the list said.
LEMMA BudgetSaved ==
  ASSUME TypeInv, NEW t \in Tasks, BudgetFor(t),
         NEW w \in Writers, Save(w), mishaps' = mishaps, slips' = slips,
         Spend(t)' = Spend(t), Due(t)' => Due(t), Spent(t) => Spent(t)'
  PROVE  BudgetFor(t)'
<1>1. /\ Editing(w) /\ ~Editing(w)' /\ \A v \in Writers \ {w} : edit'[v] = edit[v]
  BY SaveStep DEF Editing
<1>2. Trouble \in Nat /\ Spend(t) \in Nat
  BY SpendType
<1>3. file' = edit[w] /\ Trouble' = Trouble
  BY SaveStep DEF Trouble
<1>4. Exists(t) => Exists(t)'
  BY <1>1, <1>3 DEF Exists, InFile, InEdit, Editing
<1>5. Unborn(t) => Unborn(t)'
  BY <1>1, <1>3 DEF Unborn, InFile, InEdit, Editing
<1>6. Born(t) => Exists(t)'
  BY <1>1, <1>3 DEF Born, Exists, InFile, InEdit, Editing, Writers
<1>7. Spend(t) <= Trouble \/ (Spend(t) <= 1 + Trouble /\ Exists(t))
  BY DEF BudgetFor
<1>8. /\ ~Exists(t) /\ ~Unborn(t) /\ ~Born(t) => Spend(t) + 1 <= Trouble
      /\ ~Exists(t) /\ Due(t) => Spend(t) + 1 <= Trouble
      /\ Exists(t) => Spend(t) <= Trouble \/ (Spend(t) <= 1 + Trouble /\ Spent(t))
  BY DEF BudgetFor
<1> QED
  BY <1>2, <1>3, <1>4, <1>5, <1>6, <1>7, <1>8 DEF BudgetFor

\* A mishap pays for one more.
LEMMA BudgetMishap ==
  ASSUME TypeInv, NEW t \in Tasks, BudgetFor(t), mishaps' = mishaps + 1, slips' = slips,
         Spend(t)' \in Nat, Spend(t)' <= Spend(t), Exists(t) => Exists(t)'
  PROVE  BudgetFor(t)'
<1>1. Trouble' = Trouble + 1 /\ Trouble \in Nat /\ Spend(t) \in Nat
  BY SpendType DEF Trouble, TypeInv, TypeOK
<1>2. Spend(t) <= Trouble \/ (Spend(t) <= 1 + Trouble /\ Exists(t))
  BY DEF BudgetFor
<1> QED
  BY <1>1, <1>2 DEF BudgetFor

\* A save or a failed save by the board or the campaign.
LEMMA BudgetSave ==
  ASSUME TypeInv, NEW t \in Tasks, BudgetFor(t),
         NEW w \in Writers \ {"runner"}, UNCHANGED <<runner, sent, slips>>,
         \/ Save(w) /\ mishaps' = mishaps
         \/ SaveFails(w) /\ file' = file
  PROVE  BudgetFor(t)'
<1>1. /\ Editing(w) /\ ~Editing(w)' /\ \A v \in Writers \ {w} : edit'[v] = edit[v]
  BY SaveStep, SaveFailsStep DEF Editing
<1>2. Spend(t)' = Spend(t) /\ Going(t)' = Going(t) /\ Due(t)' = Due(t) /\ Batch' = Batch
  BY DEF Spend, Going, Due, Batch
<1>3. runner' = runner /\ slips' = slips /\ Spend(t) \in Nat /\ Spend(t) <= Spend(t)
  BY SpendType
<1>4. CASE Save(w) /\ mishaps' = mishaps
  <2>1. file' = edit[w]
    BY <1>4, SaveStep
  <2>2. Spent(t) => Spent(t)'
    BY <1>1, <1>2, <2>1 DEF Spent, Editing, Writers
  <2> QED
    BY <1>2, <1>3, <1>4, <2>2, BudgetSaved
<1>5. CASE SaveFails(w) /\ file' = file
  <2>1. mishaps' = mishaps + 1
    BY <1>5, SaveFailsStep
  <2>2. Exists(t) => Exists(t)'
    BY <1>1, <1>5 DEF Exists, InFile, InEdit, Editing
  <2> QED
    BY <1>2, <1>3, <2>1, <2>2, BudgetMishap
<1> QED
  BY <1>4, <1>5

\* Steps that leave the file, the edits and what counts for the task alone.
LEMMA BudgetSame ==
  ASSUME TypeInv, NEW t \in Tasks, BudgetFor(t),
         file' = file, edit' = edit, mishaps' = mishaps, slips' = slips,
         Spend(t)' <= Spend(t), Spend(t)' \in Nat,
         Due(t)' => Due(t) \/ InFile(t),
         Spent(t) => Spent(t)' \/ Spend(t)' + 1 <= Spend(t)
  PROVE  BudgetFor(t)'
<1>1. Trouble \in Nat /\ Spend(t) \in Nat /\ Trouble' = Trouble
  BY SpendType DEF Trouble
<1>2. /\ Exists(t)' <=> Exists(t)
      /\ Unborn(t)' <=> Unborn(t)
      /\ Born(t)' <=> Born(t)
  BY DEF Exists, Unborn, Born, InFile, InEdit, Editing
<1>3. InFile(t) => ~Unborn(t) /\ ~Born(t)
  BY DEF Unborn, Born
<1> QED
  BY <1>1, <1>2, <1>3 DEF BudgetFor

\* The steps of the campaign, the board, the lead and the process.
LEMMA BudgetOthers ==
  ASSUME TypeInv, NEW t \in Tasks, BudgetFor(t), [Next]_vars, ~Runner
  PROVE  BudgetFor(t)'
<1>w. {"campaign", "board"} = Writers \ {"runner"} /\ Writers = {"campaign", "board", "runner"}
  BY DEF Writers
<1>u. ASSUME UNCHANGED <<file, edit, runner, sent, mishaps, slips>> PROVE BudgetFor(t)'
  <2>1. Spend(t)' = Spend(t) /\ Due(t)' = Due(t) /\ Spent(t)' = Spent(t)
    BY <1>u DEF Spend, Going, Due, Batch, Spent, Editing
  <2>2. Spend(t) \in Nat /\ Spend(t) <= Spend(t)
    BY SpendType
  <2> QED
    BY <1>u, <2>1, <2>2, BudgetSame
<1>t. ASSUME NEW x \in Tasks, NEW s \in Statuses, NEW n \in Nat, NEW p \in BOOLEAN, x # t \/ s # "none"
      PROVE  /\ Marked(x, s, n, p)[t].status = IF x = t THEN s ELSE file[t].status
             /\ Marked(x, s, n, p) \in [Tasks -> Entry]
  BY ListsOfEntries, BoardLists DEF Marked
<1>1. ASSUME NEW x \in Tasks, Enqueue(x) PROVE BudgetFor(t)'
  <2>1. /\ LoadAlso("campaign", Marked(x, "pending", 0, FALSE), FALSE)
        /\ UNCHANGED <<file, runner, sent, mishaps>> /\ file[x].status = "none"
    BY <1>1 DEF Enqueue, Load
  <2>2. /\ Marked(x, "pending", 0, FALSE)[t].status = IF x = t THEN "pending" ELSE file[t].status
        /\ Marked(x, "pending", 0, FALSE) \in [Tasks -> Entry]
    BY <1>t DEF Statuses
  <2>3. CASE x # t
    BY <1>w, <2>1, <2>2, <2>3, BudgetLoad
  <2>4. CASE x = t
    <3>1. file' = file /\ runner' = runner /\ mishaps' = mishaps /\ mishaps \in Nat /\ slips \in Nat
      BY <2>1 DEF TypeInv, TypeOK
    <3>2. /\ ~Editing("campaign") /\ Editing("campaign")' /\ edit'["campaign"][t].status = "pending"
          /\ \A v \in Writers \ {"campaign"} : edit'[v] = edit[v]
          /\ slips' \in Nat /\ slips' >= slips /\ (Overlap => slips' = slips + 1)
      BY <1>w, <2>1, <2>2, <2>4, <3>1, LoadStep, ListIsEdit DEF Editing
    <3>3. Spend(t)' = Spend(t) /\ Due(t)' = Due(t)
      BY <2>1 DEF Spend, Going, Due, Batch
    <3>4. ~Exists(t) /\ ~Exists(t)' /\ ~Unborn(t)'
      BY <1>w, <2>1, <2>4, <3>1, <3>2 DEF Exists, Unborn, InFile, InEdit, Editing
    <3>5. ~Overlap => Born(t)'
      BY <1>w, <2>1, <2>4, <3>1, <3>2 DEF Born, InFile, InEdit, Editing, Overlap
    <3>6. Trouble \in Nat /\ Spend(t) \in Nat
      BY SpendType
    <3>7. Trouble' >= Trouble /\ (Overlap => Trouble' = Trouble + 1) /\ Trouble' \in Nat
      BY <3>1, <3>2, TroubleRises
    <3> QED
      BY <3>3, <3>4, <3>5, <3>6, <3>7 DEF BudgetFor
  <2> QED
    BY <2>3, <2>4
<1>2. CASE EnqueueSaved \/ EnqueueFails
  BY <1>2, <1>w, BudgetSave DEF EnqueueSaved, EnqueueFails, bounds
<1>3. CASE StartCampaign \/ EndCampaign \/ Retry \/ (\E x \in Tasks : LeadReplies(x)) \/ UNCHANGED vars
  BY <1>3, <1>u DEF StartCampaign, EndCampaign, Retry, LeadReplies, vars, bounds
<1>4. ASSUME NEW targets \in SUBSET Tasks, Discard(targets) PROVE BudgetFor(t)'
  <2> DEFINE list == Are("discarded", targets)
  <2>1. LoadAlso("board", list, FALSE) /\ UNCHANGED <<file, runner, sent, mishaps>>
    BY <1>4 DEF Discard, Load
  <2>2. list \in [Tasks -> Entry]
    BY ListsOfEntries DEF Statuses
  <2>3. t \in targets => file[t].status \in {"failed", "pending"} /\ list[t].status = "discarded"
    BY <1>4, BoardLists DEF Discard, Stuck, Are, Entry
  <2>4. t \notin targets => list[t] = file[t]
    BY DEF Are
  <2> QED
    BY <1>w, <2>1, <2>2, <2>3, <2>4, BudgetLoad
<1>5. CASE Restore
  <2> DEFINE targets == {x \in Tasks : board.undo[x] # "none" /\ file[x].status = "discarded"}
             list == [x \in Tasks |-> IF x \in targets THEN [file[x] EXCEPT !.status = board.undo[x]]
                                      ELSE file[x]]
  <2>1. LoadAlso("board", list, FALSE) /\ UNCHANGED <<file, runner, sent, mishaps>>
    BY <1>5 DEF Restore, Load
  <2>2. list \in [Tasks -> Entry]
    BY BoardLists
  <2>3. t \in targets => file[t].status = "discarded" /\ list[t].status # "none"
    BY BoardLists DEF Entry
  <2>4. t \notin targets => list[t] = file[t]
    OBVIOUS
  <2> HIDE DEF list, targets
  <2> QED
    BY <1>w, <2>1, <2>2, <2>3, <2>4, BudgetLoad
<1>6. ASSUME NEW x \in Tasks, SendHeld(x) PROVE BudgetFor(t)'
  <2> DEFINE list == Marked(x, "pending", 0, file[x].parked)
  <2>1. LoadAlso("board", list, FALSE) /\ UNCHANGED <<file, runner, sent, mishaps>>
    BY <1>6 DEF SendHeld, Load
  <2>2. file[x].status = "held" /\ file[x].parked \in BOOLEAN
    BY <1>6, BoardLists DEF SendHeld, Entry
  <2>3. list \in [Tasks -> Entry] /\ list[t].status = IF x = t THEN "pending" ELSE file[t].status
    BY <1>t, <2>2 DEF Statuses
  <2> QED
    BY <1>w, <2>1, <2>2, <2>3, BudgetLoad
<1>7. ASSUME NEW x \in Tasks, Revive(x) PROVE BudgetFor(t)'
  <2> DEFINE list == IF file[x].status = "none" THEN file ELSE Marked(x, "pending", 0, FALSE)
             b == ~Stuck(file[x])
  <2>1. LoadAlso("board", list, b) /\ UNCHANGED <<file, runner, sent, mishaps>>
    BY <1>7 DEF Revive
  <2> HIDE DEF list
  <2>2. list \in [Tasks -> Entry] /\ (list[t].status = "none" <=> file[t].status = "none")
        /\ (x # t => list[t].status = file[t].status)
    <3>1. CASE file[x].status = "none"
      BY <3>1, BoardLists DEF list
    <3>2. CASE file[x].status # "none"
      <4>1. list = Marked(x, "pending", 0, FALSE)
        BY <3>2 DEF list
      <4>2. list \in [Tasks -> Entry] /\ list[t].status = IF x = t THEN "pending" ELSE file[t].status
        <5>1. "pending" \in Statuses /\ "pending" # "none"
          BY DEF Statuses
        <5> QED
          BY <1>t, <4>1, <5>1
      <4> QED
        BY <3>2, <4>2
    <3> QED
      BY <3>1, <3>2
  <2>3. b \in BOOLEAN /\ (file[x].status = "done" => b)
    BY DEF Stuck
  <2>4. file[t].status = "done" => list[t].status = "done" \/ b
    BY <2>2, <2>3
  <2> HIDE DEF b
  <2> QED
    BY <1>w, <2>1, <2>2, <2>3, <2>4, BudgetLoad
<1>8. CASE RequestSaved \/ ReviveSaved \/ RequestFails
  BY <1>8, <1>w, BudgetSave DEF RequestSaved, ReviveSaved, RequestFails, bounds
<1>9. CASE Restart
  <2>1. /\ mishaps' = mishaps + 1 /\ slips' = slips /\ sent' = sent /\ runner' = IdleRunner
        /\ file' = Are("pending", {x \in Tasks : file[x].status = "in_progress"})
        /\ \A w \in Writers : ~Editing(w)'
    BY <1>9 DEF Restart, Editing
  <2>2. Spend(t)' <= Spend(t) /\ Spend(t)' \in Nat
    BY <2>1, SpendType DEF Spend, Going, IdleRunner
  <2>3. InFile(t)' <=> InFile(t)
    BY <2>1, BoardLists DEF InFile, Are, Entry
  <2>4. Exists(t) => Exists(t)'
    BY <2>1, <2>3 DEF Exists
  <2> QED
    BY <2>1, <2>2, <2>4, BudgetMishap
<1> QED
  BY <1>1, <1>2, <1>3, <1>4, <1>5, <1>6, <1>7, <1>8, <1>9 DEF Next, Board

\* What the runner loads keeps whether a task exists.
LEMMA RunnerLoads ==
  ASSUME TypeInv, NEW t \in Tasks
  PROVE  /\ \A x \in Tasks : LET list == IF file[x].status = "none" THEN file
                                        ELSE [file EXCEPT ![x].status = "in_progress"]
                             IN  /\ list[t].status = "none" <=> file[t].status = "none"
                                 /\ x # t => list[t] = file[t]
         /\ \A x \in Batch, o \in Outcomes :
              /\ Settled(x, o)[t].status = "none" <=> file[t].status = "none"
              /\ x # t => Settled(x, o)[t] = file[t]
              /\ x = t /\ o = "ok" /\ InFile(t) => Settled(x, o)[t].status = "done"
<1>0. file \in [Tasks -> Entry] /\ Batch \subseteq Tasks
  BY DEF TypeInv, TypeOK, Batch
<1>1. ASSUME NEW x \in Tasks
      PROVE  LET list == IF file[x].status = "none" THEN file
                         ELSE [file EXCEPT ![x].status = "in_progress"]
             IN  /\ list[t].status = "none" <=> file[t].status = "none"
                 /\ x # t => list[t] = file[t]
  BY <1>0 DEF Entry
<1>2. ASSUME NEW x \in Batch, NEW o \in Outcomes
      PROVE  /\ Settled(x, o)[t].status = "none" <=> file[t].status = "none"
             /\ x # t => Settled(x, o)[t] = file[t]
             /\ x = t /\ o = "ok" /\ InFile(t) => Settled(x, o)[t].status = "done"
  <2>m. \A y \in Tasks, s \in Statuses : \A n, p :
          y = t => Marked(y, s, n, p)[t].status = s
    BY <1>0 DEF Marked
  <2>x. x \in Tasks
    BY <1>0
  <2>1. CASE file[x].status = "none"
    BY <2>1 DEF Settled, InFile
  <2>2. CASE file[x].status # "none" /\ o \in {"ok", "held"}
    <3>1. Settled(x, o) = [file EXCEPT ![x].status = IF o = "ok" THEN "done" ELSE "held"]
      BY <2>2 DEF Settled
    <3> QED
      BY <1>0, <2>x, <2>2, <3>1 DEF Entry, InFile
  <2>3. CASE file[x].status # "none" /\ o \in {"signed-out", "error"}
    <3>1. \E s \in {"pending", "failed"} : \E n, p : Settled(x, o) = Marked(x, s, n, p)
      BY <2>3 DEF Settled
    <3>p. PICK s \in {"pending", "failed"} : \E n, p : Settled(x, o) = Marked(x, s, n, p)
      BY <3>1
    <3>2. PICK n, p : Settled(x, o) = Marked(x, s, n, p)
      BY <3>p
    <3>3. s \in Statuses /\ s # "none"
      BY DEF Statuses
    <3>4. CASE x = t
      <4>1. Marked(x, s, n, p)[t].status = s
        BY <2>m, <3>3, <3>4
      <4>2. Settled(x, o)[t].status # "none" /\ file[t].status # "none" /\ o # "ok"
        BY <2>3, <3>2, <3>3, <3>4, <4>1
      <4> QED
        BY <3>4, <4>2
    <3>5. CASE x # t
      <4>1. Marked(x, s, n, p)[t] = file[t]
        BY <1>0, <2>x, <3>5 DEF Marked
      <4> QED
        BY <3>2, <3>5, <4>1
    <3> QED
      BY <3>4, <3>5
  <2> QED
    BY <2>1, <2>2, <2>3 DEF Outcomes
<1> QED
  BY <1>1, <1>2

\* The runner's own edit is for a task of its batch, another task keeps its budget.
LEMMA BudgetRunnerLoad ==
  ASSUME TypeInv, NEW t \in Tasks, BudgetFor(t), NEW list \in [Tasks -> Entry],
         LoadAlso("runner", list, FALSE), file' = file, mishaps' = mishaps, sent' = sent,
         runner.pc \in {"work", "mark"}, runner'.hand # t, Batch' = Batch, runner.hand # t,
         list[t] = file[t]
  PROVE  BudgetFor(t)'
<1>1. Spend(t)' = Spend(t) /\ (Due(t)' => Due(t))
  BY DEF Spend, Going, Due
<1>w. "runner" \in Writers /\ FALSE \in BOOLEAN /\ (list[t].status = "none" <=> file[t].status = "none")
  BY DEF Writers
<1>2. edit'["runner"] = list /\ \A v \in Writers \ {"runner"} : edit'[v] = edit[v]
  BY <1>w, LoadFacts
<1>3. Spent(t) => Spent(t)'
  BY <1>2 DEF Spent, Going, Editing
<1> QED
  BY <1>w, <1>1, <1>2, <1>3, BudgetLoaded

LEMMA BudgetRunner ==
  ASSUME TypeInv, NEW t \in Tasks, BudgetFor(t), Runner
  PROVE  BudgetFor(t)'
<1>r. RunnerOK /\ runner \in RunnerType /\ t # NoTask /\ Batch \subseteq Tasks
      /\ "runner" \in Writers /\ FALSE \in BOOLEAN
  BY TypeParts, BoundsAssumption DEF RunnerOK, Batch, Writers
<1>s. sent \in [Tasks -> Nat] /\ Spend(t) \in Nat /\ sent[t] \in Nat /\ Spend(t) <= Spend(t)
      /\ sent[t] <= Spend(t)
  BY SpendType DEF TypeInv, TypeOK
<1>1. CASE Tick
  <2>1. PICK due \in SUBSET {x \in Tasks : file[x].status = "pending"} :
          runner' = [IdleRunner EXCEPT !.pc = "launch",
                     !.batch = [x \in Tasks |-> IF x \in due THEN file[x].attempts ELSE Absent]]
    BY <1>1 DEF Tick
  <2>2. /\ runner'.hand = NoTask /\ runner'.pc = "launch"
        /\ t \in Batch' => t \in due
    BY <2>1 DEF IdleRunner, Batch
  <2>3. UNCHANGED <<file, edit, sent, mishaps, slips>> /\ runner.pc = "idle"
    BY <1>1 DEF Tick, bounds
  <2>4. Spend(t)' = Spend(t)
    BY <2>2, <2>3 DEF Spend, Going
  <2>5. Due(t)' => InFile(t)
    BY <2>2 DEF Due, InFile
  <2>6. Spent(t) => Spent(t)'
    BY <2>2, <2>3 DEF Spent, Going, Editing
  <2> QED
    BY <1>s, <2>3, <2>4, <2>5, <2>6, BudgetSame
<1>2. CASE Defer \/ CloseBrowser
  <2>1. UNCHANGED <<file, edit, sent, mishaps, slips>> /\ runner.pc \in {"launch", "work"}
        /\ runner' = IdleRunner
    BY <1>2 DEF Defer, CloseBrowser, bounds
  <2>2. runner'.hand = NoTask /\ runner'.pc = "idle" /\ t \notin Batch'
    BY <2>1 DEF IdleRunner, NoBatch, Batch
  <2>4. Spend(t)' = Spend(t) /\ ~Due(t)'
    BY <2>1, <2>2 DEF Spend, Going, Due
  <2>6. Spent(t) => Spent(t)'
    BY <2>1, <2>2 DEF Spent, Going, Editing
  <2> QED
    BY <1>s, <2>1, <2>4, <2>6, BudgetSame
<1>3. ASSUME NEW result \in {"ok", "error", "signed-out"}, Launch(result) PROVE BudgetFor(t)'
  <2>1. UNCHANGED <<file, edit, sent, mishaps, slips>> /\ runner.pc = "launch"
    BY <1>3 DEF Launch, bounds
  <2>2. runner'.pc = "work" /\ runner'.hand = runner.hand /\ Batch' = Batch
    BY <1>r, <1>3 DEF Launch, RunnerType, Batch
  <2>4. Spend(t)' = Spend(t) /\ (Due(t)' => Due(t))
    BY <2>1, <2>2 DEF Spend, Going, Due
  <2>6. Spent(t) => Spent(t)'
    BY <2>1, <2>2 DEF Spent, Going, Editing
  <2> QED
    BY <1>s, <2>1, <2>4, <2>6, BudgetSame
<1>4. ASSUME Hold \/ \E reason \in {"error", "signed-out"} : SendFails(reason) PROVE BudgetFor(t)'
  <2>1. UNCHANGED <<file, edit, sent, mishaps, slips>> /\ runner.pc = "send"
    BY <1>4 DEF Hold, SendFails, bounds
  <2>2. runner'.pc = "mark" /\ runner'.hand = runner.hand /\ Batch' = Batch
    <3>1. PICK o \in Outcomes : runner' = [runner EXCEPT !.pc = "mark", !.outcome = o]
      BY <1>4 DEF Hold, SendFails, Outcomes
    <3> QED
      BY <1>r, <3>1 DEF RunnerType, Batch
  <2>4. /\ Spend(t)' = IF runner.hand = t THEN Spend(t) - 1 ELSE Spend(t)
        /\ Spend(t)' = sent[t] /\ (Due(t)' => Due(t))
    BY <1>s, <2>1, <2>2 DEF Spend, Going, Due
  <2>6. Spent(t) /\ runner.hand # t => Spent(t)'
    BY <2>1, <2>2 DEF Spent, Going, Editing
  <2>7. Spend(t)' <= Spend(t) /\ (runner.hand = t => Spend(t)' + 1 <= Spend(t))
    BY <1>s, <2>4
  <2> QED
    BY <1>s, <2>1, <2>4, <2>6, <2>7, BudgetSame
<1>5. CASE Send
  <2>1. UNCHANGED <<file, edit, mishaps, slips>> /\ runner.pc = "send" /\ runner.outcome = "ok"
    BY <1>r, <1>5 DEF Send, RunnerOK, bounds
  <2>2. runner'.pc = "mark" /\ runner'.hand = runner.hand /\ runner'.outcome = "ok" /\ Batch' = Batch
    BY <1>r, <1>5, <2>1 DEF Send, RunnerType, Batch
  <2>3. sent'[t] = IF runner.hand = t THEN sent[t] + 1 ELSE sent[t]
    BY <1>s, <1>5 DEF Send
  <2>4. Spend(t)' = Spend(t) /\ (Due(t)' => Due(t))
    BY <1>s, <2>1, <2>2, <2>3 DEF Spend, Going, Due
  <2>6. Spent(t) => Spent(t)'
    BY <2>1, <2>2 DEF Spent, Going, Editing
  <2> QED
    BY <1>s, <2>1, <2>4, <2>6, BudgetSame
<1>6. CASE SendUnconfirmed
  <2>1. UNCHANGED <<file, edit, slips>> /\ runner.pc = "send" /\ mishaps' = mishaps + 1
    BY <1>6 DEF SendUnconfirmed
  <2>2. runner'.pc = "mark"
    BY <1>r, <1>6 DEF SendUnconfirmed, RunnerType
  <2>3. sent'[t] = IF runner.hand = t THEN sent[t] + 1 ELSE sent[t]
    BY <1>s, <1>6 DEF SendUnconfirmed
  <2>4. Spend(t)' = Spend(t)
    BY <1>s, <2>1, <2>2, <2>3 DEF Spend, Going
  <2>5. Exists(t)' <=> Exists(t)
    BY <2>1 DEF Exists, InFile, InEdit, Editing
  <2> QED
    BY <1>s, <2>1, <2>4, <2>5, BudgetMishap
<1>7. CASE ClaimSaved \/ MarkSaved
  <2>1. /\ Save("runner") /\ UNCHANGED <<sent, mishaps, slips>>
        /\ runner.pc \in {"claim", "marking"} /\ runner.hand \in Batch
    BY <1>r, <1>7 DEF ClaimSaved, MarkSaved, bounds, RunnerOK
  <2>2. /\ Editing("runner") /\ ~Editing("runner")' /\ file' = edit["runner"]
        /\ \A v \in Writers \ {"runner"} : edit'[v] = edit[v]
    BY <1>r, <2>1, SaveStep DEF Editing
  <2>3. CASE ClaimSaved
    <3>1. runner'.pc = "send" /\ runner'.hand = runner.hand /\ Batch' = Batch /\ runner.pc = "claim"
      BY <1>r, <2>3 DEF ClaimSaved, RunnerType, Batch
    <3>2. Spend(t)' = Spend(t) /\ (Due(t)' => Due(t))
      BY <2>1, <3>1 DEF Spend, Going, Due
    <3>3. Spent(t) => Spent(t)'
      BY <1>r, <2>1, <2>2, <3>1 DEF Spent, Going, Editing
    <3> QED
      BY <1>r, <2>1, <3>2, <3>3, BudgetSaved
  <2>4. CASE MarkSaved
    <3>1. runner'.pc = "work" /\ runner'.hand = NoTask /\ Batch' = Batch \ {runner.hand}
          /\ runner.pc = "marking"
      BY <1>r, <2>1, <2>4 DEF MarkSaved, Onward, RunnerType, Batch
    <3>2. Spend(t)' = Spend(t) /\ (Due(t)' => Due(t))
      BY <2>1, <3>1 DEF Spend, Going, Due
    <3>3. Spent(t) => Spent(t)'
      BY <1>r, <2>1, <2>2, <3>1 DEF Spent, Going, Editing, Writers
    <3> QED
      BY <1>r, <2>1, <3>2, <3>3, BudgetSaved
  <2> QED
    BY <1>7, <2>3, <2>4
<1>8. CASE ClaimFails \/ MarkFails
  <2>1. /\ SaveFails("runner") /\ UNCHANGED <<file, sent, slips>>
        /\ runner'.pc \in {"mark", "work"}
    BY <1>r, <1>8 DEF ClaimFails, MarkFails, Onward, RunnerType
  <2>2. /\ ~Editing("runner")' /\ \A v \in Writers \ {"runner"} : edit'[v] = edit[v]
        /\ mishaps' = mishaps + 1
    BY <1>r, <2>1, SaveFailsStep DEF Editing
  <2>3. Spend(t)' <= Spend(t) /\ Spend(t)' \in Nat
    BY <1>s, <2>1 DEF Spend, Going
  <2>4. Exists(t) => Exists(t)'
    BY <1>r, <2>1, <2>2 DEF Exists, InFile, InEdit, Editing
  <2> QED
    BY <2>1, <2>2, <2>3, <2>4, BudgetMishap
<1>9. ASSUME NEW x \in Tasks, Claim(x) PROVE BudgetFor(t)'
  <2> DEFINE list == IF file[x].status = "none" THEN file
                     ELSE [file EXCEPT ![x].status = "in_progress"]
  <2>1. /\ LoadAlso("runner", list, FALSE) /\ UNCHANGED <<file, sent, mishaps>>
        /\ runner.pc = "work" /\ x \in Batch /\ list \in [Tasks -> Entry]
    BY <1>9, Loads, RunnerLists DEF Claim
  <2>2. runner'.pc = "claim" /\ runner'.hand = x /\ Batch' = Batch /\ runner.hand = NoTask
    BY <1>r, <1>9 DEF Claim, RunnerType, Batch, RunnerOK
  <2>3. /\ list[t].status = "none" <=> file[t].status = "none"
        /\ x # t => list[t] = file[t]
    BY RunnerLoads
  <2> HIDE DEF list
  <2>4. CASE x # t
    BY <1>r, <2>1, <2>2, <2>3, <2>4, BudgetRunnerLoad
  <2>5. CASE x = t
    <3>1. /\ Trouble' \in Nat /\ Trouble' >= Trouble /\ (Overlap => Trouble' = Trouble + 1)
          /\ Exists(t)' <=> Exists(t)
          /\ Unborn(t)' <=> Unborn(t)
          /\ ~Exists(t) /\ ~Unborn(t) => Overlap
      BY <1>r, <2>1, <2>3, LoadFacts
    <3>2. Due(t) /\ ~Due(t)' /\ Going(t)' /\ ~Going(t) /\ ~Spent(t) /\ Spent(t)'
      BY <1>r, <2>1, <2>2, <2>5 DEF Due, Going, Spent
    <3>3. Spend(t)' = Spend(t) + 1 /\ Trouble \in Nat
      BY <1>s, <2>1, <3>2, SpendType DEF Spend
    <3>4. Spend(t) + 1 <= Trouble \/ (Spend(t) <= Trouble /\ Exists(t))
      BY <3>2 DEF BudgetFor
    <3> QED
      BY <1>s, <3>1, <3>2, <3>3, <3>4 DEF BudgetFor
  <2> QED
    BY <2>4, <2>5
<1>10. ASSUME NEW x \in Tasks, SettleUnsent(x) PROVE BudgetFor(t)'
  <2> DEFINE list == Settled(x, runner.browser)
  <2>1. /\ LoadAlso("runner", list, FALSE) /\ UNCHANGED <<file, sent, mishaps>>
        /\ runner.pc = "work" /\ x \in Batch /\ list \in [Tasks -> Entry]
    BY <1>10, Loads, RunnerLists DEF SettleUnsent
  <2>2. runner'.pc = "marking" /\ runner'.hand = x /\ Batch' = Batch /\ runner.hand = NoTask
    BY <1>r, <1>10 DEF SettleUnsent, RunnerType, Batch, RunnerOK
  <2>3. /\ list[t].status = "none" <=> file[t].status = "none"
        /\ x # t => list[t] = file[t]
    BY <1>r, <2>1, RunnerLoads DEF RunnerType
  <2> HIDE DEF list
  <2>4. CASE x # t
    BY <1>r, <2>1, <2>2, <2>3, <2>4, BudgetRunnerLoad
  <2>5. CASE x = t
    <3>1. Spend(t)' = Spend(t) /\ ~Due(t)' /\ ~Spent(t)
      BY <1>r, <2>1, <2>2, <2>5 DEF Spend, Due, Going, Spent
    <3> QED
      BY <1>r, <2>1, <2>3, <3>1, BudgetLoaded
  <2> QED
    BY <2>4, <2>5
<1>11. CASE Mark
  <2> DEFINE list == Settled(runner.hand, runner.outcome)
  <2>1. /\ LoadAlso("runner", list, FALSE) /\ UNCHANGED <<file, sent, mishaps>>
        /\ runner.pc = "mark" /\ runner.hand \in Batch /\ list \in [Tasks -> Entry]
    BY <1>r, <1>11, Loads, RunnerLists DEF Mark, RunnerOK
  <2>2. runner'.pc = "marking" /\ runner'.hand = runner.hand /\ Batch' = Batch
    BY <1>r, <1>11 DEF Mark, RunnerType, Batch
  <2>3. /\ list[t].status = "none" <=> file[t].status = "none"
        /\ runner.hand # t => list[t] = file[t]
        /\ runner.hand = t /\ runner.outcome = "ok" /\ InFile(t) => list[t].status = "done"
    BY <1>r, <2>1, RunnerLoads DEF RunnerType
  <2> HIDE DEF list
  <2>4. CASE runner.hand # t
    BY <1>r, <2>1, <2>2, <2>3, <2>4, BudgetRunnerLoad
  <2>5. CASE runner.hand = t
    <3>1. Spend(t)' = Spend(t) /\ ~Due(t)'
      BY <2>1, <2>2, <2>5 DEF Spend, Due, Going
    <3>2. edit'["runner"] = list /\ \A v \in Writers \ {"runner"} : edit'[v] = edit[v]
      BY <1>r, <2>1, <2>3, LoadFacts
    <3>3. Spent(t) => runner.outcome = "ok"
      BY <2>1, <2>5 DEF Spent, Going
    <3>4. Spent(t) /\ Exists(t) => Spent(t)' \/ Overlap
      BY <2>2, <2>3, <2>5, <3>2, <3>3 DEF Spent, Exists, Overlap, Editing, Writers
    <3> QED
      BY <1>r, <2>1, <2>3, <3>1, <3>4, BudgetLoaded
  <2> QED
    BY <2>4, <2>5
<1> QED
  BY <1>1, <1>2, <1>3, <1>4, <1>5, <1>6, <1>7, <1>8, <1>9, <1>10, <1>11 DEF Runner

LEMMA BudgetInit == Init => BudgetInv
<1> SUFFICES ASSUME Init, NEW t \in Tasks PROVE BudgetFor(t)
  BY DEF BudgetInv
<1>1. Trouble = 0 /\ Spend(t) = 0
  BY DEF Init, Trouble, Spend, Going, IdleRunner
<1>2. Unborn(t)
  BY DEF Init, Unborn, InFile, InEdit, Editing
<1>3. ~Exists(t) /\ ~Due(t)
  BY DEF Init, Exists, InFile, Due, Batch, IdleRunner, NoBatch
<1> QED
  BY <1>1, <1>2, <1>3 DEF BudgetFor

LEMMA BudgetNext == TypeInv /\ BudgetInv /\ [Next]_vars => BudgetInv'
<1> SUFFICES ASSUME TypeInv, BudgetInv, [Next]_vars, NEW t \in Tasks PROVE BudgetFor(t)'
  BY DEF BudgetInv
<1>1. BudgetFor(t)
  BY DEF BudgetInv
<1>2. CASE Runner
  BY <1>1, <1>2, BudgetRunner
<1>3. CASE ~Runner
  BY <1>1, <1>3, BudgetOthers
<1> QED
  BY <1>2, <1>3

\* A follow-up goes out once, and once more at most for every restart, failed save,
\* unconfirmed send and write over an outdated read (primary-task-runner.js 14).
THEOREM SentOnce == Spec => []FollowUpBudget
<1>1. Spec => [](TypeInv /\ BudgetInv)
  <2>1. Init => TypeInv /\ BudgetInv
    BY TypeInit, BudgetInit
  <2>2. (TypeInv /\ BudgetInv) /\ [Next]_vars => (TypeInv /\ BudgetInv)'
    BY TypeNext, BudgetNext
  <2> QED
    BY <2>1, <2>2, PTL DEF Spec
<1>2. TypeInv /\ BudgetInv => FollowUpBudget
  <2> SUFFICES ASSUME TypeInv, BudgetInv, NEW t \in Tasks PROVE sent[t] <= 1 + mishaps + slips
    BY DEF FollowUpBudget
  <2>1. Spend(t) <= Trouble \/ Spend(t) <= 1 + Trouble
    BY DEF BudgetInv, BudgetFor
  <2>2. Trouble \in Nat /\ Spend(t) \in Nat /\ sent[t] \in Nat /\ sent[t] <= Spend(t)
    BY SpendType
  <2>3. mishaps \in Nat /\ slips \in Nat /\ 1 + Trouble = 1 + mishaps + slips
    BY DEF Trouble, TypeInv, TypeOK
  <2> QED
    BY <2>1, <2>2, <2>3
<1> QED
  BY <1>1, <1>2, PTL

-----------------------------------------------------------------------------
(* No task is left in progress.                                            *)

\* One list at most is about to be saved, and only the task in hand is in progress: in the
\* file once it is claimed, in a list that was loaded while it is sent.
CleanInv ==
    Trouble = 0 =>
      /\ \A v, w \in Writers : Editing(v) /\ Editing(w) => v = w
      /\ \A t \in Tasks : file[t].status = "in_progress" =>
            t = runner.hand /\ runner.pc \in {"send", "mark", "marking"}
      /\ \A w \in Writers, t \in Tasks : Editing(w) /\ edit[w][t].status = "in_progress" =>
            t = runner.hand /\ runner.pc \in IF w = "runner" THEN {"claim"} ELSE {"send", "mark"}

LEMMA TroubleFree ==
  ASSUME TypeInv, [Next]_vars, Trouble' = 0
  PROVE  Trouble = 0 /\ mishaps' = mishaps /\ slips' = slips
<1>0. CountsOK /\ CountsOK'
  BY TypeParts, CountsNext
<1>1. /\ mishaps' = mishaps \/ mishaps' = mishaps + 1
      /\ slips' = slips \/ slips' = slips + 1
  BY DEF Next, StartCampaign, EndCampaign, Enqueue, EnqueueSaved, EnqueueFails, Runner,
         Tick, Defer, Launch, Claim, SettleUnsent, ClaimSaved, ClaimFails, Hold, Send, SendUnconfirmed,
         SendFails, Mark, MarkSaved, MarkFails, CloseBrowser, Board, Discard, Restore, Retry, SendHeld,
         Revive, RequestSaved, ReviveSaved, RequestFails, LeadReplies, Restart, vars, bounds,
         Load, LoadAlso, SaveFails, Slip
<1>2. /\ \A k, l \in Nat : k + l = 0 => k = 0 /\ l = 0
      /\ \A m \in Nat : m + 1 # 0
  OBVIOUS
<1>3. mishaps \in Nat /\ slips \in Nat /\ mishaps' \in Nat /\ slips' \in Nat
  BY <1>0 DEF CountsOK
<1>4. mishaps' + slips' = 0
  BY DEF Trouble
<1>5. mishaps + slips = 0 /\ mishaps' = mishaps /\ slips' = slips
  BY <1>1, <1>2, <1>3, <1>4
<1> QED
  BY <1>5 DEF Trouble

\* A load that slips nothing finds no other list open.
LEMMA CleanLoad ==
  ASSUME TypeInv, CleanInv, Trouble = 0, NEW w \in Writers, NEW list \in [Tasks -> Entry],
         NEW b \in BOOLEAN, LoadAlso(w, list, b), file' = file, slips' = slips,
         \A t \in Tasks : file[t].status = "in_progress" =>
            t = runner'.hand /\ runner'.pc \in {"send", "mark", "marking"},
         \A t \in Tasks : list[t].status = "in_progress" =>
            t = runner'.hand /\ runner'.pc \in IF w = "runner" THEN {"claim"} ELSE {"send", "mark"}
  PROVE  CleanInv'
<1>1. ~Overlap
  <2>1. slips \in Nat /\ (Overlap => slips' = slips + 1)
    BY LoadStep DEF TypeInv, TypeOK
  <2>2. \A n \in Nat : n # n + 1
    OBVIOUS
  <2> QED
    BY <2>1, <2>2
<1>2. /\ edit'[w] = list /\ \A v \in Writers \ {w} : edit'[v] = NoEdit
  BY <1>1, LoadStep DEF Overlap
<1> QED
  BY <1>2 DEF CleanInv, Editing

\* A save of the one open list.
LEMMA CleanSave ==
  ASSUME TypeInv, CleanInv, Trouble = 0, NEW w \in Writers, Save(w),
         \A t \in Tasks : edit[w][t].status = "in_progress" =>
            t = runner'.hand /\ runner'.pc \in {"send", "mark", "marking"}
  PROVE  CleanInv'
<1>1. file' = edit[w] /\ \A v \in Writers : edit'[v] = NoEdit
  BY SaveStep DEF CleanInv, Editing
<1> QED
  BY <1>1 DEF CleanInv, Editing

LEMMA CleanOthers ==
  ASSUME TypeInv, CleanInv, [Next]_vars, ~Runner, Trouble' = 0
  PROVE  CleanInv'
<1>0. Trouble = 0 /\ mishaps' = mishaps /\ slips' = slips /\ mishaps \in Nat /\ mishaps # mishaps + 1
  <2>1. mishaps \in Nat /\ \A n \in Nat : n # n + 1
    BY DEF TypeInv, TypeOK
  <2> QED
    BY <2>1, TroubleFree
<1>w. Writers = {"campaign", "board", "runner"}
  BY DEF Writers
<1>b. /\ file \in [Tasks -> Entry] /\ \A t \in Tasks : board.undo[t] # "in_progress"
      /\ Editing("runner") <=> runner.pc \in {"claim", "marking"}
  BY DEF TypeInv, TypeOK, ShapeInv
<1>c. \A t \in Tasks : file[t].status = "in_progress" =>
            t = runner.hand /\ runner.pc \in {"send", "mark", "marking"}
  BY <1>0 DEF CleanInv
<1>l. ASSUME NEW w \in {"campaign", "board"}, NEW list \in [Tasks -> Entry], NEW b \in BOOLEAN,
             LoadAlso(w, list, b), file' = file, runner' = runner,
             \A t \in Tasks : list[t].status = "in_progress" => file[t].status = "in_progress"
      PROVE  CleanInv'
  <2>1. w \in Writers /\ w # "runner"
    BY <1>w
  <2>2. ~Overlap
    <3>1. slips \in Nat /\ (Overlap => slips' = slips + 1)
      BY <1>l, <2>1, LoadStep DEF TypeInv, TypeOK
    <3>2. \A n \in Nat : n # n + 1
      OBVIOUS
    <3> QED
      BY <1>0, <3>1, <3>2
  <2>3. runner.pc # "marking"
    BY <1>b, <1>w, <2>2 DEF Overlap, Editing
  <2> QED
    BY <1>0, <1>c, <1>l, <2>1, <2>3, CleanLoad
<1>s. ASSUME NEW w \in {"campaign", "board"}, Save(w), runner' = runner PROVE CleanInv'
  <2>1. w \in Writers /\ w # "runner" /\ Editing(w)
    BY <1>w, <1>s DEF Save, Editing
  <2>2. \A t \in Tasks : edit[w][t].status = "in_progress" =>
            t = runner.hand /\ runner.pc \in {"send", "mark"}
    BY <1>0, <2>1 DEF CleanInv
  <2> QED
    BY <1>0, <1>s, <2>1, <2>2, CleanSave
<1>u. ASSUME UNCHANGED <<file, edit, runner>> PROVE CleanInv'
  BY <1>0, <1>u DEF CleanInv, Editing
<1>m. \A x \in Tasks, p \in BOOLEAN : /\ Marked(x, "pending", 0, p) \in [Tasks -> Entry]
                                      /\ \A t \in Tasks : Marked(x, "pending", 0, p)[t].status = "in_progress"
                                                            => file[t].status = "in_progress"
  BY <1>b, ListsOfEntries DEF Marked, Statuses
<1>1. ASSUME NEW x \in Tasks, Enqueue(x) PROVE CleanInv'
  BY <1>1, <1>l, <1>m DEF Enqueue, Load
<1>2. CASE EnqueueSaved \/ ReviveSaved \/ RequestSaved
  BY <1>2, <1>s DEF EnqueueSaved, ReviveSaved, RequestSaved
<1>3. CASE EnqueueFails \/ RequestFails \/ Restart
  BY <1>0, <1>3 DEF EnqueueFails, RequestFails, Restart, SaveFails
<1>4. CASE StartCampaign \/ EndCampaign \/ Retry \/ (\E x \in Tasks : LeadReplies(x)) \/ UNCHANGED vars
  BY <1>4, <1>u DEF StartCampaign, EndCampaign, Retry, LeadReplies, vars
<1>5. ASSUME NEW targets \in SUBSET Tasks, Discard(targets) PROVE CleanInv'
  <2>1. /\ Are("discarded", targets) \in [Tasks -> Entry]
        /\ \A t \in Tasks : Are("discarded", targets)[t].status = "in_progress" => file[t].status = "in_progress"
    <3>1. \A t \in Tasks : Are("discarded", targets)[t].status =
                             IF t \in targets THEN "discarded" ELSE file[t].status
      BY <1>b DEF Are, Entry
    <3> QED
      BY <3>1, ListsOfEntries DEF Statuses
  <2> QED
    BY <1>5, <1>l, <2>1 DEF Discard, Load
<1>6. CASE Restore
  <2> DEFINE targets == {x \in Tasks : board.undo[x] # "none" /\ file[x].status = "discarded"}
             list == [x \in Tasks |-> IF x \in targets THEN [file[x] EXCEPT !.status = board.undo[x]]
                                      ELSE file[x]]
  <2>1. LoadAlso("board", list, FALSE) /\ file' = file /\ runner' = runner
    BY <1>6 DEF Restore, Load
  <2>2. list \in [Tasks -> Entry]
    BY BoardLists
  <2>3. \A t \in Tasks : list[t].status = "in_progress" => file[t].status = "in_progress"
    BY <1>b DEF Entry
  <2> HIDE DEF list, targets
  <2> QED
    BY <1>l, <2>1, <2>2, <2>3
<1>7. ASSUME NEW x \in Tasks, SendHeld(x) PROVE CleanInv'
  <2>1. file[x].parked \in BOOLEAN
    BY <1>b DEF Entry
  <2> QED
    BY <1>7, <1>l, <1>m, <2>1 DEF SendHeld, Load
<1>8. ASSUME NEW x \in Tasks, Revive(x) PROVE CleanInv'
  <2> DEFINE list == IF file[x].status = "none" THEN file ELSE Marked(x, "pending", 0, FALSE)
             b == ~Stuck(file[x])
  <2>1. LoadAlso("board", list, b) /\ file' = file /\ runner' = runner
    BY <1>8 DEF Revive
  <2>2. list \in [Tasks -> Entry] /\ b \in BOOLEAN
        /\ \A t \in Tasks : list[t].status = "in_progress" => file[t].status = "in_progress"
    BY <1>b, <1>m DEF Stuck
  <2> HIDE DEF list, b
  <2> QED
    BY <1>l, <2>1, <2>2
<1> QED
  BY <1>1, <1>2, <1>3, <1>4, <1>5, <1>6, <1>7, <1>8 DEF Next, Board

LEMMA CleanRunner ==
  ASSUME TypeInv, CleanInv, Runner, [Next]_vars, Trouble' = 0
  PROVE  CleanInv'
<1>0. Trouble = 0 /\ mishaps' = mishaps /\ slips' = slips /\ mishaps \in Nat /\ mishaps # mishaps + 1
  <2>1. mishaps \in Nat /\ \A n \in Nat : n # n + 1
    BY DEF TypeInv, TypeOK
  <2> QED
    BY <2>1, TroubleFree
<1>r. /\ runner \in RunnerType /\ RunnerOK /\ Batch \subseteq Tasks /\ file \in [Tasks -> Entry]
      /\ "runner" \in Writers /\ FALSE \in BOOLEAN
      /\ Editing("runner") <=> runner.pc \in {"claim", "marking"}
  BY TypeParts DEF RunnerOK, Batch, EditsOK, FileType, Writers
<1>c. /\ \A v, w \in Writers : Editing(v) /\ Editing(w) => v = w
      /\ \A t \in Tasks : file[t].status = "in_progress" =>
            t = runner.hand /\ runner.pc \in {"send", "mark", "marking"}
      /\ \A w \in Writers, t \in Tasks : Editing(w) /\ edit[w][t].status = "in_progress" =>
            t = runner.hand /\ runner.pc \in IF w = "runner" THEN {"claim"} ELSE {"send", "mark"}
  BY <1>0 DEF CleanInv
\* The runner moves, and keeps what it has in hand if it has anything.
<1>u. ASSUME UNCHANGED <<file, edit>>,
             runner.pc \in {"idle", "launch", "work"} \/ (runner.pc = "send" /\ runner'.pc = "mark"
                                                          /\ runner'.hand = runner.hand)
      PROVE  CleanInv'
  <2>1. CASE runner.pc \in {"idle", "launch", "work"}
    <3>1. /\ \A t \in Tasks : file[t].status # "in_progress"
          /\ \A w \in Writers, t \in Tasks : Editing(w) => edit[w][t].status # "in_progress"
      BY <1>c, <2>1
    <3> QED
      BY <1>c, <1>u, <3>1 DEF CleanInv, Editing
  <2>2. CASE runner.pc = "send" /\ runner'.pc = "mark" /\ runner'.hand = runner.hand
    BY <1>c, <1>r, <1>u, <2>2 DEF CleanInv, Editing
  <2> QED
    BY <1>u, <2>1, <2>2
<1>1. CASE Tick \/ Defer \/ (\E result \in {"ok", "error", "signed-out"} : Launch(result)) \/ CloseBrowser
  BY <1>1, <1>u DEF Tick, Defer, Launch, CloseBrowser
<1>2. CASE Hold \/ Send
  BY <1>2, <1>r, <1>u DEF Hold, Send, RunnerType
<1>3. ASSUME NEW reason \in {"error", "signed-out"}, SendFails(reason) PROVE CleanInv'
  BY <1>3, <1>r, <1>u DEF SendFails, RunnerType
<1>4. CASE SendUnconfirmed \/ ClaimFails \/ MarkFails
  BY <1>0, <1>4 DEF SendUnconfirmed, ClaimFails, MarkFails, SaveFails
<1>5. ASSUME NEW x \in Tasks, Claim(x) PROVE CleanInv'
  <2> DEFINE list == IF file[x].status = "none" THEN file
                     ELSE [file EXCEPT ![x].status = "in_progress"]
  <2>1. /\ LoadAlso("runner", list, FALSE) /\ file' = file
        /\ runner.pc = "work" /\ list \in [Tasks -> Entry]
    BY <1>5, Loads, RunnerLists DEF Claim
  <2>2. runner'.pc = "claim" /\ runner'.hand = x
    BY <1>r, <1>5 DEF Claim, RunnerType
  <2>3. \A t \in Tasks : file[t].status # "in_progress"
    BY <1>c, <2>1
  <2>4. \A t \in Tasks : t # x => list[t] = file[t]
    BY RunnerLoads
  <2> HIDE DEF list
  <2>5. \A t \in Tasks : list[t].status = "in_progress" => t = x
    BY <2>3, <2>4
  <2> QED
    BY <1>0, <1>r, <2>1, <2>2, <2>3, <2>5, CleanLoad
<1>6. ASSUME NEW x \in Batch, NEW o \in Outcomes, LoadAlso("runner", Settled(x, o), FALSE), file' = file,
             runner'.pc = "marking", runner'.hand = x,
             runner.pc = "work" \/ (runner.pc = "mark" /\ x = runner.hand)
      PROVE  CleanInv'
  <2>1. \A t \in Tasks : file[t].status = "in_progress" => t = x
    BY <1>c, <1>6
  <2>2. Settled(x, o)[x].status # "in_progress"
    <3>1. x \in Tasks
      BY <1>r
    <3>m. \A s, n, p : Marked(x, s, n, p)[x].status = s
      BY <1>r, <3>1 DEF Marked
    <3>2. CASE file[x].status = "none"
      BY <3>2 DEF Settled
    <3>3. CASE file[x].status # "none" /\ o \in {"ok", "held"}
      <4>1. Settled(x, o) = [file EXCEPT ![x].status = IF o = "ok" THEN "done" ELSE "held"]
        BY <3>3 DEF Settled
      <4> QED
        BY <1>r, <3>1, <3>3, <4>1 DEF Entry
    <3>4. CASE file[x].status # "none" /\ o \in {"signed-out", "error"}
      <4>1. \E s \in {"pending", "failed"} : \E n, p : Settled(x, o) = Marked(x, s, n, p)
        BY <3>4 DEF Settled
      <4>p. PICK s \in {"pending", "failed"} : \E n, p : Settled(x, o) = Marked(x, s, n, p)
        BY <4>1
      <4>2. PICK n, p : Settled(x, o) = Marked(x, s, n, p)
        BY <4>p
      <4>3. Marked(x, s, n, p)[x].status = s
        BY <3>m
      <4> QED
        BY <4>2, <4>3
    <3> QED
      BY <3>2, <3>3, <3>4 DEF Outcomes
  <2>3. \A t \in Tasks : t # x => Settled(x, o)[t] = file[t]
    BY <1>6, RunnerLoads
  <2>4. \A t \in Tasks : Settled(x, o)[t].status # "in_progress"
    BY <2>1, <2>2, <2>3
  <2>5. Settled(x, o) \in [Tasks -> Entry]
    BY ListsOfEntries
  <2> QED
    BY <1>0, <1>r, <1>6, <2>1, <2>4, <2>5, CleanLoad
<1>7. ASSUME NEW x \in Tasks, SettleUnsent(x) PROVE CleanInv'
  <2>1. /\ LoadAlso("runner", Settled(x, runner.browser), FALSE) /\ file' = file
        /\ runner.pc = "work" /\ x \in Batch
    BY <1>7, Loads DEF SettleUnsent
  <2>2. runner'.pc = "marking" /\ runner'.hand = x /\ runner.browser \in Outcomes
    BY <1>r, <1>7 DEF SettleUnsent, RunnerType
  <2> QED
    BY <1>6, <2>1, <2>2
<1>8. CASE Mark
  <2>1. /\ LoadAlso("runner", Settled(runner.hand, runner.outcome), FALSE) /\ file' = file
        /\ runner.pc = "mark" /\ runner.hand \in Batch
    BY <1>r, <1>8, Loads DEF Mark, RunnerOK
  <2>2. runner'.pc = "marking" /\ runner'.hand = runner.hand /\ runner.outcome \in Outcomes
    BY <1>r, <1>8 DEF Mark, RunnerType
  <2> QED
    BY <1>6, <2>1, <2>2
<1>9. CASE ClaimSaved
  <2>1. Save("runner") /\ runner.pc = "claim"
    BY <1>9 DEF ClaimSaved
  <2>2. runner'.pc = "send" /\ runner'.hand = runner.hand
    BY <1>r, <1>9, <2>1 DEF ClaimSaved, RunnerType
  <2>3. \A t \in Tasks : edit["runner"][t].status = "in_progress" => t = runner.hand
    BY <1>c, <1>r, <2>1 DEF Save, Editing
  <2> QED
    BY <1>0, <1>r, <2>1, <2>2, <2>3, CleanSave
<1>10. CASE MarkSaved
  <2>1. Save("runner") /\ runner.pc = "marking"
    BY <1>10 DEF MarkSaved
  <2>2. \A t \in Tasks : edit["runner"][t].status # "in_progress"
    BY <1>c, <1>r, <2>1 DEF Save, Editing
  <2> QED
    BY <1>0, <1>r, <2>1, <2>2, CleanSave
<1> QED
  BY <1>1, <1>2, <1>3, <1>4, <1>5, <1>7, <1>8, <1>9, <1>10 DEF Runner

LEMMA CleanNext == TypeInv /\ CleanInv /\ [Next]_vars => CleanInv'
<1> SUFFICES ASSUME TypeInv, CleanInv, [Next]_vars PROVE CleanInv'
  OBVIOUS
<1>1. CASE Trouble' # 0
  BY <1>1 DEF CleanInv
<1>2. CASE Trouble' = 0 /\ Runner
  BY <1>2, CleanRunner
<1>3. CASE Trouble' = 0 /\ ~Runner
  BY <1>3, CleanOthers
<1> QED
  BY <1>1, <1>2, <1>3

\* Without mishaps and overlapping writes, a task in progress is the one in hand: no way
\* through the runner leaves one behind.
THEOREM NoneLeftInProgress == Spec => []InProgressInHand
<1>1. Spec => [](TypeInv /\ CleanInv)
  <2>1. Init => CleanInv
    BY DEF Init, CleanInv, Editing
  <2>2. Init => TypeInv /\ CleanInv
    BY <2>1, TypeInit
  <2>3. (TypeInv /\ CleanInv) /\ [Next]_vars => (TypeInv /\ CleanInv)'
    BY TypeNext, CleanNext
  <2> QED
    BY <2>2, <2>3, PTL DEF Spec
<1>2. TypeInv /\ CleanInv => InProgressInHand
  BY DEF CleanInv, InProgressInHand, Trouble
<1> QED
  BY <1>1, <1>2, PTL

-----------------------------------------------------------------------------
(* A discarded follow-up stays unsent.                                     *)

\* While no write rests on an outdated read: one list at most is about to be saved; what was
\* discarded for good is in no batch, and discarded in the file and in that list, unless the
\* list is the undo.
DroppedInv ==
    slips = 0 =>
      /\ \A v, w \in Writers : Editing(v) /\ Editing(w) => v = w
      /\ board.act = "discard" =>
           /\ board.targets \subseteq Tasks
           /\ Editing("board") => \A t \in board.targets : edit["board"][t].status = "discarded"
      /\ \A t \in dropped :
           /\ t \notin Batch /\ file[t].status = "discarded"
           /\ \A w \in Writers : Editing(w) =>
                \/ edit[w][t].status = "discarded"
                \/ w = "board" /\ board.act = "restore" /\ t \in board.targets

LEMMA SlipFree ==
  ASSUME TypeInv, [Next]_vars, slips' = 0
  PROVE  slips = 0
<1>0. slips \in Nat
  BY DEF TypeInv, TypeOK
<1>1. slips' = slips \/ slips' = slips + 1
  BY DEF Next, StartCampaign, EndCampaign, Enqueue, EnqueueSaved, EnqueueFails, Runner,
         Tick, Defer, Launch, Claim, SettleUnsent, ClaimSaved, ClaimFails, Hold, Send, SendUnconfirmed,
         SendFails, Mark, MarkSaved, MarkFails, CloseBrowser, Board, Discard, Restore, Retry, SendHeld,
         Revive, RequestSaved, ReviveSaved, RequestFails, LeadReplies, Restart, vars, bounds,
         Load, LoadAlso, SaveFails, Slip
<1>2. \A n \in Nat : n + 1 # 0
  OBVIOUS
<1> QED
  BY <1>0, <1>1, <1>2

\* A load that keeps what was discarded.
LEMMA DroppedLoad ==
  ASSUME TypeInv, DroppedInv, slips = 0, slips' = 0,
         NEW w \in Writers, NEW list \in [Tasks -> Entry], NEW b \in BOOLEAN,
         LoadAlso(w, list, b), file' = file, dropped' = dropped, Batch' = Batch,
         \A t \in dropped :
           \/ list[t].status = "discarded"
           \/ w = "board" /\ board'.act = "restore" /\ t \in board'.targets,
         board'.act = "discard" =>
            /\ board'.targets \subseteq Tasks
            /\ w = "board" => \A t \in board'.targets : list[t].status = "discarded"
  PROVE  DroppedInv' /\ ~b
<1>1. ~Overlap /\ ~b
  <2>1. b \/ Overlap => slips' = slips + 1
    BY LoadStep
  <2>2. \A n \in Nat : n + 1 # 0
    OBVIOUS
  <2> QED
    BY <2>1, <2>2
<1>2. /\ edit'[w] = list /\ \A v \in Writers \ {w} : edit'[v] = NoEdit
  BY <1>1, LoadStep DEF Overlap
<1>3. \A v \in Writers : Editing(v)' => v = w
  BY <1>2 DEF Editing
<1>4. \A t \in dropped' : t \notin Batch' /\ file'[t].status = "discarded"
  BY DEF DroppedInv
<1>5. \A v \in Writers, t \in dropped' : Editing(v)' =>
        \/ edit'[v][t].status = "discarded"
        \/ v = "board" /\ board'.act = "restore" /\ t \in board'.targets
  BY <1>2, <1>3
<1>6. board'.act = "discard" =>
        /\ board'.targets \subseteq Tasks
        /\ Editing("board")' => \A t \in board'.targets : edit'["board"][t].status = "discarded"
  BY <1>2, <1>3 DEF Writers
<1> QED
  BY <1>1, <1>3, <1>4, <1>5, <1>6 DEF DroppedInv

LEMMA DroppedNext == TypeInv /\ DroppedInv /\ [Next]_vars => DroppedInv'
<1> SUFFICES ASSUME TypeInv, DroppedInv, [Next]_vars, slips' = 0 PROVE DroppedInv'
  BY DEF DroppedInv
<1>0. slips = 0
  BY SlipFree
<1>d. /\ \A v, w \in Writers : Editing(v) /\ Editing(w) => v = w
      /\ board.act = "discard" =>
           /\ board.targets \subseteq Tasks
           /\ Editing("board") => \A t \in board.targets : edit["board"][t].status = "discarded"
      /\ \A t \in dropped :
           /\ t \notin Batch /\ file[t].status = "discarded"
           /\ \A w \in Writers : Editing(w) =>
                \/ edit[w][t].status = "discarded"
                \/ w = "board" /\ board.act = "restore" /\ t \in board.targets
  BY <1>0 DEF DroppedInv
<1>w. /\ Writers = {"campaign", "board", "runner"} /\ FALSE \in BOOLEAN
      /\ file \in [Tasks -> Entry] /\ dropped \subseteq Tasks /\ Batch \subseteq Tasks
      /\ runner \in RunnerType /\ RunnerOK /\ board \in BoardType
  BY TypeParts DEF Writers, Batch, EditsOK, FileType, CountsOK, RunnerOK, BoardOK
\* A load that leaves the request alone.
<1>l. ASSUME NEW w \in Writers \ {"board"}, NEW list \in [Tasks -> Entry], LoadAlso(w, list, FALSE),
             file' = file, dropped' = dropped, Batch' = Batch, board' = board,
             \A t \in dropped : list[t] = file[t]
      PROVE  DroppedInv'
  <2>1. \A t \in dropped : list[t].status = "discarded"
    BY <1>d, <1>l
  <2>2. board'.act = "discard" => board'.targets \subseteq Tasks
    BY <1>d, <1>l
  <2> QED
    BY <1>0, <1>w, <1>l, <2>1, <2>2, DroppedLoad
\* Steps that leave the lists alone.
<1>u. ASSUME UNCHANGED <<file, edit>>, dropped' = dropped, board' = board, dropped \cap Batch' = {}
      PROVE  DroppedInv'
  BY <1>d, <1>u DEF DroppedInv, Editing
\* Saves and failed saves of the campaign and the runner.
<1>s. ASSUME NEW w \in Writers \ {"board"}, Save(w) \/ (SaveFails(w) /\ file' = file),
             dropped' = dropped, board' = board, Batch' \subseteq Batch
      PROVE  DroppedInv'
  <2>1. /\ Editing(w) /\ \A v \in Writers : edit'[v] = NoEdit
        /\ file' = edit[w] \/ file' = file
    BY <1>d, <1>s, SaveStep, SaveFailsStep DEF Editing
  <2>2. \A t \in dropped : file'[t].status = "discarded"
    BY <1>d, <1>s, <2>1
  <2> QED
    <3>1. \A v \in Writers : ~Editing(v)'
      BY <2>1 DEF Editing
    <3>2. \A t \in dropped' : t \notin Batch' /\ file'[t].status = "discarded"
      BY <1>d, <1>s, <2>2
    <3>3. board'.act = "discard" => board'.targets \subseteq Tasks
      BY <1>d, <1>s
    <3>4. "board" \in Writers
      BY <1>w
    <3> QED
      BY <3>1, <3>2, <3>3, <3>4 DEF DroppedInv
<1>m. \A x \in Tasks, s \in Statuses, n \in Nat, p \in BOOLEAN :
        /\ Marked(x, s, n, p) \in [Tasks -> Entry]
        /\ \A t \in Tasks : t # x => Marked(x, s, n, p)[t] = file[t]
  <2>1. \A x \in Tasks, s \in Statuses, n \in Nat, p \in BOOLEAN, t \in Tasks :
          t # x => Marked(x, s, n, p)[t] = file[t]
    BY <1>w DEF Marked
  <2> QED
    BY <2>1, ListsOfEntries
<1>1. ASSUME NEW x \in Tasks, Enqueue(x) PROVE DroppedInv'
  <2>1. file[x].status = "none" /\ x \notin dropped
    BY <1>1, <1>d DEF Enqueue
  <2> QED
    <3> DEFINE list == Marked(x, "pending", 0, FALSE)
    <3>0. "pending" \in Statuses /\ 0 \in Nat /\ FALSE \in BOOLEAN
      BY DEF Statuses
    <3>1. list \in [Tasks -> Entry] /\ \A t \in Tasks : t # x => list[t] = file[t]
      BY <1>m, <3>0
    <3>2. /\ LoadAlso("campaign", list, FALSE) /\ file' = file /\ dropped' = dropped
          /\ board' = board /\ Batch' = Batch
      BY <1>1 DEF Enqueue, Load, Batch
    <3> HIDE DEF list
    <3>3. \A t \in dropped : list[t] = file[t]
      BY <1>w, <2>1, <3>1
    <3> QED
      BY <1>l, <1>w, <3>1, <3>2, <3>3
<1>2. CASE EnqueueSaved \/ EnqueueFails
  BY <1>2, <1>s, <1>w DEF EnqueueSaved, EnqueueFails, Batch
<1>3. CASE StartCampaign \/ EndCampaign \/ (\E x \in Tasks : LeadReplies(x)) \/ UNCHANGED vars
  <2>1. dropped \cap Batch = {}
    BY <1>d
  <2> QED
    BY <1>3, <1>u, <2>1 DEF StartCampaign, EndCampaign, LeadReplies, vars, Batch
<1>4. CASE Tick
  <2>1. PICK due \in SUBSET {x \in Tasks : file[x].status = "pending"} :
          runner' = [IdleRunner EXCEPT !.pc = "launch",
                     !.batch = [x \in Tasks |-> IF x \in due THEN file[x].attempts ELSE Absent]]
    BY <1>4 DEF Tick
  <2>2. Batch' \subseteq due
    BY <2>1 DEF IdleRunner, Batch
  <2>3. dropped \cap Batch' = {}
    BY <1>d, <2>2
  <2> QED
    BY <1>4, <1>u, <2>3 DEF Tick
<1>5. CASE Defer \/ CloseBrowser
  <2>1. Batch' = {}
    BY <1>5 DEF Defer, CloseBrowser, Batch, IdleRunner, NoBatch
  <2> QED
    BY <1>5, <1>u, <2>1 DEF Defer, CloseBrowser
<1>b. ASSUME runner'.batch = runner.batch PROVE Batch' = Batch /\ dropped \cap Batch' = {}
  BY <1>b, <1>d DEF Batch
<1>6. ASSUME NEW result \in {"ok", "error", "signed-out"}, Launch(result) PROVE DroppedInv'
  BY <1>6, <1>b, <1>u, <1>w DEF Launch, RunnerType
<1>7. CASE Hold \/ Send \/ SendUnconfirmed
  BY <1>7, <1>b, <1>u, <1>w DEF Hold, Send, SendUnconfirmed, RunnerType
<1>8. ASSUME NEW reason \in {"error", "signed-out"}, SendFails(reason) PROVE DroppedInv'
  BY <1>8, <1>b, <1>u, <1>w DEF SendFails, RunnerType
<1>9. ASSUME NEW x \in Tasks, Claim(x) PROVE DroppedInv'
  <2> DEFINE list == IF file[x].status = "none" THEN file
                     ELSE [file EXCEPT ![x].status = "in_progress"]
  <2>1. /\ LoadAlso("runner", list, FALSE) /\ file' = file /\ dropped' = dropped /\ board' = board
        /\ x \in Batch /\ list \in [Tasks -> Entry]
    BY <1>9, Loads, RunnerLists DEF Claim
  <2>2. runner'.batch = runner.batch
    BY <1>w, <1>9 DEF Claim, RunnerType
  <2>3. \A t \in Tasks : t # x => list[t] = file[t]
    BY RunnerLoads
  <2> HIDE DEF list
  <2> QED
    BY <1>b, <1>d, <1>l, <1>w, <2>1, <2>2, <2>3
<1>10. ASSUME NEW x \in Batch, NEW o \in Outcomes, LoadAlso("runner", Settled(x, o), FALSE),
              file' = file, dropped' = dropped, board' = board, runner'.batch = runner.batch
       PROVE  DroppedInv'
  <2>1. Settled(x, o) \in [Tasks -> Entry] /\ \A t \in Tasks : t # x => Settled(x, o)[t] = file[t]
    BY ListsOfEntries, RunnerLoads
  <2> QED
    BY <1>b, <1>d, <1>l, <1>w, <1>10, <2>1
<1>11. ASSUME NEW x \in Tasks, SettleUnsent(x) PROVE DroppedInv'
  <2>1. runner'.batch = runner.batch /\ runner.browser \in Outcomes /\ x \in Batch
    BY <1>w, <1>11 DEF SettleUnsent, RunnerType
  <2> QED
    BY <1>10, <1>11, <2>1, Loads DEF SettleUnsent
<1>12. CASE Mark
  <2>1. runner'.batch = runner.batch /\ runner.outcome \in Outcomes /\ runner.hand \in Batch
    BY <1>w, <1>12 DEF Mark, RunnerType, RunnerOK
  <2> QED
    BY <1>10, <1>12, <2>1, Loads DEF Mark
<1>13. CASE ClaimSaved \/ ClaimFails
  <2>1. runner'.batch = runner.batch
    BY <1>w, <1>13 DEF ClaimSaved, ClaimFails, RunnerType
  <2> QED
    BY <1>b, <1>s, <1>w, <1>13, <2>1 DEF ClaimSaved, ClaimFails
<1>14. CASE MarkSaved \/ MarkFails
  <2>1. Batch' \subseteq Batch
    <3>1. runner' = Onward /\ runner.hand \in Batch
      BY <1>w, <1>14 DEF MarkSaved, MarkFails, RunnerOK
    <3> QED
      BY <1>w, <3>1 DEF Onward, RunnerType, Batch
  <2> QED
    BY <1>s, <1>w, <1>14, <2>1 DEF MarkSaved, MarkFails
<1>15. ASSUME NEW targets \in SUBSET Tasks, Discard(targets) PROVE DroppedInv'
  <2> DEFINE list == Are("discarded", targets)
  <2>1. /\ LoadAlso("board", list, FALSE) /\ file' = file /\ dropped' = dropped /\ runner' = runner
        /\ board'.act = "discard" /\ board'.targets = targets
    BY <1>15, <1>w DEF Discard, Load, Request, BoardType
  <2>2. list \in [Tasks -> Entry] /\ Batch' = Batch
    BY <2>1, ListsOfEntries DEF Statuses, Batch
  <2>3. \A t \in Tasks : list[t].status = IF t \in targets THEN "discarded" ELSE file[t].status
    BY <1>w DEF Are, Entry
  <2> HIDE DEF list
  <2>4. \A t \in dropped : list[t].status = "discarded"
    BY <1>d, <1>w, <2>3
  <2>5. /\ board'.targets \subseteq Tasks
        /\ \A t \in board'.targets : list[t].status = "discarded"
    BY <2>1, <2>3
  <2> QED
    BY <1>0, <1>w, <2>1, <2>2, <2>4, <2>5, DroppedLoad
<1>16. CASE Restore
  <2> DEFINE targets == {x \in Tasks : board.undo[x] # "none" /\ file[x].status = "discarded"}
             list == [x \in Tasks |-> IF x \in targets THEN [file[x] EXCEPT !.status = board.undo[x]]
                                      ELSE file[x]]
  <2>1. /\ LoadAlso("board", list, FALSE) /\ file' = file /\ dropped' = dropped /\ runner' = runner
        /\ board'.act = "restore" /\ board'.targets = targets
    BY <1>16, <1>w DEF Restore, Load, Request, BoardType
  <2>2. list \in [Tasks -> Entry] /\ Batch' = Batch
    BY <2>1, BoardLists DEF Batch
  <2>3. \A t \in Tasks : t \in targets \/ list[t] = file[t]
    OBVIOUS
  <2> HIDE DEF list, targets
  <2>4. \A t \in dropped : list[t].status = "discarded" \/ t \in board'.targets
    BY <1>d, <1>w, <2>1, <2>3
  <2> QED
    BY <1>0, <1>w, <2>1, <2>2, <2>4, DroppedLoad
<1>17. ASSUME NEW x \in Tasks, SendHeld(x) PROVE DroppedInv'
  <2> DEFINE list == Marked(x, "pending", 0, file[x].parked)
  <2>1. /\ LoadAlso("board", list, FALSE) /\ file' = file /\ dropped' = dropped /\ runner' = runner
        /\ board'.act = "send" /\ file[x].status = "held"
    BY <1>17, <1>w DEF SendHeld, Load, Request, BoardType
  <2>2. list \in [Tasks -> Entry] /\ Batch' = Batch
    BY <2>1, BoardLists DEF Batch
  <2>3. \A t \in Tasks : t = x \/ list[t] = file[t]
    BY <1>w DEF Marked
  <2>4. \A t \in dropped : list[t].status = "discarded"
    BY <1>d, <1>w, <2>1, <2>3
  <2> HIDE DEF list
  <2> QED
    BY <1>0, <1>w, <2>1, <2>2, <2>4, DroppedLoad
<1>18. ASSUME NEW x \in Tasks, Revive(x) PROVE DroppedInv'
  <2> DEFINE list == IF file[x].status = "none" THEN file ELSE Marked(x, "pending", 0, FALSE)
             b == ~Stuck(file[x])
  <2>1. /\ LoadAlso("board", list, b) /\ file' = file /\ dropped' = dropped /\ runner' = runner
        /\ board'.act = "retry"
    BY <1>18, <1>w DEF Revive, BoardType
  <2>2. list \in [Tasks -> Entry] /\ b \in BOOLEAN /\ Batch' = Batch
    BY <2>1, BoardLists DEF Batch, Stuck
  <2>3. \A t \in Tasks : t = x \/ list[t] = file[t]
    BY <1>w DEF Marked
  <2>4. x \in dropped => b
    BY <1>d DEF Stuck
  <2>5. ~b
    <3>1. b => slips' = slips + 1
      BY <1>w, <2>1, <2>2, LoadStep
    <3>2. \A n \in Nat : n + 1 # 0
      OBVIOUS
    <3> QED
      BY <1>0, <3>1, <3>2
  <2>6. \A t \in dropped : list[t].status = "discarded"
    BY <1>d, <1>w, <2>3, <2>4, <2>5
  <2> HIDE DEF list, b
  <2> QED
    BY <1>0, <1>w, <2>1, <2>2, <2>6, DroppedLoad
<1>19. CASE RequestSaved
  <2>1. /\ Editing("board") /\ file' = edit["board"] /\ \A v \in Writers : edit'[v] = NoEdit
    BY <1>19, <1>d, <1>w, SaveStep DEF RequestSaved, Editing
  <2>2. board'.act = "none" /\ Batch' = Batch
    BY <1>19 DEF RequestSaved, Batch
  <2>3. CASE board.act = "discard"
    <3>1. dropped' = dropped \union (board.targets \ Batch)
      BY <1>19, <2>3 DEF RequestSaved
    <3>2. \A t \in dropped' : t \notin Batch /\ edit["board"][t].status = "discarded"
      BY <1>d, <1>w, <2>1, <2>3, <3>1
    <3> QED
      BY <2>1, <2>2, <3>2 DEF DroppedInv, Editing
  <2>4. CASE board.act = "restore"
    <3>1. dropped' = dropped \ board.targets
      BY <1>19, <2>4 DEF RequestSaved
    <3>2. \A t \in dropped' : t \notin Batch /\ edit["board"][t].status = "discarded"
      BY <1>d, <1>w, <2>1, <2>4, <3>1
    <3> QED
      BY <2>1, <2>2, <3>2 DEF DroppedInv, Editing
  <2>5. CASE board.act \notin {"discard", "restore"}
    <3>1. dropped' = dropped
      BY <1>19, <2>5 DEF RequestSaved
    <3>2. \A t \in dropped' : t \notin Batch /\ edit["board"][t].status = "discarded"
      BY <1>d, <1>w, <2>1, <2>5, <3>1
    <3> QED
      BY <2>1, <2>2, <3>2 DEF DroppedInv, Editing
  <2> QED
    BY <2>3, <2>4, <2>5
<1>20. CASE ReviveSaved
  <2>1. /\ Editing("board") /\ file' = edit["board"] /\ \A v \in Writers : edit'[v] = NoEdit
    BY <1>20, <1>d, <1>w, SaveStep DEF ReviveSaved, Editing
  <2>2. board.act = "retry" /\ board'.act \in {"none", "retry"} /\ dropped' = dropped /\ Batch' = Batch
    BY <1>20, <1>w DEF ReviveSaved, Batch, BoardType
  <2>3. \A t \in dropped : edit["board"][t].status = "discarded"
    BY <1>d, <1>w, <2>1, <2>2
  <2> QED
    BY <1>d, <2>1, <2>2, <2>3 DEF DroppedInv, Editing
<1>21. CASE RequestFails
  <2>1. /\ file' = file /\ dropped' = dropped /\ Batch' = Batch
        /\ edit'["board"] = NoEdit /\ \A v \in Writers \ {"board"} : edit'[v] = edit[v]
    BY <1>21, <1>w, SaveFailsStep DEF RequestFails, Batch
  <2>2. board'.act = "none"
    BY <1>21, <1>w DEF RequestFails, BoardType
  <2> QED
    BY <1>d, <1>w, <2>1, <2>2 DEF DroppedInv, Editing
<1>22. CASE Retry
  <2>1. UNCHANGED <<file, edit, dropped, runner>> /\ board'.act = "retry" /\ board.act = "none"
    BY <1>22, <1>w DEF Retry, Request, BoardType
  <2> QED
    BY <1>d, <2>1 DEF DroppedInv, Editing, Batch
<1>23. CASE Restart
  <2>1. /\ file' = Are("pending", {x \in Tasks : file[x].status = "in_progress"})
        /\ dropped' = dropped /\ runner' = IdleRunner /\ \A v \in Writers : edit'[v] = NoEdit
    BY <1>23 DEF Restart
  <2>2. Batch' = {}
    BY <2>1 DEF Batch, IdleRunner, NoBatch
  <2>3. \A t \in dropped : file'[t] = file[t]
    BY <1>d, <1>w, <2>1 DEF Are
  <2>4. board'.act = "none"
    BY <1>23, <1>w DEF Restart, BoardType
  <2> QED
    BY <1>d, <2>1, <2>2, <2>3, <2>4 DEF DroppedInv, Editing
<1> QED
  BY <1>1, <1>2, <1>3, <1>4, <1>5, <1>6, <1>7, <1>8, <1>9, <1>11, <1>12, <1>13, <1>14, <1>15, <1>16,
     <1>17, <1>18, <1>19, <1>20, <1>21, <1>22, <1>23 DEF Next, Runner, Board

\* While no write rests on an outdated read, a follow-up discarded outside a batch is never
\* sent (server.js 2758).
THEOREM DiscardedUnsent == Spec => DiscardedStays
<1>1. Spec => [](TypeInv /\ DroppedInv)
  <2>1. Init => DroppedInv
    BY DEF Init, DroppedInv, Editing, IdleBoard
  <2>2. Init => TypeInv /\ DroppedInv
    BY <2>1, TypeInit
  <2>3. (TypeInv /\ DroppedInv) /\ [Next]_vars => (TypeInv /\ DroppedInv)'
    BY TypeNext, DroppedNext
  <2> QED
    BY <2>2, <2>3, PTL DEF Spec
<1>2. TypeInv /\ DroppedInv /\ [Next]_vars => [slips' = 0 => \A t \in dropped : sent'[t] = sent[t]]_vars
  <2> SUFFICES ASSUME TypeInv, DroppedInv, [Next]_vars, slips' = 0, NEW t \in dropped
               PROVE  sent'[t] = sent[t]
    OBVIOUS
  <2>1. t \notin Batch /\ t \in Tasks /\ sent \in [Tasks -> Nat]
    BY SlipFree DEF DroppedInv, TypeInv, TypeOK
  <2>2. CASE Send \/ SendUnconfirmed
    <3>1. runner.hand # t
      BY <2>1, <2>2 DEF TypeInv, ShapeInv, Send, SendUnconfirmed
    <3> QED
      BY <2>1, <2>2, <3>1 DEF Send, SendUnconfirmed
  <2>3. CASE ~(Send \/ SendUnconfirmed)
    BY <2>3 DEF Next, StartCampaign, EndCampaign, Enqueue, EnqueueSaved, EnqueueFails, Runner,
         Tick, Defer, Launch, Claim, SettleUnsent, ClaimSaved, ClaimFails, Hold,
         SendFails, Mark, MarkSaved, MarkFails, CloseBrowser, Board, Discard, Restore, Retry, SendHeld,
         Revive, RequestSaved, ReviveSaved, RequestFails, LeadReplies, Restart, vars
  <2> QED
    BY <2>2, <2>3
<1> QED
  BY <1>1, <1>2, PTL DEF Spec, DiscardedStays

=============================================================================
