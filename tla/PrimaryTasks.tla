---------------------------- MODULE PrimaryTasks ----------------------------
(* The follow-ups of the desktop app: primary-tasks.json, the runner that  *)
(* sends what is due, the campaign that queues, and the buttons of the     *)
(* board (discard, restore, send anyway, retry).  They share one process   *)
(* and one file, and every change of the file is a load, an edit in memory *)
(* and a save, with awaits in between.                                     *)
(*                                                                         *)
(* Grain.  A load with its edit is one step, the save another; a load that *)
(* overlaps another change, so that one will overwrite the other, is       *)
(* counted in slips.  A task is due or not as TLC likes.  One board        *)
(* request runs at a time.                                                 *)
(*                                                                         *)
(* Scope.  Follow-ups sent from the local browser, one per lead.  The      *)
(* order in a batch, due dates, the other browsers of the app and accept   *)
(* tasks are left out.                                                     *)
(***************************************************************************)
EXTENDS Integers, FiniteSets

CONSTANTS
    Tasks,
    NoTask,
    MaxAttempts,  \* MAX_ATTEMPTS
    MaxTrouble,   \* bound: mishaps and slips together
    MaxOps        \* bound: requests of the board

ASSUME BoundsAssumption ==
    /\ MaxAttempts \in Nat \ {0} /\ NoTask \notin Tasks
    /\ MaxTrouble \in Nat /\ MaxOps \in Nat

VARIABLES
    file,      \* primary-tasks.json
    edit,      \* who is between load and save: the list about to be saved
    campaign,  \* a campaign is running
    runner,    \* the drain: its batch with the attempts it read, browser, task in hand, outcome
    board,     \* the request being served, its tasks; what a discard can undo
    replied,   \* LinkedIn: leads who wrote back
    sent,      \* LinkedIn: follow-ups sent
    dropped,   \* history: tasks discarded outside any batch, not restored
    mishaps,   \* history: restarts, failed saves, sends that went out unconfirmed
    slips,     \* history: loads that overlap another change, marks that rest on an old one
    ops        \* requests of the board

vars == <<file, edit, campaign, runner, board, replied, sent, dropped,
          mishaps, slips, ops>>
bounds  == <<mishaps, slips, ops>>

Writers  == {"campaign", "runner", "board"}
Statuses == {"none", "pending", "in_progress", "done", "failed", "held", "discarded"}
Outcomes == {"ok", "held", "error", "signed-out"}

Entry  == [status: Statuses, attempts: Nat, parked: BOOLEAN]
NoEdit == <<>>
Absent == -1   \* not in the batch

TypeOK ==
    /\ file \in [Tasks -> Entry]
    /\ edit \in [Writers -> [Tasks -> Entry] \union {NoEdit}]
    /\ campaign \in BOOLEAN
    /\ runner \in [pc: {"idle", "launch", "work", "claim", "send", "mark", "marking"},
                   batch: [Tasks -> Nat \union {Absent}], browser: Outcomes \ {"held"},
                   hand: Tasks \union {NoTask}, outcome: Outcomes]
    /\ board \in [act: {"none", "discard", "restore", "send", "retry"}, targets: SUBSET Tasks,
                  undo: [Tasks -> Statuses]]
    /\ replied \subseteq Tasks /\ dropped \subseteq Tasks
    /\ sent \in [Tasks -> Nat]
    /\ mishaps \in Nat /\ slips \in Nat /\ mishaps + slips <= MaxTrouble
    /\ ops \in 0 .. MaxOps

NoBatch == [t \in Tasks |-> Absent]
IdleRunner == [pc |-> "idle", batch |-> NoBatch, browser |-> "ok", hand |-> NoTask,
               outcome |-> "ok"]
IdleBoard  == [act |-> "none", targets |-> {}, undo |-> [t \in Tasks |-> "none"]]

Init ==
    /\ file = [t \in Tasks |-> [status |-> "none", attempts |-> 0, parked |-> FALSE]]
    /\ edit = [w \in Writers |-> NoEdit]
    /\ campaign = FALSE
    /\ runner = IdleRunner
    /\ board = IdleBoard
    /\ replied = {} /\ sent = [t \in Tasks |-> 0]
    /\ dropped = {}
    /\ mishaps = 0 /\ slips = 0 /\ ops = 0

-----------------------------------------------------------------------------
(* The file.                                                               *)

MayGoWrong == mishaps + slips < MaxTrouble

Slip(slipped) ==
    /\ slipped => MayGoWrong
    /\ slips' = IF slipped THEN slips + 1 ELSE slips

Overlap == \E v \in Writers : edit[v] # NoEdit

\* loadTasks and the edit of the list.
LoadAlso(w, list, slipped) ==
    /\ edit[w] = NoEdit
    /\ Slip(slipped \/ Overlap)
    /\ edit' = [edit EXCEPT ![w] = list]

Load(w, list) == LoadAlso(w, list, FALSE)

\* saveTasks: the list goes to the file as it was loaded and edited.
Save(w) ==
    /\ edit[w] # NoEdit
    /\ file' = edit[w]
    /\ edit' = [edit EXCEPT ![w] = NoEdit]

\* The save fails; the file stays.
SaveFails(w) ==
    /\ edit[w] # NoEdit
    /\ MayGoWrong
    /\ edit' = [edit EXCEPT ![w] = NoEdit]
    /\ mishaps' = mishaps + 1

Marked(t, status, attempts, parked) ==
    [file EXCEPT ![t] = [status |-> status, attempts |-> attempts, parked |-> parked]]

\* Mutant: a discarded task, failed before, counts as failed.
Stuck_Discarded(e) == \/ e.status \in {"failed", "discarded"}
                      \/ e.status = "pending" /\ e.parked

Stuck(e) == \/ e.status = "failed"
            \/ e.status = "pending" /\ e.parked

-----------------------------------------------------------------------------
(* The campaign: introductions queue follow-ups.                           *)

StartCampaign ==
    /\ ~campaign
    /\ campaign' = TRUE
    /\ UNCHANGED <<file, edit, runner, board, replied, sent, dropped, bounds>>

EndCampaign ==
    /\ campaign /\ edit["campaign"] = NoEdit
    /\ campaign' = FALSE
    /\ UNCHANGED <<file, edit, runner, board, replied, sent, dropped, bounds>>

Enqueue(t) ==
    /\ campaign /\ file[t].status = "none"
    /\ Load("campaign", Marked(t, "pending", 0, FALSE))
    /\ UNCHANGED <<file, campaign, runner, board, replied, sent, dropped, mishaps, ops>>

EnqueueSaved ==
    /\ Save("campaign")
    /\ UNCHANGED <<campaign, runner, board, replied, sent, dropped, bounds>>

EnqueueFails ==
    /\ SaveFails("campaign")
    /\ UNCHANGED <<file, campaign, runner, board, replied, sent, dropped, slips, ops>>

-----------------------------------------------------------------------------
(* The runner.                                                             *)

Batch == {t \in Tasks : runner.batch[t] # Absent}

\* A tick in an idle app reads the tasks that are due.
Tick ==
    /\ runner.pc = "idle" /\ ~campaign
    /\ \E due \in (SUBSET {t \in Tasks : file[t].status = "pending"}) \ {{}} :
        runner' = [IdleRunner EXCEPT !.pc = "launch",
                     !.batch = [t \in Tasks |-> IF t \in due THEN file[t].attempts ELSE Absent]]
    /\ UNCHANGED <<file, edit, campaign, board, replied, sent, dropped, bounds>>

\* guardIdle: a campaign started in between.
Defer ==
    /\ runner.pc = "launch" /\ campaign
    /\ runner' = IdleRunner
    /\ UNCHANGED <<file, edit, campaign, board, replied, sent, dropped, bounds>>

\* The browser opens, does not open, or opens signed out.
Launch(result) ==
    /\ runner.pc = "launch" /\ ~campaign
    /\ runner' = [runner EXCEPT !.pc = "work", !.browser = result]
    /\ UNCHANGED <<file, edit, campaign, board, replied, sent, dropped, bounds>>

\* A task of the batch is claimed, whatever its status has become since.
Claim(t) ==
    /\ runner.pc = "work" /\ runner.browser = "ok" /\ t \in Batch
    /\ Load("runner", IF file[t].status = "none" THEN file
                      ELSE [file EXCEPT ![t].status = "in_progress"])
    /\ runner' = [runner EXCEPT !.pc = "claim", !.hand = t]
    /\ UNCHANGED <<file, campaign, board, replied, sent, dropped, mishaps, ops>>

ClaimSaved ==
    /\ runner.pc = "claim"
    /\ Save("runner")
    /\ runner' = [runner EXCEPT !.pc = "send"]
    /\ UNCHANGED <<campaign, board, replied, sent, dropped, bounds>>

ClaimFails ==
    /\ runner.pc = "claim"
    /\ SaveFails("runner")
    /\ runner' = [runner EXCEPT !.pc = "mark", !.outcome = "error"]
    /\ UNCHANGED <<file, campaign, board, replied, sent, dropped, slips, ops>>

\* sendInThread reads the thread first: a lead who wrote back is held.  (The code's read is
\* best effort: an answer it misses is sent over, which no property here is about.)
Hold ==
    /\ runner.pc = "send" /\ runner.hand \in replied
    /\ runner' = [runner EXCEPT !.pc = "mark", !.outcome = "held"]
    /\ UNCHANGED <<file, edit, campaign, board, replied, sent, dropped, bounds>>

Send ==
    /\ runner.pc = "send" /\ runner.hand \notin replied
    /\ sent' = [sent EXCEPT ![runner.hand] = @ + 1]
    /\ runner' = [runner EXCEPT !.pc = "mark"]
    /\ UNCHANGED <<file, edit, campaign, board, replied, dropped, bounds>>

\* It went out, but neither the empty composer nor the echo showed.
SendUnconfirmed ==
    /\ runner.pc = "send" /\ runner.hand \notin replied
    /\ MayGoWrong
    /\ mishaps' = mishaps + 1
    /\ sent' = [sent EXCEPT ![runner.hand] = @ + 1]
    /\ runner' = [runner EXCEPT !.pc = "mark", !.outcome = "error"]
    /\ UNCHANGED <<file, edit, campaign, board, replied, dropped, slips, ops>>

\* Nothing went out.
SendFails(reason) ==
    /\ runner.pc = "send"
    /\ runner' = [runner EXCEPT !.pc = "mark", !.outcome = reason]
    /\ UNCHANGED <<file, edit, campaign, board, replied, sent, dropped, bounds>>

\* Mutant: parking sets the flag and leaves the status.
Settled_ParkOnly(t, outcome) ==
    LET tried == runner.batch[t] + 1 IN
    IF file[t].status = "none" THEN file ELSE
    CASE outcome = "ok"          -> [file EXCEPT ![t].status = "done"]
      [] outcome = "held"        -> [file EXCEPT ![t].status = "held"]
      [] outcome = "signed-out"  -> [file EXCEPT ![t].parked = TRUE]
      [] outcome = "error"       ->
           Marked(t, IF tried >= MaxAttempts THEN "failed" ELSE "pending", tried, FALSE)

\* What a task becomes: final, parked, or one attempt further.
Settled(t, outcome) ==
    LET tried == runner.batch[t] + 1 IN
    IF file[t].status = "none" THEN file ELSE
    CASE outcome = "ok"          -> [file EXCEPT ![t].status = "done"]
      [] outcome = "held"        -> [file EXCEPT ![t].status = "held"]
      [] outcome = "signed-out"  -> Marked(t, "pending", runner.batch[t], TRUE)
      [] outcome = "error"       ->
           Marked(t, IF tried >= MaxAttempts THEN "failed" ELSE "pending", tried, FALSE)

Mark ==
    /\ runner.pc = "mark"
    /\ Load("runner", Settled(runner.hand, runner.outcome))
    /\ runner' = [runner EXCEPT !.pc = "marking"]
    /\ UNCHANGED <<file, campaign, board, replied, sent, dropped, mishaps, ops>>

\* A browser that did not open, or is signed out, settles every task of the batch.
SettleUnsent(t) ==
    /\ runner.pc = "work" /\ runner.browser # "ok" /\ t \in Batch
    /\ Load("runner", Settled(t, runner.browser))
    /\ runner' = [runner EXCEPT !.pc = "marking", !.hand = t]
    /\ UNCHANGED <<file, campaign, board, replied, sent, dropped, mishaps, ops>>

Onward == [runner EXCEPT !.pc = "work", !.hand = NoTask, !.outcome = "ok",
                         !.batch[runner.hand] = Absent]

MarkSaved ==
    /\ runner.pc = "marking"
    /\ Save("runner")
    /\ runner' = Onward
    /\ UNCHANGED <<campaign, board, replied, sent, dropped, bounds>>

\* A final mark that fails never flips the task back to pending.
MarkFails ==
    /\ runner.pc = "marking"
    /\ SaveFails("runner")
    /\ runner' = Onward
    /\ UNCHANGED <<file, campaign, board, replied, sent, dropped, slips, ops>>

CloseBrowser ==
    /\ runner.pc = "work" /\ Batch = {}
    /\ runner' = IdleRunner
    /\ UNCHANGED <<file, edit, campaign, board, replied, sent, dropped, bounds>>

-----------------------------------------------------------------------------
(* The board.                                                              *)

Request(act, targets) ==
    /\ board.act = "none" /\ ops < MaxOps
    /\ ops' = ops + 1
    /\ board' = [board EXCEPT !.act = act, !.targets = targets]

Are(status, targets) == [t \in Tasks |-> IF t \in targets THEN [file[t] EXCEPT !.status = status]
                                         ELSE file[t]]

\* The stuck tasks of some groups of the strip.
Discard(targets) ==
    /\ targets # {} /\ \A t \in targets : Stuck(file[t])
    /\ Request("discard", targets)
    /\ Load("board", Are("discarded", targets))
    /\ UNCHANGED <<file, campaign, runner, replied, sent, dropped, mishaps>>

\* Mutant: undo does not look whether the task is still discarded.
Restore_Unchecked ==
    LET targets == {t \in Tasks : board.undo[t] # "none"} IN
    /\ targets # {}
    /\ Request("restore", targets)
    /\ Load("board", [t \in Tasks |-> IF t \in targets
                                      THEN [file[t] EXCEPT !.status = board.undo[t]]
                                      ELSE file[t]])
    /\ UNCHANGED <<file, campaign, runner, replied, sent, dropped, mishaps>>

\* Undo: what is still discarded becomes what it was.
Restore ==
    LET targets == {t \in Tasks : board.undo[t] # "none" /\ file[t].status = "discarded"} IN
    /\ targets # {}
    /\ Request("restore", targets)
    /\ Load("board", [t \in Tasks |-> IF t \in targets
                                      THEN [file[t] EXCEPT !.status = board.undo[t]]
                                      ELSE file[t]])
    /\ UNCHANGED <<file, campaign, runner, replied, sent, dropped, mishaps>>

\* Send anyway: the operator has read the reply.
SendHeld(t) ==
    /\ file[t].status = "held"
    /\ Request("send", {t})
    /\ Load("board", Marked(t, "pending", 0, file[t].parked))
    /\ UNCHANGED <<file, campaign, runner, replied, sent, dropped, mishaps>>

\* The answer of a request other than retry.
RequestSaved ==
    /\ board.act # "retry"
    /\ Save("board")
    /\ board' = [act |-> "none", targets |-> {},
                 undo |-> IF board.act = "discard"
                          THEN [t \in Tasks |->
                                  IF t \notin board.targets THEN "none"
                                  ELSE IF edit["board"][t].parked THEN "pending" ELSE "failed"]
                          ELSE board.undo]
    /\ dropped' = CASE board.act = "discard" -> dropped \union (board.targets \ Batch)
                    [] board.act = "restore" -> dropped \ board.targets
                    [] OTHER -> dropped
    /\ UNCHANGED <<campaign, runner, replied, sent, bounds>>

\* Retry lists what failed or is parked, then marks one after the other.
Retry ==
    LET targets == {t \in Tasks : Stuck(file[t])} IN
    /\ targets # {}
    /\ Request("retry", targets)
    /\ UNCHANGED <<file, edit, campaign, runner, replied, sent, dropped, mishaps, slips>>

\* The mark asks nothing of the task; it may have been sent since.
Revive(t) ==
    /\ board.act = "retry" /\ t \in board.targets
    /\ LoadAlso("board", IF file[t].status = "none" THEN file ELSE Marked(t, "pending", 0, FALSE),
                ~Stuck(file[t]))
    /\ board' = [board EXCEPT !.targets = @ \ {t}]
    /\ UNCHANGED <<file, campaign, runner, replied, sent, dropped, mishaps, ops>>

ReviveSaved ==
    /\ board.act = "retry"
    /\ Save("board")
    /\ board' = IF board.targets = {} THEN [board EXCEPT !.act = "none"] ELSE board
    /\ UNCHANGED <<campaign, runner, replied, sent, dropped, bounds>>

\* A failed save answers 500; what a retry had not come to is not revived.
RequestFails ==
    /\ SaveFails("board")
    /\ board' = [board EXCEPT !.act = "none", !.targets = {}]
    /\ UNCHANGED <<file, campaign, runner, replied, sent, dropped, slips, ops>>

-----------------------------------------------------------------------------
(* LinkedIn and the process.                                               *)

LeadReplies(t) ==
    /\ file[t].status \notin {"none", "done"}
    /\ replied' = replied \union {t}
    /\ UNCHANGED <<file, edit, campaign, runner, board, sent, dropped, bounds>>

\* The app dies and starts again: resetInProgress makes what was in progress pending.
Restart ==
    /\ MayGoWrong
    /\ mishaps' = mishaps + 1
    /\ file' = Are("pending", {t \in Tasks : file[t].status = "in_progress"})
    /\ edit' = [w \in Writers |-> NoEdit]
    /\ campaign' = FALSE
    /\ runner' = IdleRunner
    /\ board' = [board EXCEPT !.act = "none", !.targets = {}]
    /\ UNCHANGED <<replied, sent, dropped, slips, ops>>

Runner ==
    \/ Tick \/ Defer \/ \E result \in {"ok", "error", "signed-out"} : Launch(result)
    \/ \E t \in Tasks : Claim(t) \/ SettleUnsent(t)
    \/ ClaimSaved \/ ClaimFails
    \/ Hold \/ Send \/ SendUnconfirmed
    \/ \E reason \in {"error", "signed-out"} : SendFails(reason)
    \/ Mark \/ MarkSaved \/ MarkFails \/ CloseBrowser

Board ==
    \/ \E targets \in SUBSET Tasks : Discard(targets)
    \/ Restore \/ Retry
    \/ \E t \in Tasks : SendHeld(t) \/ Revive(t)
    \/ RequestSaved \/ ReviveSaved \/ RequestFails

Next ==
    \/ StartCampaign \/ EndCampaign
    \/ \E t \in Tasks : Enqueue(t)
    \/ EnqueueSaved \/ EnqueueFails
    \/ Runner \/ Board
    \/ \E t \in Tasks : LeadReplies(t)
    \/ Restart

Spec == Init /\ [][Next]_vars

-----------------------------------------------------------------------------
(* Properties.                                                             *)

\* A follow-up goes out once, however the runner, the campaign and the board
\* take turns, but for a restart, an unconfirmed send, a failed save or a write
\* over an outdated read (primary-task-runner.js 14: "No double-send").
FollowUpBudget == \A t \in Tasks : sent[t] <= 1 + mishaps + slips

\* A follow-up the operator discarded, when the runner did not have it already in its
\* batch, is never sent, whatever is restored, undone and retried (server.js 2758: "a
\* discarded task can never be sent"); as long as no write over an outdated read has
\* brought it back.
DiscardedStays == [][slips' = 0 => \A t \in dropped : sent'[t] = sent[t]]_vars

\* As long as there was no mishap and no write over an outdated read, a task in progress
\* is the one in hand: no way through the runner leaves one behind, which nobody would
\* select again until the app restarts.
InProgressInHand ==
    mishaps + slips = 0 => \A t \in Tasks : file[t].status = "in_progress" => t = runner.hand
=============================================================================
