------------------------------- MODULE RunLoop -------------------------------
(***************************************************************************)
(* tools/replay_bot/run.js, the unattended loop: take a code, import it,   *)
(* capture the map, write it, leave the replay, repeat.  Each action is    *)
(* the code between two awaits (or between two files written); the state   *)
(* is what the process holds in memory, the files it shares with the       *)
(* review server and the console, and the client's screen.                 *)
(*                                                                         *)
(* Looping = FALSE is a league run over the feed with the attempt ledger;  *)
(* Looping = TRUE is --code-stack, which cycles a file of codes and keeps  *)
(* no ledger.  The operator's handlers are the review server's /go, /stop  *)
(* and /failures/retry, the pause flag, and Ctrl-C.                        *)
(***************************************************************************)
EXTENDS ReplayClient, Sequences, FiniteSets

CONSTANTS
    Looping,        \* --code-stack
    Feed,           \* the games of the feed
    FinishedAt,     \* when each of them finished: the queue's order
    CodeStack,      \* the code stack file before the first run
    FailRetryCap,   \* FAIL_RETRY_CAP
    FailStreakCap,  \* --fail-streak-cap
    EscTries,       \* TIMING.esc.tries
    BackTries,      \* ESC presses to back out of the replay list (2)
    RetryUsed       \* whether the operator uses /failures/retry

ASSUME RunAssumption ==
    /\ Looping \in BOOLEAN /\ RetryUsed \in BOOLEAN
    /\ Feed \subseteq Games /\ FinishedAt \in [Feed -> Nat]
    /\ CodeStack \in Seq(Games)
    /\ FailRetryCap \in Nat \ {0} /\ FailStreakCap \in Nat \ {0}
    /\ EscTries \in Nat /\ BackTries \in Nat

VARIABLES
    \* the process
    pc,             \* where the loop is
    code,           \* the code being worked, or None
    queue,          \* league codes not yet taken
    state,          \* the ledger as read at start-up and edited since
    maps,           \* the records of this run's contribution
    imported,       \* this code's replay was seen on screen
    presses,        \* ESC presses of the current clearing loop
    consecutive,    \* consecutiveFailures
    loopFailures,   \* per-code failures after import (loop mode)
    stopRequested,
    \* the files
    ledger,         \* state/attempts.json
    out,            \* the records in out/*.json
    stack,          \* state/console_codes.json
    stopFlag, pauseFlag,
    \* history, read by properties only
    tries,          \* imports of each code since the operator last reset it
    asked           \* where the run was when /stop was last accepted

processVars == <<pc, code, queue, state, maps, imported, presses, consecutive,
                 loopFailures, stopRequested>>
fileVars == <<ledger, out, stack, stopFlag, pauseFlag>>
historyVars == <<tries, asked>>
vars == <<processVars, fileVars, historyVars, clientVars>>

Statuses == {"none", "opened", "captured", "failed"}
Entry == [status : Statuses, fails : 0..FailRetryCap]
NoEntry == [status |-> "none", fails |-> 0]
NoLedger == [g \in Games |-> NoEntry]

\* A record names the game it was filed under and the one that was on screen.
Record == [game : Games, shown : Games]

Places == {"off", "boot", "checkpoint", "paused", "logOpen", "clearEsc", "backOut",
           "leaveFirst", "closeFirst", "import", "waitLoad", "capture", "save",
           "logDone", "logFail", "leave", "close"}

\* Where a code is being worked.
Working == Places \ {"off", "boot", "checkpoint", "paused"}

TypeOK ==
    /\ ClientTypeOK
    /\ pc \in Places
    /\ code \in Games \cup {None}
    /\ queue \in SUBSET Games
    /\ state \in [Games -> Entry] /\ ledger \in [Games -> Entry]
    /\ maps \in SUBSET Record /\ out \in SUBSET Record
    /\ imported \in BOOLEAN
    /\ presses \in Nat /\ consecutive \in 0..(FailStreakCap - 1)
    /\ loopFailures \in [Games -> 0..FailRetryCap]
    /\ stopRequested \in BOOLEAN /\ stopFlag \in BOOLEAN /\ pauseFlag \in BOOLEAN
    /\ stack \in Seq(Games)
    /\ tries \in [Games -> Nat]
    /\ asked \in {"no", "boot", "run"}

-----------------------------------------------------------------------------
(* Helpers of run.js.                                                      *)

\* A failed entry under the cap is retried; every other entry is done.
IsDoneEntry(e) ==
    /\ e.status # "none"
    /\ e.status = "failed" => e.fails >= FailRetryCap

Pending(l) == {g \in Feed : ~ IsDoneEntry(l[g])}

Oldest(todo) == {g \in todo : \A h \in todo : FinishedAt[g] <= FinishedAt[h]}

\* Declared beside loopFailures; no statement of the loop ever adds to it.
retired == {}

\* The first code of the stack that is not retired, and the stack rotated past
\* it (rotating past all of them leaves the stack as it was).
Live(stk) == {i \in 1..Len(stk) : stk[i] \notin retired}
FirstLive(stk) == CHOOSE i \in Live(stk) : \A j \in Live(stk) : i <= j
\* Mutants: a rotation that forgets to push the code back, and one that pushes
\* it just under the next code instead of to the bottom.
RotatedAway(stk, i) == SubSeq(stk, i + 1, Len(stk))
RotatedUnderNext(stk, i) ==
    IF i = 1 /\ Len(stk) > 1
    THEN <<stk[2], stk[1]>> \o SubSeq(stk, 3, Len(stk))
    ELSE stk
Rotated(stk, i) == SubSeq(stk, i + 1, Len(stk)) \o SubSeq(stk, 1, i)

\* Counts past the cap behave as the cap does.
CountLoopFailure(fails, g) ==
    [fails EXCEPT ![g] = IF @ < FailRetryCap THEN @ + 1 ELSE @]

\* The process is gone: only its files and the client's screen remain.
Exit ==
    /\ pc' = "off"
    /\ code' = None /\ queue' = {} /\ state' = NoLedger /\ maps' = {}
    /\ imported' = FALSE /\ presses' = 0 /\ consecutive' = 0
    /\ loopFailures' = [g \in Games |-> 0]
    /\ stopRequested' = FALSE

ExitOnly == Exit /\ UNCHANGED <<fileVars, historyVars, clientVars>>

-----------------------------------------------------------------------------
(* Start-up.                                                               *)

Init ==
    /\ ClientInit
    /\ pc = "off" /\ code = None /\ queue = {} /\ state = NoLedger /\ maps = {}
    /\ imported = FALSE /\ presses = 0 /\ consecutive = 0
    /\ loopFailures = [g \in Games |-> 0] /\ stopRequested = FALSE
    /\ ledger = NoLedger /\ out = {} /\ stack = CodeStack
    /\ stopFlag = FALSE /\ pauseFlag = FALSE
    /\ tries = [g \in Games |-> 0] /\ asked = "no"

\* POST /go: one run at a time; the operator confirms the client is on the
\* replay history tab; a stale stop flag goes.  The spawned run.js reads the
\* ledger first and keeps that copy.
Go ==
    /\ pc = "off" /\ screen = "home"
    /\ pc' = "boot"
    /\ stopFlag' = FALSE
    /\ state' = IF Looping THEN NoLedger ELSE ledger
    /\ queue' = IF Looping THEN {} ELSE Pending(ledger)
    /\ asked' = "no"
    /\ UNCHANGED <<code, maps, imported, presses, consecutive, loopFailures,
                   stopRequested, ledger, out, stack, pauseFlag, tries, clientVars>>

NothingToDo ==
    /\ pc = "boot" /\ ~ Looping /\ queue = {}
    /\ ExitOnly

\* Mutant: the out file is not read back, each run starts from no maps.
BootedEmpty ==
    /\ pc = "boot" /\ (Looping \/ queue # {})
    /\ pc' = "checkpoint"
    /\ maps' = {}
    /\ stopFlag' = FALSE
    /\ UNCHANGED <<code, queue, state, imported, presses, consecutive, loopFailures,
                   stopRequested, ledger, out, stack, pauseFlag, historyVars, clientVars>>

\* The OCR workers are up: the records already in the out file are read back (a
\* loop session writes a file of its own) and the stop flag is deleted.
Booted ==
    /\ pc = "boot" /\ (Looping \/ queue # {})
    /\ pc' = "checkpoint"
    /\ maps' = IF Looping THEN {} ELSE out
    /\ stopFlag' = FALSE
    /\ UNCHANGED <<code, queue, state, imported, presses, consecutive, loopFailures,
                   stopRequested, ledger, out, stack, pauseFlag, historyVars, clientVars>>

-----------------------------------------------------------------------------
(* Between maps.                                                           *)

StopAtCheckpoint ==
    /\ pc = "checkpoint" /\ (stopRequested \/ stopFlag)
    /\ ExitOnly

PauseAtCheckpoint ==
    /\ pc = "checkpoint" /\ ~ stopRequested /\ ~ stopFlag /\ pauseFlag
    /\ pc' = "paused"
    /\ UNCHANGED <<code, queue, state, maps, imported, presses, consecutive,
                   loopFailures, stopRequested, fileVars, historyVars, clientVars>>

\* Mutant: a paused loop waits for the flag to go and for nothing else.
StopWhilePausedNever == FALSE

\* The poll of a paused loop looks at the stop flag only while the pause flag is
\* still there.
StopWhilePaused ==
    /\ pc = "paused" /\ (stopRequested \/ (pauseFlag /\ stopFlag))
    /\ ExitOnly

MayProceed ==
    \/ pc = "checkpoint" /\ ~ stopRequested /\ ~ stopFlag /\ ~ pauseFlag
    \/ pc = "paused" /\ ~ stopRequested /\ ~ pauseFlag

NothingLeft ==
    /\ MayProceed
    /\ IF Looping THEN Live(stack) = {} ELSE queue = {}
    /\ ExitOnly

\* Mutant: the entry is written after the map, not before the import.
TakeFromQueueUnlogged ==
    /\ MayProceed /\ ~ Looping
    /\ \E g \in Oldest(queue) :
         /\ code' = g
         /\ queue' = queue \ {g}
    /\ pc' = "clearEsc"
    /\ UNCHANGED <<state, maps, imported, presses, consecutive, loopFailures,
                   stopRequested, fileVars, historyVars, clientVars>>

TakeFromQueue ==
    /\ MayProceed /\ ~ Looping
    /\ \E g \in Oldest(queue) :
         /\ code' = g
         /\ queue' = queue \ {g}
    /\ pc' = "logOpen"
    /\ UNCHANGED <<state, maps, imported, presses, consecutive, loopFailures,
                   stopRequested, fileVars, historyVars, clientVars>>

TakeFromStack ==
    /\ MayProceed /\ Looping /\ Live(stack) # {}
    /\ code' = stack[FirstLive(stack)]
    /\ stack' = Rotated(stack, FirstLive(stack))
    /\ pc' = "clearEsc" /\ imported' = FALSE /\ presses' = 0
    /\ UNCHANGED <<queue, state, maps, consecutive, loopFailures, stopRequested,
                   ledger, out, stopFlag, pauseFlag, historyVars, clientVars>>

\* Mutant: fail_count restarts from zero with every opening.
LogOpenAfresh ==
    /\ pc = "logOpen"
    /\ state' = [state EXCEPT ![code] = [status |-> "opened", fails |-> 0]]
    /\ ledger' = state'
    /\ pc' = "clearEsc" /\ imported' = FALSE /\ presses' = 0
    /\ UNCHANGED <<code, queue, maps, consecutive, loopFailures, stopRequested,
                   out, stack, stopFlag, pauseFlag, historyVars, clientVars>>

\* The ledger entry is written before the import; fail_count carries over.
LogOpen ==
    /\ pc = "logOpen"
    /\ state' = [state EXCEPT ![code].status = "opened"]
    /\ ledger' = state'
    /\ pc' = "clearEsc" /\ imported' = FALSE /\ presses' = 0
    /\ UNCHANGED <<code, queue, maps, consecutive, loopFailures, stopRequested,
                   out, stack, stopFlag, pauseFlag, historyVars, clientVars>>

-----------------------------------------------------------------------------
(* Getting the client to where the import chunk starts.                    *)

\* Nothing changes but the place, the ESC presses and the client.
Keep == UNCHANGED <<code, queue, state, maps, imported, consecutive, loopFailures,
                    stopRequested, fileVars, historyVars>>

Step(place) == pc' = place /\ presses' = 0 /\ Keep

\* Input to a client that will not come to the foreground throws.
Unfocused(place) == "focus" \in Faults /\ Step(place) /\ UNCHANGED clientVars

ClearEscMenu ==
    /\ pc = "clearEsc"
    /\ \E up \in EscMenuUp :
         \/ ~ up /\ Step("backOut") /\ UNCHANGED clientVars
         \/ up /\ presses >= EscTries /\ Step("logFail") /\ UNCHANGED clientVars
         \/ up /\ Unfocused("logFail")
         \/ /\ up /\ presses < EscTries /\ PressEsc
            /\ presses' = presses + 1 /\ pc' = pc /\ Keep

BackOut ==
    /\ pc = "backOut"
    /\ \E up \in ReplayHistoryUp :
         \/ ~ up /\ Step("leaveFirst") /\ UNCHANGED clientVars
         \/ up /\ presses >= BackTries /\ Step("logFail") /\ UNCHANGED clientVars
         \/ up /\ Unfocused("logFail")
         \/ /\ up /\ presses < BackTries /\ PressEsc
            /\ presses' = presses + 1 /\ pc' = pc /\ Keep

\* Mutant: the import does not look for an open replay.
LeaveFirstSkipped == pc = "leaveFirst" /\ Step("import") /\ UNCHANGED clientVars

LeaveFirst ==
    /\ pc = "leaveFirst"
    /\ \E open \in InReplay :
         \/ ~ open /\ Step("import") /\ UNCHANGED clientVars
         \/ open /\ Step("closeFirst") /\ LeaveReplay
         \/ open /\ Unfocused("logFail")

\* waitFor(false): the replay reads as closed, or the wait times out.
CloseFirst ==
    /\ pc = "closeFirst"
    /\ \E open \in InReplay : Step(IF open THEN "logFail" ELSE "import")
    /\ UNCHANGED clientVars

-----------------------------------------------------------------------------
(* One map.                                                                *)

Import ==
    /\ pc = "import"
    /\ \/ /\ PlayImport(code)
          /\ pc' = "waitLoad" /\ presses' = 0
          /\ tries' = IF Looping THEN tries ELSE [tries EXCEPT ![code] = @ + 1]
          /\ UNCHANGED <<code, queue, state, maps, imported, consecutive, loopFailures,
                         stopRequested, fileVars, asked>>
       \/ Unfocused("logFail")

Loaded ==
    /\ pc = "waitLoad" /\ TRUE \in InReplay
    /\ pc' = "capture" /\ imported' = TRUE
    /\ UNCHANGED <<code, queue, state, maps, presses, consecutive, loopFailures,
                   stopRequested, fileVars, historyVars, clientVars>>

\* The wait ran out, or the dialog was diagnosed and dismissed.
NotLoaded ==
    /\ pc = "waitLoad" /\ FALSE \in InReplay
    /\ screen = "loading" => "late" \in Faults
    /\ Step("logFail") /\ UNCHANGED clientVars

\* Mutant: the ledger is marked before the contribution is written.
CaptureLedgerFirst ==
    /\ pc = "capture"
    /\ pc' = "save"
    /\ state' = [state EXCEPT ![code].status = "captured"]
    /\ ledger' = state'
    /\ UNCHANGED <<code, queue, maps, imported, presses, consecutive, loopFailures,
                   stopRequested, out, stack, stopFlag, pauseFlag, historyVars,
                   clientVars>>

Capture ==
    /\ pc = "capture"
    /\ \/ Step("save")
       \/ "capture" \in Faults /\ Step("logFail")
    /\ UNCHANGED clientVars

\* The record is filed under the code's game; what it holds is the replay that
\* was on screen.  The whole contribution is written after every map: over the
\* league's one file, or over the file of this loop session.
SaveMap ==
    /\ pc = "save"
    /\ maps' = maps \cup {[game |-> code, shown |-> shown]}
    /\ out' = (IF Looping THEN out ELSE {}) \cup maps'
    /\ pc' = "logDone"
    /\ UNCHANGED <<code, queue, state, imported, presses, consecutive, loopFailures,
                   stopRequested, ledger, stack, stopFlag, pauseFlag, historyVars,
                   clientVars>>

LogDone ==
    /\ pc = "logDone"
    /\ state' = IF Looping THEN state ELSE [state EXCEPT ![code].status = "captured"]
    /\ ledger' = IF Looping THEN ledger ELSE state'
    /\ consecutive' = 0
    /\ pc' = "leave"
    /\ UNCHANGED <<code, queue, maps, imported, presses, loopFailures, stopRequested,
                   out, stack, stopFlag, pauseFlag, historyVars, clientVars>>

LogFail ==
    /\ pc = "logFail"
    /\ ledger' = IF Looping THEN ledger
                 ELSE [state EXCEPT ![code] = [status |-> "failed", fails |-> @.fails + 1]]
    /\ IF consecutive + 1 >= FailStreakCap
       THEN Exit
       ELSE /\ state' = IF Looping THEN state ELSE ledger'
            /\ loopFailures' = IF Looping /\ imported
                               THEN CountLoopFailure(loopFailures, code)
                               ELSE loopFailures
            /\ consecutive' = consecutive + 1
            /\ pc' = "leave"
            /\ UNCHANGED <<code, queue, maps, imported, presses, stopRequested>>
    /\ UNCHANGED <<out, stack, stopFlag, pauseFlag, historyVars, clientVars>>

\* Leave, whatever happened; played only if a replay is seen to be open.
NextMap == pc' = "checkpoint" /\ code' = None /\ imported' = FALSE
KeepLeaving == UNCHANGED <<queue, state, maps, presses, consecutive, loopFailures,
                           stopRequested, fileVars, historyVars>>

Leave ==
    /\ pc = "leave"
    /\ \E open \in InReplay :
         \/ ~ open /\ NextMap /\ UNCHANGED clientVars
         \/ open /\ pc' = "close" /\ LeaveReplay /\ UNCHANGED <<code, imported>>
    /\ KeepLeaving

Close ==
    /\ pc = "close" /\ FALSE \in InReplay
    /\ NextMap /\ KeepLeaving /\ UNCHANGED clientVars

\* Mutant: the wait for the replay to close has no timeout.
CannotLeaveNever == FALSE

CannotLeave ==
    /\ \/ pc = "close" /\ TRUE \in InReplay
       \/ pc = "leave" /\ TRUE \in InReplay /\ "focus" \in Faults
    /\ ExitOnly

-----------------------------------------------------------------------------
(* The operator, and what goes wrong.                                      *)

\* POST /stop, while the run it started is alive.
Stop ==
    /\ pc # "off" /\ ~ stopFlag
    /\ stopFlag' = TRUE
    /\ asked' = IF pc = "boot" THEN "boot" ELSE "run"
    /\ UNCHANGED <<processVars, ledger, out, stack, pauseFlag, tries, clientVars>>

\* The pause flag: the console's buttons or the hotkey, at any time.
TogglePause ==
    /\ pauseFlag' = ~ pauseFlag
    /\ UNCHANGED <<processVars, ledger, out, stack, stopFlag, historyVars, clientVars>>

\* Ctrl-C: the first asks for a stop, the second forces the exit; before the
\* handler is installed it ends the process.
Interrupt ==
    /\ pc # "off"
    /\ IF pc = "boot" \/ stopRequested
       THEN Exit
       ELSE /\ stopRequested' = TRUE
            /\ UNCHANGED <<pc, code, queue, state, maps, imported, presses,
                           consecutive, loopFailures>>
    /\ UNCHANGED <<fileVars, historyVars, clientVars>>

\* POST /failures/retry deletes the entry from the file.  The page offers the
\* failed entries.
Retry(g) ==
    /\ RetryUsed /\ ~ Looping
    /\ ledger[g].status = "failed"
    /\ ledger' = [ledger EXCEPT ![g] = NoEntry]
    /\ tries' = [tries EXCEPT ![g] = 0]
    /\ UNCHANGED <<processVars, out, stack, stopFlag, pauseFlag, asked, clientVars>>

\* The operator puts the client back on the replay history tab before a run.
TidyClient ==
    /\ pc = "off" /\ screen # "home"
    /\ screen' = "home" /\ shown' = None
    /\ UNCHANGED <<processVars, fileVars, historyVars, since>>

\* The process dies.  writeFileSync truncates before it writes, and readJson
\* takes an unreadable file for an empty one.
Crash ==
    /\ "crash" \in Faults /\ pc # "off"
    /\ Exit
    /\ \/ UNCHANGED <<ledger, out, stack>>
       \/ /\ "torn" \in Faults
          /\ \/ /\ pc \in {"logOpen", "logDone", "logFail"} /\ ~ Looping
                /\ ledger' = NoLedger /\ UNCHANGED <<out, stack>>
             \/ /\ pc = "save"
                /\ \E lost \in SUBSET maps : out' = IF Looping THEN out \ lost ELSE {}
                /\ UNCHANGED <<ledger, stack>>
             \/ /\ MayProceed /\ Looping
                /\ stack' = <<>> /\ UNCHANGED <<ledger, out>>
    /\ UNCHANGED <<stopFlag, pauseFlag, historyVars, clientVars>>

ClientStep ==
    /\ ClientDraws
    /\ UNCHANGED <<processVars, fileVars, historyVars>>

-----------------------------------------------------------------------------
Between == StopAtCheckpoint \/ PauseAtCheckpoint \/ StopWhilePaused \/ NothingLeft
           \/ TakeFromQueue \/ TakeFromStack \/ LogOpen

Position == ClearEscMenu \/ BackOut \/ LeaveFirst \/ CloseFirst

OneMap == Import \/ Loaded \/ NotLoaded \/ Capture \/ SaveMap \/ LogDone \/ LogFail
          \/ Leave \/ Close \/ CannotLeave

LoopStep == NothingToDo \/ Booted \/ Between \/ Position \/ OneMap

Operator == Go \/ Stop \/ TogglePause \/ Interrupt \/ TidyClient
            \/ \E g \in Games : Retry(g)

Next == LoopStep \/ Operator \/ ClientStep \/ Crash

Spec == Init /\ [][Next]_vars

\* Node runs the loop's awaits to their end and the client finishes loading;
\* nothing makes the operator act.
FairSpec == Spec /\ WF_vars(LoopStep) /\ WF_vars(ClientStep)

-----------------------------------------------------------------------------
(* Properties.                                                             *)

RecordedGames == {r.game : r \in out}

\* A code is imported at most FAIL_RETRY_CAP times however the runs that opened it
\* ended, unless the operator asks for another try: fail_count is carried over by
\* the next opening, and an entry a dead run left 'opened' counts as done
\* (run.js isDoneEntry and the ledger write before the import).
TriesBounded == \A g \in Games : tries[g] <= FailRetryCap

\* A game the ledger calls captured is in the contribution file: the record is
\* on disk before the ledger says so, whatever dies in between.
CapturedIsOnDisk ==
    \A g \in Games : ledger[g].status = "captured" => g \in RecordedGames

\* "A crash mid-map must not leave a code looking untried": every code that was
\* played into the client has an entry in the ledger on disk, until the operator
\* deletes it.
TriedIsLogged ==
    \A g \in Games : tries[g] > 0 => ledger[g].status # "none"

\* What is filed under a game was read from that game's replay, although the bot
\* only ever sees that *a* replay is open.
RecordIsRight == \A r \in out : r.game = r.shown

\* A run never loses a map that an earlier run, or an earlier map of this run,
\* has written to the contribution.
NoMapLost == [][out \subseteq out']_out

\* An entry that is not in the ledger file only comes back because its code is
\* opened: what /failures/retry deleted stays deleted until then.
DeletedStaysDeleted ==
    [][\A g \in Games :
          ledger[g].status = "none" /\ ledger'[g].status # "none"
              => pc = "logOpen" /\ code = g]_ledger

\* After /stop was accepted ("stopping after the current map") no other code is
\* taken.
NoCodeAfterStop == [][asked # "no" => code' \in {code, None}]_code

\* The stack is rotated, never shortened or reordered in any other way: whatever
\* happens to the run, the same codes stay in the file.
StackKeepsItsCodes == {stack[i] : i \in 1..Len(stack)} = {CodeStack[i] : i \in 1..Len(CodeStack)}

\* Once the stop flag is up and the run is past its start-up, the run ends: the
\* map in progress finishes, every wait times out, and a pause does not hold it.
StopEnds == []<>(stopFlag => pc \in {"off", "boot"})

\* A looping run that is neither stopped nor paused comes around again and again to
\* every code of the stack that is not to be retired.
EveryCodeComesAround ==
    \A g \in Games :
        []<>(code = g \/ loopFailures[g] >= FailRetryCap \/ pc \in {"off", "paused"})

\* "at FAIL_RETRY_CAP (3) the code is retired for the run - logged and skipped"
\* (ARCHITECTURE.md:2188): a code that failed so often after its import is not
\* taken again.
RetiredIsSkipped ==
    [][\A g \in Games : loopFailures[g] >= FailRetryCap => ~ (code' = g /\ code # g)]_code
=============================================================================
