--------------------------- MODULE RunLoopProofs ---------------------------
(***************************************************************************)
(* What holds of run.js for every set of games, every cap, and every set   *)
(* of faults (where a torn file would break a property, the theorem says   *)
(* that there is none).                                                    *)
(***************************************************************************)
EXTENDS RunLoop, TLAPS

\* Where the code being worked has its 'opened' entry in the ledger.
Opened == {"clearEsc", "backOut", "leaveFirst", "closeFirst", "import", "waitLoad",
           "capture", "save", "logDone", "logFail"}

\* fail_count reaches the cap only in a failed entry.
Counted(e) == e.status # "failed" => e.fails < FailRetryCap

\* The ledger in memory and on disk, the queue, and the code being worked.
LedgerInv ==
    /\ TypeOK
    /\ \A g \in Games : Counted(state[g]) /\ Counted(ledger[g])
    /\ \A g \in queue : ~ IsDoneEntry(state[g])
    /\ pc \in Working => code \in Games
    /\ Looping => state = NoLedger /\ ledger = NoLedger /\ pc # "logOpen"
    /\ pc \in Working /\ ~ Looping => code \notin queue
    /\ pc = "logOpen" => ~ IsDoneEntry(state[code])
    /\ pc \in Opened /\ ~ Looping => state[code].status = "opened"
    /\ pc \in {"capture", "save"} => screen = "replay"

\* How often a code was imported, as its entry tells it.
Tallied(e, n) ==
    /\ e.status = "none" => n = 0
    /\ e.status = "failed" => n <= e.fails
    /\ e.status \in {"opened", "captured"} => n <= e.fails + 1

BeforeImport == {"clearEsc", "backOut", "leaveFirst", "closeFirst", "import"}

\* The tries of a code are behind its entry, in the file and in memory; a code that
\* is about to be imported has one to spare, and its entry is on disk.
TriesInv ==
    /\ \A g \in Games : Tallied(ledger[g], tries[g])
    /\ pc # "off" => \A g \in Games : Tallied(state[g], tries[g])
    /\ pc \in BeforeImport /\ ~ Looping => tries[code] <= state[code].fails
    /\ pc \in Opened /\ ~ Looping => ledger[code] = state[code]

\* A league run's contribution in memory is the one on disk, and a game either ledger
\* calls captured is in the files.
CaptureInv ==
    /\ pc \notin {"off", "boot"} /\ ~ Looping => out = maps
    /\ \A g \in Games : ledger[g].status = "captured" => g \in RecordedGames
    /\ pc # "off" => \A g \in Games : state[g].status = "captured" => g \in RecordedGames
    /\ pc = "logDone" => code \in RecordedGames

-----------------------------------------------------------------------------
(* The client.                                                             *)

\* A probe that answers TRUE saw what it looks for.
LEMMA SeenOpen == TRUE \in InReplay => screen = "replay"
  BY DEF InReplay, Reads

LEMMA ClientStays ==
    ASSUME ClientTypeOK, NEW g \in Games,
           PressEsc \/ (screen = "replay" /\ LeaveReplay) \/ PlayImport(g) \/ ClientDraws \/ UNCHANGED clientVars
    PROVE  ClientTypeOK'
<1> USE ClientAssumption DEF ClientTypeOK, Screens
<1>1. CASE PressEsc
  BY <1>1 DEF PressEsc, AfterEsc
<1>2. CASE screen = "replay" /\ LeaveReplay
  BY <1>2 DEF LeaveReplay
<1>3. CASE PlayImport(g)
  <2>1. CASE screen' = "loading" /\ shown' = g
             /\ since' = [h \in Games |-> IF h = g THEN 0
                                          ELSE IF since[h] < RingSize THEN since[h] + 1
                                          ELSE RingSize]
    BY <2>1, ClientAssumption
  <2>2. CASE /\ UNCHANGED <<shown, since>>
             /\ screen \in {"home", "list", "esc"} /\ screen' \in {"home", "list", "esc"}
    BY <2>2
  <2>3. CASE UNCHANGED clientVars
    BY <2>3 DEF clientVars
  <2> QED BY <1>3, <2>1, <2>2, <2>3 DEF PlayImport
<1>4. CASE ClientDraws
  BY <1>4 DEF ClientDraws
<1>5. CASE UNCHANGED clientVars
  BY <1>5 DEF clientVars
<1> QED BY <1>1, <1>2, <1>3, <1>4, <1>5

-----------------------------------------------------------------------------
(* LedgerInv.                                                              *)

LEMMA EmptyLedger ==
    /\ NoLedger \in [Games -> Entry]
    /\ \A g \in Games : NoLedger[g] = NoEntry
    /\ Counted(NoEntry) /\ ~ IsDoneEntry(NoEntry)
  BY RunAssumption DEF NoLedger, NoEntry, Entry, Statuses, Counted, IsDoneEntry

LEMMA InitLedgerInv == Init => LedgerInv
<1> SUFFICES ASSUME Init PROVE LedgerInv
  OBVIOUS
<1>1. ClientTypeOK
  BY ClientAssumption DEF Init, ClientInit, ClientTypeOK, Screens
<1>2. loopFailures \in [Games -> 0..FailRetryCap] /\ tries \in [Games -> Nat]
  BY RunAssumption DEF Init
<1>3. consecutive \in 0..(FailStreakCap - 1)
  BY RunAssumption DEF Init
<1>4. TypeOK
  BY <1>1, <1>2, <1>3, EmptyLedger, RunAssumption DEF Init, TypeOK, Places
<1> QED BY <1>4, EmptyLedger DEF Init, LedgerInv, Working, Opened

\* The process ends: what the files hold decides.
LEMMA ExitKeepsLedgerInv ==
    ASSUME LedgerInv, Exit,
           ledger' \in [Games -> Entry], \A g \in Games : Counted(ledger'[g]),
           Looping => ledger' = NoLedger,
           out' \in SUBSET Record, stack' \in Seq(Games),
           stopFlag' \in BOOLEAN, pauseFlag' \in BOOLEAN,
           UNCHANGED <<historyVars, clientVars>>
    PROVE  LedgerInv'
<1>1. ClientTypeOK'
  BY DEF LedgerInv, TypeOK, ClientTypeOK, clientVars
<1>2. /\ loopFailures' \in [Games -> 0..FailRetryCap]
      /\ consecutive' \in 0..(FailStreakCap - 1) /\ presses' \in Nat
  BY RunAssumption DEF Exit
<1>3. /\ pc' \in Places /\ code' \in Games \cup {None} /\ queue' \in SUBSET Games
      /\ state' \in [Games -> Entry] /\ maps' \in SUBSET Record
      /\ imported' \in BOOLEAN /\ stopRequested' \in BOOLEAN
  BY EmptyLedger DEF Exit, Places
<1>4. TypeOK'
  BY <1>1, <1>2, <1>3 DEF LedgerInv, TypeOK, historyVars
<1> QED BY <1>4, EmptyLedger DEF LedgerInv, Exit, Working, Opened

LEMMA ExitOnlyKeepsLedgerInv ==
    ASSUME LedgerInv, ExitOnly
    PROVE  LedgerInv'
  BY ExitKeepsLedgerInv DEF LedgerInv, TypeOK, ExitOnly, fileVars

\* A step that moves the loop on while a code is worked, its entry 'opened'.
LEMMA WorkingStepKeepsLedgerInv ==
    ASSUME LedgerInv, pc \in Opened, pc' \in Opened,
           UNCHANGED <<code, queue, state, loopFailures, consecutive, stopRequested,
                       ledger, stack, stopFlag, pauseFlag, asked>>,
           maps' \in SUBSET Record, out' \in SUBSET Record,
           imported' \in BOOLEAN, presses' \in Nat, tries' \in [Games -> Nat],
           ClientTypeOK', pc' \in {"capture", "save"} => screen' = "replay"
    PROVE  LedgerInv'
<1>1. TypeOK'
  BY DEF LedgerInv, TypeOK, Opened, Places
<1> QED BY <1>1 DEF LedgerInv, Opened, Working, Places

\* A step that only moves the loop or changes flags outside a code's work.
LEMMA IdleStepKeepsLedgerInv ==
    ASSUME LedgerInv, pc' \in Places \ (Opened \cup {"logOpen"}),
           pc' \in Working => pc \in Working,
           code' \in {code, None},
           pc' \in Working => code' = code,
           UNCHANGED <<queue, state, ledger, presses, consecutive, loopFailures,
                       stack, tries>>,
           maps' \in SUBSET Record, out' \in SUBSET Record,
           imported' \in BOOLEAN, stopRequested' \in BOOLEAN, stopFlag' \in BOOLEAN,
           pauseFlag' \in BOOLEAN, asked' \in {"no", "boot", "run"},
           ClientTypeOK'
    PROVE  LedgerInv'
<1>1. TypeOK'
  BY DEF LedgerInv, TypeOK
<1> QED BY <1>1 DEF LedgerInv, Opened, Working, Places

\* The bot's and the operator's steps that touch neither ledger nor code.
LEMMA ClientAndFlags ==
    ASSUME LedgerInv,
           ClientStep \/ TidyClient \/ Stop \/ TogglePause \/ UNCHANGED vars
    PROVE  LedgerInv'
<1> USE DEF LedgerInv
<1>1. ClientTypeOK'
  <2>1. CASE ClientStep \/ UNCHANGED clientVars
    BY <2>1, ClientAssumption DEF TypeOK, ClientTypeOK, ClientStep, ClientDraws, clientVars, Screens
  <2>2. CASE TidyClient
    BY <2>2, ClientAssumption DEF TypeOK, ClientTypeOK, TidyClient, Screens
  <2> QED BY <2>1, <2>2 DEF Stop, TogglePause, vars
<1>2. /\ UNCHANGED <<pc, code, queue, state, ledger>>
      /\ pc \in {"capture", "save"} => screen' = "replay"
  BY DEF ClientStep, ClientDraws, TidyClient, Stop, TogglePause, vars, processVars, fileVars,
         clientVars
<1>3. TypeOK'
  BY <1>1, <1>2 DEF TypeOK, ClientStep, TidyClient, Stop, TogglePause, vars, processVars,
                    fileVars, historyVars
<1> QED BY <1>2, <1>3

LEMMA PositionKeepsLedgerInv ==
    ASSUME LedgerInv, Position
    PROVE  LedgerInv'
<1>1. pc \in Opened /\ code \in Games \cup {None} /\ presses \in Nat /\ ClientTypeOK
  BY DEF Position, ClearEscMenu, BackOut, LeaveFirst, CloseFirst, Opened, LedgerInv, TypeOK
<1>2. /\ Keep /\ pc' \in Opened \ {"capture", "save"}
      /\ presses' \in {0, presses + 1}
      /\ PressEsc \/ (screen = "replay" /\ LeaveReplay) \/ UNCHANGED clientVars
  <2>1. CASE ClearEscMenu
    BY <2>1 DEF ClearEscMenu, Step, Unfocused, Keep, Opened, PressEsc
  <2>2. CASE BackOut
    BY <2>2 DEF BackOut, Step, Unfocused, Keep, Opened, PressEsc
  <2>3. CASE LeaveFirst
    BY <2>3 DEF LeaveFirst, Step, Unfocused, Keep, Opened, LeaveReplay, InReplay, Reads
  <2>4. CASE CloseFirst
    BY <2>4 DEF CloseFirst, Step, Keep, Opened
  <2> QED BY <2>1, <2>2, <2>3, <2>4 DEF Position
<1>3. code \in Games
  BY <1>1 DEF LedgerInv, Opened, Working, Places
<1>4. ClientTypeOK'
  BY <1>1, <1>2, <1>3, ClientStays
<1> QED BY <1>1, <1>2, <1>4, WorkingStepKeepsLedgerInv
        DEF Keep, LedgerInv, TypeOK, fileVars, historyVars

LEMMA OneMapKeepsLedgerInv ==
    ASSUME LedgerInv, OneMap
    PROVE  LedgerInv'
<1> USE DEF LedgerInv
<1>a. /\ pc \in Working /\ code \in Games
      /\ ClientTypeOK /\ maps \in SUBSET Record /\ out \in SUBSET Record
  BY DEF OneMap, Import, Loaded, NotLoaded, Capture, SaveMap, LogDone, LogFail, Leave, Close,
         CannotLeave, Working, Places, TypeOK
<1>1. CASE Import
  <2>1. /\ pc \in Opened /\ pc' \in Opened /\ tries' \in [Games -> Nat] /\ presses' \in Nat
        /\ PlayImport(code) \/ UNCHANGED clientVars
    BY <1>a, <1>1 DEF Import, Unfocused, Step, Keep, Opened, TypeOK, historyVars
  <2>2. ClientTypeOK'
    BY <1>a, <2>1, ClientStays
  <2> QED BY <1>1, <2>1, <2>2, WorkingStepKeepsLedgerInv
          DEF Import, Unfocused, Step, Keep, TypeOK, fileVars, historyVars
<1>2. CASE Loaded \/ NotLoaded \/ Capture
  <2>1. /\ pc \in Opened /\ pc' \in Opened /\ presses' \in Nat /\ imported' \in BOOLEAN
        /\ UNCHANGED <<code, queue, state, maps, consecutive, loopFailures, stopRequested,
                       fileVars, historyVars, clientVars>>
    <3>1. CASE Loaded
      BY <3>1 DEF Loaded, Opened, TypeOK
    <3>2. CASE NotLoaded
      BY <3>2 DEF NotLoaded, Step, Keep, Opened, TypeOK
    <3>3. CASE Capture
      BY <3>3 DEF Capture, Step, Keep, Opened, TypeOK
    <3> QED BY <1>2, <3>1, <3>2, <3>3
  <2>2. ClientTypeOK'
    BY <1>a, <2>1, ClientStays
  <2>3. pc' \in {"capture", "save"} => screen' = "replay"
    BY <1>2, <2>1, SeenOpen DEF Loaded, NotLoaded, Capture, Step, clientVars
  <2> QED BY <1>a, <2>1, <2>2, <2>3, WorkingStepKeepsLedgerInv
          DEF TypeOK, fileVars, historyVars
<1>3. CASE SaveMap
  <2>1. shown \in Games
    BY <1>a, <1>3 DEF SaveMap, ClientTypeOK
  <2>2. [game |-> code, shown |-> shown] \in Record
    BY <1>a, <2>1 DEF Record
  <2>3. ClientTypeOK'
    BY <1>a, <1>3, ClientStays DEF SaveMap
  <2> QED BY <1>a, <1>3, <2>2, <2>3, WorkingStepKeepsLedgerInv
          DEF SaveMap, Opened, TypeOK, historyVars
<1>4. CASE LogDone
  <2>1. ClientTypeOK' /\ pc' = "leave" /\ consecutive' \in 0..(FailStreakCap - 1)
    BY <1>a, <1>4, ClientStays, RunAssumption DEF LogDone
  <2>2. CASE Looping
    BY <1>a, <1>4, <2>1, <2>2, RunAssumption
       DEF LogDone, TypeOK, Places, Working, Opened, historyVars
  <2>3. CASE ~ Looping
    <3>1. /\ state' = [state EXCEPT ![code].status = "captured"] /\ ledger' = state'
          /\ UNCHANGED <<code, queue>> /\ pc = "logDone"
      BY <1>4, <2>3 DEF LogDone
    <3>2. state' \in [Games -> Entry] /\ \A g \in Games : Counted(state'[g])
      BY <1>a, <2>3, <3>1 DEF TypeOK, Entry, Statuses, Counted, Opened
    <3>3. \A g \in queue : state'[g] = state[g]
      BY <1>a, <2>3, <3>1 DEF TypeOK
    <3>4. TypeOK'
      BY <1>4, <2>1, <3>1, <3>2 DEF LogDone, TypeOK, Places, historyVars
    <3> QED BY <1>a, <2>1, <2>3, <3>1, <3>2, <3>3, <3>4 DEF TypeOK, Opened, Working
  <2> QED BY <2>2, <2>3
<1>5. CASE LogFail
  <2>1. ClientTypeOK' /\ pc = "logFail"
    BY <1>a, <1>5, ClientStays DEF LogFail
  <2>2. /\ ledger' \in [Games -> Entry] /\ \A g \in Games : Counted(ledger'[g])
        /\ Looping => ledger' = NoLedger
        /\ ~ Looping => \A g \in queue : ledger'[g] = state[g]
    <3>1. CASE Looping
      BY <1>5, <3>1 DEF LogFail, TypeOK
    <3>2. CASE ~ Looping
      <4>1. ledger' = [state EXCEPT ![code] = [status |-> "failed", fails |-> @.fails + 1]]
        BY <1>5, <3>2 DEF LogFail
      <4>2. state[code].fails + 1 \in 0..FailRetryCap
        <5>1. state[code].status = "opened" /\ Counted(state[code]) /\ state[code] \in Entry
          BY <1>a, <2>1, <3>2 DEF TypeOK, Opened
        <5> QED BY <5>1, RunAssumption DEF Entry, Counted
      <4> QED BY <1>a, <3>2, <4>1, <4>2 DEF TypeOK, Entry, Statuses, Counted
    <3> QED BY <3>1, <3>2
  <2>3. CASE Exit
    BY <1>5, <2>2, <2>3, ExitKeepsLedgerInv DEF LogFail, TypeOK
  <2>4. CASE ~ Exit
    <3>1. /\ state' = IF Looping THEN state ELSE ledger'
          /\ loopFailures' \in {loopFailures, CountLoopFailure(loopFailures, code)}
          /\ consecutive' = consecutive + 1 /\ consecutive + 1 < FailStreakCap
          /\ pc' = "leave"
          /\ UNCHANGED <<code, queue, maps, imported, presses, stopRequested,
                         out, stack, stopFlag, pauseFlag, historyVars, clientVars>>
      BY <1>5, <2>4, RunAssumption DEF LogFail, TypeOK
    <3>2. loopFailures' \in [Games -> 0..FailRetryCap]
      <4>1. /\ loopFailures \in [Games -> 0..FailRetryCap]
            /\ \A n \in 0..FailRetryCap : n < FailRetryCap => n + 1 \in 0..FailRetryCap
        BY RunAssumption DEF TypeOK
      <4> QED BY <1>a, <3>1, <4>1 DEF CountLoopFailure
    <3>3. consecutive' \in 0..(FailStreakCap - 1)
      BY <3>1, RunAssumption DEF TypeOK
    <3>4. TypeOK'
      BY <2>1, <2>2, <3>1, <3>2, <3>3 DEF TypeOK, Places, historyVars
    <3> QED BY <1>a, <2>2, <3>1, <3>4 DEF TypeOK, Opened, Working
  <2> QED BY <2>3, <2>4
<1>6. CASE CannotLeave
  BY <1>6, ExitOnlyKeepsLedgerInv DEF CannotLeave
<1>7. CASE Leave \/ Close
  <2>1. /\ pc' \in {"checkpoint", "close"}
        /\ pc' = "close" => UNCHANGED code
        /\ code' \in {code, None} /\ imported' \in BOOLEAN
        /\ (screen = "replay" /\ LeaveReplay) \/ UNCHANGED clientVars
    BY <1>7, SeenOpen DEF Leave, Close, NextMap, LeaveReplay, TypeOK
  <2>2. ClientTypeOK'
    BY <1>a, <2>1, ClientStays
  <2> QED BY <1>a, <1>7, <2>1, <2>2, IdleStepKeepsLedgerInv
          DEF Leave, Close, KeepLeaving, TypeOK, Places, Working, Opened, fileVars, historyVars
<1> QED BY <1>1, <1>2, <1>3, <1>4, <1>5, <1>6, <1>7 DEF OneMap

\* Rotating a stack keeps its length and the codes in it.
LEMMA RotatedFacts ==
    ASSUME NEW stk \in Seq(Games), NEW i \in 1..Len(stk)
    PROVE  /\ Rotated(stk, i) \in Seq(Games)
           /\ Len(Rotated(stk, i)) = Len(stk)
           /\ \A j \in 1..Len(stk) :
                Rotated(stk, i)[j] = IF j <= Len(stk) - i THEN stk[i + j] ELSE stk[i + j - Len(stk)]
<1> DEFINE n == Len(stk)
           a == SubSeq(stk, i + 1, n)
           b == SubSeq(stk, 1, i)
<1>1. n \in Nat /\ i \in 1..n /\ i \in Nat
  OBVIOUS
<1>2. a \in Seq(Games) /\ Len(a) = n - i /\ \A j \in 1..(n - i) : a[j] = stk[i + j]
  BY <1>1
<1>3. b \in Seq(Games) /\ Len(b) = i /\ \A j \in 1..i : b[j] = stk[j]
  BY <1>1
<1> HIDE DEF a, b
<1>4. /\ a \o b \in Seq(Games) /\ Len(a \o b) = n
      /\ \A j \in 1..n : (a \o b)[j] = IF j <= n - i THEN a[j] ELSE b[j - (n - i)]
  BY <1>1, <1>2, <1>3
<1>5. \A j \in 1..n : (a \o b)[j] = IF j <= n - i THEN stk[i + j] ELSE stk[i + j - n]
  <2> TAKE j \in 1..n
  <2>1. CASE j <= n - i
    BY <1>1, <1>2, <1>4, <2>1
  <2>2. CASE ~ (j <= n - i)
    <3>1. j - (n - i) \in 1..i /\ j - (n - i) = i + j - n
      BY <1>1, <2>2
    <3> QED BY <1>3, <1>4, <2>2, <3>1
  <2> QED BY <2>1, <2>2
<1> QED BY <1>4, <1>5 DEF Rotated, a, b

LEMMA StartAndBetweenKeepLedgerInv ==
    ASSUME LedgerInv, NothingToDo \/ Booted \/ Between
    PROVE  LedgerInv'
<1> USE DEF LedgerInv
<1>1. CASE NothingToDo \/ StopAtCheckpoint \/ StopWhilePaused \/ NothingLeft
  BY <1>1, ExitOnlyKeepsLedgerInv DEF NothingToDo, StopAtCheckpoint, StopWhilePaused, NothingLeft
<1>2. CASE Booted \/ PauseAtCheckpoint
  <2>1. /\ pc' \in {"checkpoint", "paused"} /\ stopFlag' \in BOOLEAN
        /\ maps' \in SUBSET Record /\ out' \in SUBSET Record
        /\ UNCHANGED <<code, queue, state, imported, presses, consecutive, loopFailures,
                       stopRequested, ledger, stack, pauseFlag, historyVars, clientVars>>
    BY <1>2 DEF Booted, PauseAtCheckpoint, TypeOK, fileVars
  <2>2. ClientTypeOK'
    BY <2>1 DEF TypeOK, ClientTypeOK, clientVars
  <2> QED BY <2>1, <2>2, IdleStepKeepsLedgerInv DEF TypeOK, Places, Working, Opened, historyVars
<1>3. CASE TakeFromQueue
  <2>1. PICK g \in queue : code' = g /\ queue' = queue \ {g}
    BY <1>3 DEF TakeFromQueue, Oldest
  <2>2. /\ pc' = "logOpen" /\ ~ Looping
        /\ UNCHANGED <<state, maps, imported, presses, consecutive, loopFailures,
                       stopRequested, fileVars, historyVars, clientVars>>
    BY <1>3 DEF TakeFromQueue
  <2>3. TypeOK'
    BY <2>1, <2>2 DEF TypeOK, ClientTypeOK, Places, fileVars, historyVars, clientVars
  <2> QED BY <2>1, <2>2, <2>3 DEF TypeOK, Opened, Working, fileVars
<1>4. CASE TakeFromStack
  <2>1. /\ stack \in Seq(Games) /\ FirstLive(stack) \in 1..Len(stack)
        /\ code' = stack[FirstLive(stack)] /\ stack' = Rotated(stack, FirstLive(stack))
    <3>1. Live(stack) # {} /\ Live(stack) \subseteq 1..Len(stack) /\ stack \in Seq(Games)
      BY <1>4 DEF TakeFromStack, Live, TypeOK
    <3>2. Live(stack) = 1..Len(stack) /\ Len(stack) \in Nat
      BY <3>1 DEF Live, retired
    <3>3. 1 \in Live(stack) /\ \A j \in Live(stack) : 1 <= j
      BY <3>1, <3>2
    <3>4. FirstLive(stack) \in Live(stack)
      BY <3>3 DEF FirstLive
    <3> QED BY <1>4, <3>1, <3>4 DEF TakeFromStack
  <2>2. code' \in Games /\ stack' \in Seq(Games)
    BY <2>1, RotatedFacts
  <2>3. TypeOK' /\ pc' = "clearEsc" /\ Looping /\ UNCHANGED <<queue, state, ledger>>
    BY <1>4, <2>2 DEF TakeFromStack, TypeOK, ClientTypeOK, Places, historyVars, clientVars
  <2> QED BY <2>2, <2>3 DEF TypeOK, Opened, Working
<1>5. CASE LogOpen
  <2>1. /\ pc = "logOpen" /\ pc' = "clearEsc" /\ ~ Looping
        /\ state' = [state EXCEPT ![code].status = "opened"] /\ ledger' = state'
        /\ UNCHANGED <<code, queue>> /\ code \in Games /\ code \notin queue
    BY <1>5 DEF LogOpen, Working, Places
  <2>2. state[code] \in Entry /\ state[code].fails < FailRetryCap
    <3>1. state[code] \in Entry /\ Counted(state[code]) /\ ~ IsDoneEntry(state[code])
      BY <2>1 DEF TypeOK
    <3> QED BY <3>1, RunAssumption DEF Entry, Counted, IsDoneEntry
  <2>3. state' \in [Games -> Entry] /\ \A g \in Games : Counted(state'[g])
    BY <2>1, <2>2 DEF TypeOK, Entry, Statuses, Counted
  <2>4. TypeOK'
    BY <1>5, <2>1, <2>3 DEF LogOpen, TypeOK, ClientTypeOK, Places, historyVars, clientVars
  <2>5. \A g \in queue : state'[g] = state[g]
    BY <2>1 DEF TypeOK
  <2>6. state'[code].status = "opened"
    BY <2>1, <2>2 DEF TypeOK, Entry
  <2> QED BY <2>1, <2>3, <2>4, <2>5, <2>6 DEF Opened, Working
<1> QED BY <1>1, <1>2, <1>3, <1>4, <1>5 DEF Between

LEMMA OperatorKeepsLedgerInv ==
    ASSUME LedgerInv, Operator
    PROVE  LedgerInv'
<1> USE DEF LedgerInv
<1>1. CASE Go
  <2>1. ClientTypeOK' /\ pc' = "boot"
    BY <1>1 DEF Go, TypeOK, ClientTypeOK, clientVars
  <2>2. /\ queue' \in SUBSET Games /\ state' \in [Games -> Entry]
        /\ \A g \in Games : Counted(state'[g]) /\ Counted(ledger'[g])
        /\ \A g \in queue' : ~ IsDoneEntry(state'[g])
        /\ Looping => state' = NoLedger /\ ledger' = NoLedger
    BY <1>1, EmptyLedger, RunAssumption DEF Go, Pending, TypeOK
  <2>3. TypeOK'
    BY <1>1, <2>1, <2>2 DEF Go, TypeOK, Places
  <2> QED BY <2>1, <2>2, <2>3 DEF Opened, Working
<1>2. CASE Stop \/ TogglePause \/ TidyClient
  BY <1>2, ClientAndFlags
<1>3. CASE Interrupt
  <2>1. CASE Exit
    BY <1>3, <2>1, ExitKeepsLedgerInv DEF Interrupt, TypeOK, fileVars
  <2>2. CASE ~ Exit
    <3>1. /\ UNCHANGED <<pc, code, queue, state, maps, imported, presses, consecutive,
                         loopFailures, fileVars, historyVars, clientVars>>
          /\ stopRequested' = TRUE
      BY <1>3, <2>2 DEF Interrupt
    <3>2. TypeOK'
      BY <3>1 DEF TypeOK, ClientTypeOK, fileVars, historyVars, clientVars
    <3> QED BY <3>1, <3>2 DEF fileVars, clientVars
  <2> QED BY <2>1, <2>2
<1>4. ASSUME NEW g \in Games, Retry(g) PROVE LedgerInv'
  <2>1. /\ ledger' = [ledger EXCEPT ![g] = NoEntry] /\ tries' = [tries EXCEPT ![g] = 0]
        /\ ~ Looping
        /\ UNCHANGED <<processVars, out, stack, stopFlag, pauseFlag, asked, clientVars>>
    BY <1>4 DEF Retry
  <2>2. ledger' \in [Games -> Entry] /\ \A h \in Games : Counted(ledger'[h])
    BY <2>1, EmptyLedger, NoEntry \in Entry DEF TypeOK, Entry, NoEntry, Statuses
  <2>3. TypeOK'
    BY <2>1, <2>2 DEF TypeOK, ClientTypeOK, processVars, clientVars
  <2> QED BY <2>1, <2>2, <2>3 DEF processVars, clientVars
<1> QED BY <1>1, <1>2, <1>3, <1>4 DEF Operator

LEMMA CrashKeepsLedgerInv ==
    ASSUME LedgerInv, Crash
    PROVE  LedgerInv'
<1>1. /\ ledger' \in {ledger, NoLedger} /\ out' \subseteq out /\ stack' \in {stack, <<>>}
      /\ Exit /\ UNCHANGED <<stopFlag, pauseFlag, historyVars, clientVars>>
  BY DEF Crash
<1>2. /\ ledger' \in [Games -> Entry] /\ \A g \in Games : Counted(ledger'[g])
      /\ Looping => ledger' = NoLedger
      /\ out' \in SUBSET Record /\ stack' \in Seq(Games)
  <2>1. \A g \in Games : Counted(NoLedger[g])
    BY EmptyLedger
  <2>2. /\ \A g \in Games : Counted(ledger[g])
        /\ Looping => ledger = NoLedger
        /\ ledger \in [Games -> Entry] /\ out \in SUBSET Record /\ stack \in Seq(Games)
    BY DEF LedgerInv, TypeOK
  <2>3. out' \in SUBSET Record /\ stack' \in Seq(Games)
    <3>1. <<>> \in Seq(Games)
      OBVIOUS
    <3>2. out' \in SUBSET Record
      BY <1>1, <2>2
    <3>3. stack' \in Seq(Games)
      BY <1>1, <2>2, <3>1
    <3> QED BY <3>2, <3>3
  <2>4. CASE ledger' = ledger
    BY <2>2, <2>3, <2>4
  <2>5. CASE ledger' = NoLedger
    BY <2>1, <2>3, <2>5, EmptyLedger
  <2> QED BY <1>1, <2>4, <2>5
<1> QED BY <1>1, <1>2, ExitKeepsLedgerInv DEF LedgerInv, TypeOK

LEMMA NextLedgerInv == LedgerInv /\ [Next]_vars => LedgerInv'
  BY StartAndBetweenKeepLedgerInv, PositionKeepsLedgerInv, OneMapKeepsLedgerInv,
     OperatorKeepsLedgerInv, ClientAndFlags, CrashKeepsLedgerInv DEF Next, LoopStep

\* The ledger, the queue and the code being worked fit together in every state.
THEOREM LedgerInvHolds == Spec => []LedgerInv
  BY InitLedgerInv, NextLedgerInv, PTL DEF Spec

\* Every variable keeps its type: no count passes FAIL_RETRY_CAP or the fail streak's
\* cap, and every record on disk names a game and the replay it was read from.
THEOREM TypeCorrect == Spec => []TypeOK
  BY LedgerInvHolds, PTL DEF LedgerInv

-----------------------------------------------------------------------------
(* TriesInv, as long as no file is torn.                                   *)

\* A step that edits no entry and imports nothing.
LEMMA UntouchedKeepsTriesInv ==
    ASSUME TriesInv, UNCHANGED <<state, ledger, tries>>, pc # "off" \/ pc' = "off",
           pc' \in BeforeImport /\ ~ Looping => pc \in BeforeImport /\ code' = code,
           pc' \in Opened /\ ~ Looping => pc \in Opened /\ code' = code
    PROVE  TriesInv'
  BY DEF TriesInv

LEMMA ExitKeepsTriesInv ==
    ASSUME TriesInv, Exit, UNCHANGED <<ledger, tries>>
    PROVE  TriesInv'
  BY DEF TriesInv, Exit, BeforeImport, Opened

LEMMA NextTriesInv ==
    ASSUME "torn" \notin Faults, LedgerInv, TriesInv, [Next]_vars
    PROVE  TriesInv'
<1>a. /\ pc \in Working => code \in Games
      /\ state \in [Games -> Entry] /\ ledger \in [Games -> Entry] /\ tries \in [Games -> Nat]
  BY DEF LedgerInv, TypeOK
<1>1. CASE ExitOnly
  BY <1>1, ExitKeepsTriesInv DEF ExitOnly, fileVars, historyVars
<1>2. CASE Booted \/ PauseAtCheckpoint \/ TakeFromQueue \/ TakeFromStack
  BY <1>2, UntouchedKeepsTriesInv
     DEF Booted, PauseAtCheckpoint, TakeFromQueue, TakeFromStack, MayProceed, fileVars,
         historyVars, BeforeImport, Opened
<1>3. CASE LogOpen
  <2>1. /\ code \in Games /\ ~ Looping /\ pc' = "clearEsc" /\ pc = "logOpen"
        /\ ~ IsDoneEntry(state[code])
        /\ state' = [state EXCEPT ![code].status = "opened"] /\ ledger' = state'
        /\ UNCHANGED <<code, tries>>
    BY <1>3, <1>a DEF LogOpen, LedgerInv, Working, Places, historyVars
  <2>2. Tallied(state[code], tries[code]) /\ state[code] \in Entry /\ tries[code] \in Nat
    BY <1>a, <2>1 DEF TriesInv
  <2>3. tries[code] <= state[code].fails
    BY <2>1, <2>2 DEF Tallied, IsDoneEntry, Entry
  <2>4. /\ state'[code].status = "opened" /\ state'[code].fails = state[code].fails
        /\ \A g \in Games : g # code => state'[g] = state[g]
    BY <1>a, <2>1 DEF Entry
  <2>5. \A g \in Games : Tallied(state'[g], tries[g])
    <3>1. Tallied(state'[code], tries[code])
      BY <2>2, <2>3, <2>4 DEF Tallied, Entry
    <3> QED BY <2>1, <2>4, <3>1 DEF TriesInv
  <2> QED BY <2>1, <2>3, <2>4, <2>5 DEF TriesInv
<1>4. CASE Position
  <2>1. Keep /\ pc \in BeforeImport /\ pc' \in BeforeImport \cup {"logFail"}
    BY <1>4 DEF Position, ClearEscMenu, BackOut, LeaveFirst, CloseFirst, Step, Unfocused, Keep,
                BeforeImport
  <2> QED BY <2>1, UntouchedKeepsTriesInv DEF Keep, fileVars, historyVars, BeforeImport, Opened
<1>5. CASE Import
  <2>1. CASE Step("logFail")
    BY <1>5, <2>1, UntouchedKeepsTriesInv
       DEF Import, Step, Keep, fileVars, historyVars, BeforeImport, Opened
  <2>2. CASE ~ Step("logFail")
    <3>1. /\ pc = "import" /\ pc' = "waitLoad"
          /\ tries' = IF Looping THEN tries ELSE [tries EXCEPT ![code] = @ + 1]
          /\ UNCHANGED <<code, state, ledger>>
      BY <1>5, <2>2 DEF Import, Unfocused, fileVars
    <3>2. CASE Looping
      BY <3>1, <3>2 DEF TriesInv, BeforeImport, Opened
    <3>3. CASE ~ Looping
      <4>1. /\ code \in Games /\ state[code].status = "opened" /\ ledger[code] = state[code]
            /\ tries[code] <= state[code].fails /\ state[code] \in Entry
        BY <1>a, <3>1, <3>3 DEF TriesInv, LedgerInv, BeforeImport, Opened, Working, Places
      <4>2. /\ tries'[code] = tries[code] + 1
            /\ \A g \in Games : g # code => tries'[g] = tries[g]
        BY <1>a, <3>1, <3>3, <4>1
      <4>3. Tallied(state[code], tries'[code])
        BY <1>a, <4>1, <4>2 DEF Tallied, Entry
      <4> QED BY <3>1, <4>1, <4>2, <4>3 DEF TriesInv, BeforeImport, Opened
    <3> QED BY <3>2, <3>3
  <2> QED BY <2>1, <2>2
<1>6. CASE Loaded \/ NotLoaded \/ Capture \/ SaveMap
  BY <1>6, UntouchedKeepsTriesInv
     DEF Loaded, NotLoaded, Capture, SaveMap, Step, Keep, fileVars, historyVars, BeforeImport,
         Opened
<1>7. CASE LogDone
  <2>1. CASE Looping
    BY <1>7, <2>1, UntouchedKeepsTriesInv DEF LogDone, historyVars, BeforeImport, Opened
  <2>2. CASE ~ Looping
    <3>1. /\ pc = "logDone" /\ pc' = "leave" /\ code \in Games
          /\ state' = [state EXCEPT ![code].status = "captured"] /\ ledger' = state'
          /\ UNCHANGED tries
      BY <1>7, <1>a, <2>2 DEF LogDone, Working, Places, historyVars
    <3>2. /\ state'[code].status = "captured" /\ state'[code].fails = state[code].fails
          /\ \A g \in Games : g # code => state'[g] = state[g]
      BY <1>a, <3>1 DEF Entry
    <3>3. state[code].status = "opened" /\ Tallied(state[code], tries[code])
      BY <2>2, <3>1 DEF LedgerInv, TriesInv, Opened
    <3>4. Tallied(state'[code], tries[code])
      BY <3>2, <3>3 DEF Tallied
    <3> QED BY <3>1, <3>2, <3>4 DEF TriesInv, BeforeImport, Opened
  <2> QED BY <2>1, <2>2
<1>8. CASE LogFail
  <2>1. CASE Looping
    <3>1. /\ UNCHANGED <<ledger, tries>>
          /\ Exit \/ (UNCHANGED state /\ pc' = "leave" /\ pc # "off")
      BY <1>8, <2>1 DEF LogFail, historyVars
    <3> QED BY <3>1, ExitKeepsTriesInv, UntouchedKeepsTriesInv DEF BeforeImport, Opened
  <2>2. CASE ~ Looping
    <3>1. /\ pc = "logFail" /\ code \in Games
          /\ ledger' = [state EXCEPT ![code] = [status |-> "failed", fails |-> @.fails + 1]]
          /\ Exit \/ (state' = ledger' /\ pc' = "leave")
          /\ UNCHANGED tries
      BY <1>8, <1>a, <2>2 DEF LogFail, Working, Places, historyVars
    <3>2. /\ ledger'[code] = [status |-> "failed", fails |-> state[code].fails + 1]
          /\ \A g \in Games : g # code => ledger'[g] = state[g]
      BY <1>a, <3>1
    <3>3. state[code].status = "opened" /\ Tallied(state[code], tries[code])
      BY <2>2, <3>1 DEF LedgerInv, TriesInv, Opened
    <3>4. Tallied(ledger'[code], tries[code])
      BY <3>2, <3>3 DEF Tallied
    <3>5. \A g \in Games : Tallied(ledger'[g], tries'[g])
      BY <3>1, <3>2, <3>4 DEF TriesInv
    <3> QED BY <3>1, <3>5 DEF TriesInv, Exit, BeforeImport, Opened
  <2> QED BY <2>1, <2>2
<1>9. CASE Leave \/ Close
  BY <1>9, UntouchedKeepsTriesInv
     DEF Leave, Close, NextMap, KeepLeaving, fileVars, historyVars, BeforeImport, Opened
<1>10. CASE Go
  <2>1. /\ pc' = "boot" /\ UNCHANGED <<ledger, tries>>
        /\ state' = IF Looping THEN NoLedger ELSE ledger
        /\ Looping => ledger = NoLedger
    BY <1>10 DEF Go, LedgerInv
  <2> QED BY <2>1 DEF TriesInv, BeforeImport, Opened
<1>11. ASSUME NEW g \in Games, Retry(g) PROVE TriesInv'
  <2>1. /\ ledger' = [ledger EXCEPT ![g] = NoEntry] /\ tries' = [tries EXCEPT ![g] = 0]
        /\ ledger[g].status = "failed" /\ UNCHANGED <<pc, code, state>>
    BY <1>11 DEF Retry, processVars
  <2>2. /\ ledger'[g] = NoEntry /\ tries'[g] = 0
        /\ \A h \in Games : h # g => ledger'[h] = ledger[h] /\ tries'[h] = tries[h]
    BY <1>a, <2>1
  <2>3. \A e \in Entry : Tallied(e, 0)
    BY DEF Entry, Tallied
  <2>4. Tallied(ledger'[g], tries'[g]) /\ Tallied(state[g], tries'[g])
    BY <1>a, <2>2, <2>3, EmptyLedger
  <2>5. pc \in Opened /\ ~ Looping => code # g
    BY <2>1 DEF TriesInv, LedgerInv
  <2>6. pc \in Opened => pc \in Working
    BY DEF Opened, Working, Places
  <2> QED BY <1>a, <2>1, <2>2, <2>4, <2>5, <2>6 DEF TriesInv, BeforeImport, Opened
<1>12. CASE Interrupt \/ Crash
  <2>1. /\ UNCHANGED <<ledger, tries>>
        /\ Exit \/ UNCHANGED <<pc, code, state>>
    BY <1>12 DEF Interrupt, Crash, fileVars, historyVars
  <2> QED BY <2>1, ExitKeepsTriesInv, UntouchedKeepsTriesInv
<1>13. CASE Stop \/ TogglePause \/ TidyClient \/ ClientStep \/ UNCHANGED vars
  BY <1>13, UntouchedKeepsTriesInv
     DEF Stop, TogglePause, TidyClient, ClientStep, vars, processVars, fileVars, historyVars
<1>14. CASE NothingToDo \/ StopAtCheckpoint \/ StopWhilePaused \/ NothingLeft \/ CannotLeave
  BY <1>1, <1>14 DEF NothingToDo, StopAtCheckpoint, StopWhilePaused, NothingLeft, CannotLeave
<1> QED BY <1>2, <1>3, <1>4, <1>5, <1>6, <1>7, <1>8, <1>9, <1>10, <1>11, <1>12, <1>13, <1>14
        DEF Next, LoopStep, Between, OneMap, Operator

\* The tries of a code are bounded by its entry, whatever ended each run.
THEOREM TriesInvHolds ==
    ASSUME "torn" \notin Faults
    PROVE  Spec => []TriesInv
<1>1. Init => TriesInv
  BY EmptyLedger DEF Init, TriesInv, Tallied, BeforeImport, Opened, NoEntry
<1>2. LedgerInv /\ TriesInv /\ [Next]_vars => TriesInv'
  BY NextTriesInv
<1> QED BY <1>1, <1>2, LedgerInvHolds, PTL DEF Spec

\* A code is imported at most FAIL_RETRY_CAP times, however its runs ended, until
\* the operator asks for another try.
THEOREM TriesAreBounded ==
    ASSUME "torn" \notin Faults
    PROVE  Spec => []TriesBounded
<1>1. LedgerInv /\ TriesInv => TriesBounded
  <2> SUFFICES ASSUME LedgerInv, TriesInv, NEW g \in Games PROVE tries[g] <= FailRetryCap
    BY DEF TriesBounded
  <2>1. ledger[g] \in Entry /\ Counted(ledger[g]) /\ Tallied(ledger[g], tries[g])
    BY DEF LedgerInv, TypeOK, TriesInv
  <2>2. tries[g] \in Nat /\ FailRetryCap \in Nat
    BY RunAssumption DEF LedgerInv, TypeOK
  <2> QED BY <2>1, <2>2 DEF Counted, Tallied, Entry, Statuses
<1> QED BY <1>1, LedgerInvHolds, TriesInvHolds, PTL

\* A code that was played into the client has an entry on disk until the operator
\* deletes it.
THEOREM TriedCodesAreLogged ==
    ASSUME "torn" \notin Faults
    PROVE  Spec => []TriedIsLogged
<1>1. LedgerInv /\ TriesInv => TriedIsLogged
  <2> SUFFICES ASSUME TriesInv, NEW g \in Games, tries[g] > 0, ledger[g].status = "none"
               PROVE  FALSE
    BY DEF TriedIsLogged
  <2>1. tries[g] = 0
    BY DEF TriesInv, Tallied
  <2> QED BY <2>1
<1> QED BY <1>1, LedgerInvHolds, TriesInvHolds, PTL

-----------------------------------------------------------------------------
(* CaptureInv, as long as no file is torn.                                 *)

\* A step that neither calls a game captured nor takes a record away.
LEMMA UntouchedKeepsCaptureInv ==
    ASSUME CaptureInv, UNCHANGED out, pc # "off" \/ pc' = "off",
           pc' \notin {"off", "boot"} /\ ~ Looping => out' = maps',
           \A g \in Games : ledger'[g].status = "captured"
                => \/ ledger[g].status = "captured"
                   \/ pc # "off" /\ state[g].status = "captured",
           pc' # "off" => \A g \in Games :
                state'[g].status = "captured" => state[g].status = "captured",
           pc' # "logDone" \/ (pc = "logDone" /\ UNCHANGED code)
    PROVE  CaptureInv'
  BY DEF CaptureInv, RecordedGames

LEMMA NextCaptureInv ==
    ASSUME "torn" \notin Faults, LedgerInv, CaptureInv, [Next]_vars
    PROVE  CaptureInv'
<1>a. /\ pc \in Working => code \in Games
      /\ state \in [Games -> Entry] /\ ledger \in [Games -> Entry]
  BY DEF LedgerInv, TypeOK
<1>b. ASSUME Exit, UNCHANGED <<ledger, out>> PROVE CaptureInv'
  BY <1>b DEF CaptureInv, Exit, RecordedGames
<1>1. CASE ExitOnly
  BY <1>1, <1>b DEF ExitOnly, fileVars
<1>2. CASE Booted
  BY <1>2, UntouchedKeepsCaptureInv DEF Booted
<1>3. CASE PauseAtCheckpoint \/ TakeFromQueue \/ TakeFromStack
  BY <1>3, UntouchedKeepsCaptureInv
     DEF PauseAtCheckpoint, TakeFromQueue, TakeFromStack, MayProceed, fileVars, CaptureInv
<1>4. CASE LogOpen
  <2>1. \A g \in Games : state'[g].status = "captured" => state[g].status = "captured"
    BY <1>4, <1>a DEF LogOpen, Entry, Working, Places
  <2> QED BY <1>4, <2>1, UntouchedKeepsCaptureInv DEF LogOpen, CaptureInv
<1>5. CASE Position
  <2>1. Keep /\ pc \in BeforeImport /\ pc' \in BeforeImport \cup {"logFail"}
    BY <1>5 DEF Position, ClearEscMenu, BackOut, LeaveFirst, CloseFirst, Step, Unfocused, Keep,
                BeforeImport
  <2> QED BY <2>1, UntouchedKeepsCaptureInv DEF Keep, fileVars, BeforeImport, CaptureInv
<1>6. CASE Import \/ Loaded \/ NotLoaded \/ Capture
  BY <1>6, UntouchedKeepsCaptureInv
     DEF Import, Unfocused, Loaded, NotLoaded, Capture, Step, Keep, fileVars, CaptureInv
<1>7. CASE SaveMap
  <2>1. /\ out \subseteq out' /\ [game |-> code, shown |-> shown] \in out'
        /\ ~ Looping => out' = maps'
        /\ pc' = "logDone" /\ UNCHANGED <<state, ledger, code>> /\ pc = "save"
    BY <1>7 DEF SaveMap, CaptureInv
  <2>2. RecordedGames \subseteq RecordedGames' /\ code \in RecordedGames'
    BY <2>1 DEF RecordedGames
  <2> QED BY <2>1, <2>2 DEF CaptureInv
<1>8. CASE LogDone
  <2>1. CASE Looping
    BY <1>8, <2>1, UntouchedKeepsCaptureInv DEF LogDone, CaptureInv
  <2>2. CASE ~ Looping
    <3>1. /\ pc = "logDone" /\ pc' = "leave" /\ code \in RecordedGames
          /\ state' = [state EXCEPT ![code].status = "captured"] /\ ledger' = state'
          /\ UNCHANGED <<maps, out>> /\ out = maps
      BY <1>8, <2>2 DEF LogDone, CaptureInv
    <3>2. \A g \in Games : g # code => state'[g] = state[g]
      BY <1>a, <3>1
    <3> QED BY <3>1, <3>2 DEF CaptureInv, RecordedGames
  <2> QED BY <2>1, <2>2
<1>9. CASE LogFail
  <2>1. CASE Looping
    <3>1. /\ UNCHANGED <<ledger, out>>
          /\ Exit \/ (UNCHANGED <<state, maps>> /\ pc' = "leave" /\ pc # "off")
      BY <1>9, <2>1 DEF LogFail
    <3> QED BY <1>b, <1>9, <3>1, UntouchedKeepsCaptureInv DEF LogFail, CaptureInv
  <2>2. CASE ~ Looping
    <3>1. /\ pc = "logFail" /\ code \in Games
          /\ ledger' = [state EXCEPT ![code] = [status |-> "failed", fails |-> @.fails + 1]]
          /\ Exit \/ (state' = ledger' /\ pc' = "leave" /\ UNCHANGED maps)
          /\ UNCHANGED out
      BY <1>9, <1>a, <2>2 DEF LogFail, Working, Places
    <3>2. \A g \in Games : ledger'[g].status = "captured" => state[g].status = "captured"
      BY <1>a, <3>1
    <3> QED BY <3>1, <3>2 DEF CaptureInv, RecordedGames, Exit
  <2> QED BY <2>1, <2>2
<1>10. CASE Leave \/ Close
  BY <1>10, UntouchedKeepsCaptureInv DEF Leave, Close, NextMap, KeepLeaving, fileVars, CaptureInv
<1>11. CASE Go
  <2>1. /\ pc' = "boot" /\ UNCHANGED <<ledger, out>>
        /\ \A g \in Games : state'[g].status = "captured" => ledger[g].status = "captured"
    BY <1>11, EmptyLedger DEF Go, NoEntry
  <2> QED BY <2>1 DEF CaptureInv, RecordedGames
<1>12. ASSUME NEW g \in Games, Retry(g) PROVE CaptureInv'
  <2>1. /\ UNCHANGED <<pc, code, state, maps, out>>
        /\ \A h \in Games : ledger'[h].status = "captured" => ledger[h].status = "captured"
    BY <1>a, <1>12, EmptyLedger DEF Retry, processVars, NoEntry
  <2> QED BY <2>1 DEF CaptureInv, RecordedGames
<1>13. CASE Interrupt \/ Crash
  <2>1. /\ UNCHANGED <<ledger, out>>
        /\ Exit \/ UNCHANGED <<pc, code, state, maps>>
    BY <1>13 DEF Interrupt, Crash, fileVars
  <2> QED BY <2>1, <1>b DEF CaptureInv, RecordedGames
<1>14. CASE Stop \/ TogglePause \/ TidyClient \/ ClientStep \/ UNCHANGED vars
  <2>1. UNCHANGED <<pc, code, state, ledger, maps, out>>
    BY <1>14 DEF Stop, TogglePause, TidyClient, ClientStep, vars, processVars, fileVars
  <2> QED BY <2>1 DEF CaptureInv, RecordedGames
<1>15. CASE NothingToDo \/ StopAtCheckpoint \/ StopWhilePaused \/ NothingLeft \/ CannotLeave
  BY <1>1, <1>15 DEF NothingToDo, StopAtCheckpoint, StopWhilePaused, NothingLeft, CannotLeave
<1> QED BY <1>2, <1>3, <1>4, <1>5, <1>6, <1>7, <1>8, <1>9, <1>10, <1>11, <1>12, <1>13, <1>14,
           <1>15 DEF Next, LoopStep, Between, OneMap, Operator

LEMMA CaptureInvHolds ==
    ASSUME "torn" \notin Faults
    PROVE  Spec => []CaptureInv
<1>1. Init => CaptureInv
  BY EmptyLedger DEF Init, CaptureInv, NoEntry
<1>2. LedgerInv /\ CaptureInv /\ [Next]_vars => CaptureInv'
  BY NextCaptureInv
<1> QED BY <1>1, <1>2, LedgerInvHolds, PTL DEF Spec

\* The ledger never calls a game captured whose record is not on disk.
THEOREM CapturedGamesAreOnDisk ==
    ASSUME "torn" \notin Faults
    PROVE  Spec => []CapturedIsOnDisk
<1>1. CaptureInv => CapturedIsOnDisk
  BY DEF CaptureInv, CapturedIsOnDisk
<1> QED BY <1>1, CaptureInvHolds, PTL

\* Neither a league run nor a loop session ever takes a record out of the files.
THEOREM NoMapIsLost ==
    ASSUME "torn" \notin Faults
    PROVE  Spec => NoMapLost
<1>1. ASSUME CaptureInv, [Next]_vars PROVE out \subseteq out'
  <2>1. CASE SaveMap
    BY <1>1, <2>1 DEF SaveMap, CaptureInv
  <2>2. CASE ~ SaveMap
    <3>1. UNCHANGED out
      BY <1>1, <2>2
         DEF Next, vars, processVars, fileVars, LoopStep, NothingToDo, Booted, Between,
             StopAtCheckpoint, PauseAtCheckpoint, StopWhilePaused, NothingLeft, TakeFromQueue,
             TakeFromStack, LogOpen, Position, ClearEscMenu, BackOut, LeaveFirst, CloseFirst,
             OneMap, Import, Loaded, NotLoaded, Capture, LogDone, LogFail, Leave, Close,
             CannotLeave, Operator, Go, Stop, TogglePause, Interrupt, TidyClient, Retry,
             ClientStep, Crash, ExitOnly, Step, Keep, Unfocused, KeepLeaving
    <3> QED BY <3>1
  <2> QED BY <2>1, <2>2
<1>2. CaptureInv /\ [Next]_vars => [out \subseteq out']_out
  BY <1>1
<1> QED BY <1>2, CaptureInvHolds, PTL DEF Spec, NoMapLost

-----------------------------------------------------------------------------
(* The code stack, as long as it is not torn.                              *)

\* A rotation leaves the same codes in the stack.
LEMMA RotatedKeepsCodes ==
    ASSUME NEW stk \in Seq(Games), NEW i \in 1..Len(stk)
    PROVE  {Rotated(stk, i)[j] : j \in 1..Len(Rotated(stk, i))} = {stk[j] : j \in 1..Len(stk)}
<1> DEFINE n == Len(stk)
           r == Rotated(stk, i)
<1>1. /\ n \in Nat /\ i \in 1..n /\ Len(r) = n
      /\ \A j \in 1..n : r[j] = IF j <= n - i THEN stk[i + j] ELSE stk[i + j - n]
  BY RotatedFacts
<1> HIDE DEF r
<1>2. ASSUME NEW j \in 1..n PROVE \E h \in 1..n : r[j] = stk[h]
  <2>1. CASE j <= n - i
    BY <1>1, <2>1, i + j \in 1..n
  <2>2. CASE ~ (j <= n - i)
    BY <1>1, <2>2, i + j - n \in 1..n
  <2> QED BY <2>1, <2>2
<1>3. ASSUME NEW h \in 1..n PROVE \E j \in 1..n : stk[h] = r[j]
  <2>1. CASE h > i
    <3>1. h - i \in 1..n /\ h - i <= n - i /\ i + (h - i) = h
      BY <1>1, <2>1
    <3> QED BY <1>1, <3>1
  <2>2. CASE ~ (h > i)
    <3>1. h - i + n \in 1..n /\ i + (h - i + n) - n = h
      BY <1>1, <2>2
    <3>2. h - i + n <= n - i => h = 0
      BY <1>1, <2>2
    <3> QED BY <1>1, <3>1, <3>2
  <2> QED BY <2>1, <2>2
<1>4. {r[j] : j \in 1..n} = {stk[j] : j \in 1..n}
  <2>1. ASSUME NEW x \in {r[j] : j \in 1..n} PROVE x \in {stk[j] : j \in 1..n}
    BY <1>2
  <2>2. ASSUME NEW x \in {stk[j] : j \in 1..n} PROVE x \in {r[j] : j \in 1..n}
    BY <1>3
  <2> QED BY <2>1, <2>2
<1>5. {r[j] : j \in 1..Len(r)} = {stk[j] : j \in 1..n}
  BY <1>1, <1>4
<1> QED BY <1>5 DEF r

\* Whatever happens to a run, no code leaves the stack file and none is added.
THEOREM StackIsKept ==
    ASSUME "torn" \notin Faults
    PROVE  Spec => []StackKeepsItsCodes
<1>1. Init => StackKeepsItsCodes
  BY DEF Init, StackKeepsItsCodes
<1>2. ASSUME LedgerInv, StackKeepsItsCodes, [Next]_vars PROVE StackKeepsItsCodes'
  <2>1. CASE TakeFromStack
    <3>1. stack \in Seq(Games) /\ 1 \in 1..Len(stack) /\ Live(stack) = 1..Len(stack)
      BY <1>2, <2>1 DEF TakeFromStack, Live, retired, LedgerInv, TypeOK
    <3>2. FirstLive(stack) \in 1..Len(stack)
      <4>1. 1 \in Live(stack) /\ \A j \in Live(stack) : 1 <= j
        BY <3>1
      <4> QED BY <3>1, <4>1 DEF FirstLive
    <3> DEFINE next == Rotated(stack, FirstLive(stack))
    <3>3. stack' = next
      BY <2>1 DEF TakeFromStack
    <3>4. {next[j] : j \in 1..Len(next)} = {stack[j] : j \in 1..Len(stack)}
      BY <3>1, <3>2, RotatedKeepsCodes
    <3> HIDE DEF next
    <3> QED BY <1>2, <3>3, <3>4 DEF StackKeepsItsCodes
  <2>2. CASE ~ TakeFromStack
    <3>1. UNCHANGED stack
      BY <1>2, <2>2
         DEF Next, vars, processVars, fileVars, LoopStep, NothingToDo, Booted, Between,
             StopAtCheckpoint, PauseAtCheckpoint, StopWhilePaused, NothingLeft, TakeFromQueue,
             LogOpen, Position, ClearEscMenu, BackOut, LeaveFirst, CloseFirst, OneMap, Import,
             Loaded, NotLoaded, Capture, SaveMap, LogDone, LogFail, Leave, Close, CannotLeave,
             Operator, Go, Stop, TogglePause, Interrupt, TidyClient, Retry, ClientStep, Crash,
             ExitOnly, Step, Keep, Unfocused, KeepLeaving
    <3> QED BY <1>2, <3>1 DEF StackKeepsItsCodes
  <2> QED BY <2>1, <2>2
<1>3. LedgerInv /\ StackKeepsItsCodes /\ [Next]_vars => StackKeepsItsCodes'
  BY <1>2
<1> QED BY <1>1, <1>3, LedgerInvHolds, PTL DEF Spec

-----------------------------------------------------------------------------
(* What was on screen, as long as the probes answer and no replay is late. *)

\* The client loads only while the bot waits for it, an import starts with no
\* replay open, and from then on what loads or is open is the code's.
ShownInv ==
    /\ screen = "loading" => pc \in {"waitLoad", "off"}
    /\ pc = "import" => screen # "replay"
    /\ pc \in {"waitLoad", "capture", "save"} /\ screen \in {"loading", "replay"} => shown = code
    /\ \A r \in out \cup maps : r.game = r.shown

\* Without the fault a probe tells what is there.
LEMMA ProbesTell ==
    ASSUME "probe" \notin Faults
    PROVE  InReplay = {screen = "replay"}
<1>1. ~ ((screen = "replay") /\ "probe" \in Faults)
  OBVIOUS
<1> QED BY <1>1, Zenon DEF InReplay, Reads

\* A key or a leave click loads nothing.
LEMMA KeysLoadNothing ==
    ASSUME PressEsc \/ LeaveReplay, screen # "loading", screen \in Screens
    PROVE  screen' # "loading"
<1>1. CASE PressEsc
  BY <1>1 DEF PressEsc, AfterEsc, Screens
<1>2. CASE LeaveReplay
  BY <1>2 DEF LeaveReplay
<1> QED BY <1>1, <1>2

\* A step at a place where nothing is imported or captured.
LEMMA ElsewhereKeepsShownInv ==
    ASSUME ShownInv, UNCHANGED <<maps, out>>, screen' # "loading",
           pc' \notin {"import", "waitLoad", "capture", "save"}
    PROVE  ShownInv'
  BY DEF ShownInv

LEMMA NextShownInv ==
    ASSUME "probe" \notin Faults, "late" \notin Faults, LedgerInv, ShownInv, [Next]_vars
    PROVE  ShownInv'
<1>p. InReplay = {screen = "replay"}
  BY ProbesTell
<1>l. screen = "loading" => pc \in {"waitLoad", "off"}
  BY DEF ShownInv
<1>s. screen \in Screens
  BY DEF LedgerInv, TypeOK, ClientTypeOK
<1>e. ASSUME Exit, out' \subseteq out PROVE ShownInv'
  BY <1>e DEF Exit, ShownInv
<1>1. CASE ExitOnly
  BY <1>1, <1>e DEF ExitOnly, fileVars
<1>2. CASE Go \/ Booted
  BY <1>2, <1>l DEF Go, Booted, ShownInv, clientVars
<1>3. CASE PauseAtCheckpoint \/ TakeFromQueue \/ TakeFromStack \/ LogOpen
  BY <1>3, <1>l, ElsewhereKeepsShownInv
     DEF PauseAtCheckpoint, TakeFromQueue, TakeFromStack, LogOpen, MayProceed, clientVars, fileVars
<1>4. CASE ClearEscMenu \/ BackOut
  <2>1. /\ screen' # "loading" /\ UNCHANGED <<maps, out>>
        /\ pc' \in {"clearEsc", "backOut", "leaveFirst", "logFail"}
    BY <1>4, <1>l, <1>s, KeysLoadNothing
       DEF ClearEscMenu, BackOut, Step, Unfocused, Keep, clientVars, fileVars
  <2> QED BY <2>1, ElsewhereKeepsShownInv
<1>5. CASE LeaveFirst
  <2>1. CASE screen = "replay"
    BY <1>5, <2>1, <1>p, <1>s, KeysLoadNothing, ElsewhereKeepsShownInv
       DEF LeaveFirst, Step, Unfocused, Keep, clientVars, fileVars
  <2>2. CASE screen # "replay"
    BY <1>5, <2>2, <1>p, <1>l DEF LeaveFirst, Step, Unfocused, Keep, clientVars, fileVars, ShownInv
  <2> QED BY <2>1, <2>2
<1>6. CASE CloseFirst
  BY <1>6, <1>p, <1>l DEF CloseFirst, Step, Keep, clientVars, fileVars, ShownInv
<1>7. CASE Import
  <2>1. CASE Unfocused("logFail")
    BY <1>7, <2>1, <1>l, ElsewhereKeepsShownInv
       DEF Import, Unfocused, Step, Keep, clientVars, fileVars
  <2>2. CASE PlayImport(code) /\ pc' = "waitLoad" /\ UNCHANGED <<code, maps, out>>
    <3>1. screen \notin {"loading", "replay"}
      BY <1>7, <1>l DEF Import, ShownInv
    <3>2. screen' \in {"loading", "replay"} => shown' = code
      BY <2>2, <3>1 DEF PlayImport, clientVars
    <3> QED BY <2>2, <3>2 DEF ShownInv
  <2> QED BY <1>7, <2>1, <2>2 DEF Import, fileVars
<1>8. CASE Loaded \/ Capture
  BY <1>8, <1>p, <1>l
     DEF Loaded, Capture, Step, Keep, clientVars, fileVars, ShownInv, LedgerInv
<1>9. CASE NotLoaded
  BY <1>9, ElsewhereKeepsShownInv DEF NotLoaded, Step, Keep, clientVars, fileVars
<1>10. CASE SaveMap
  <2>1. /\ shown = code /\ screen = "replay" /\ pc' = "logDone" /\ UNCHANGED screen
        /\ maps' = maps \cup {[game |-> code, shown |-> shown]}
        /\ out' \subseteq out \cup maps'
    BY <1>10 DEF SaveMap, LedgerInv, ShownInv, clientVars
  <2> QED BY <2>1 DEF ShownInv
<1>11. CASE LogDone
  BY <1>11, <1>l, ElsewhereKeepsShownInv DEF LogDone, clientVars
<1>12. CASE LogFail
  BY <1>12, <1>e, <1>l, ElsewhereKeepsShownInv DEF LogFail, clientVars
<1>13. CASE Leave \/ Close
  BY <1>13, <1>l, <1>s, KeysLoadNothing, ElsewhereKeepsShownInv
     DEF Leave, Close, NextMap, KeepLeaving, clientVars, fileVars
<1>14. CASE Interrupt \/ Crash
  <2>1. out' \subseteq out /\ UNCHANGED clientVars
        /\ (Exit \/ UNCHANGED <<pc, code, maps, out>>)
    BY <1>14 DEF Interrupt, Crash, fileVars
  <2> QED BY <2>1, <1>e DEF ShownInv, clientVars
<1>15. CASE TidyClient \/ Stop \/ TogglePause \/ UNCHANGED vars
  BY <1>15 DEF TidyClient, Stop, TogglePause, vars, processVars, fileVars, clientVars, ShownInv
<1>16. ASSUME NEW g \in Games, Retry(g) PROVE ShownInv'
  BY <1>16 DEF Retry, processVars, clientVars, ShownInv
<1>17. CASE ClientStep
  <2>1. /\ screen = "loading" /\ pc \in {"waitLoad", "off"} /\ UNCHANGED <<pc, code, maps, out>>
        /\ screen' = "home" \/ (screen' = "replay" /\ shown' = shown)
    BY <1>17, <1>l DEF ClientStep, ClientDraws, processVars, fileVars
  <2> QED BY <2>1 DEF ShownInv
<1>18. CASE NothingToDo \/ StopAtCheckpoint \/ StopWhilePaused \/ NothingLeft \/ CannotLeave
  BY <1>1, <1>18 DEF NothingToDo, StopAtCheckpoint, StopWhilePaused, NothingLeft, CannotLeave
<1> QED BY <1>2, <1>3, <1>4, <1>5, <1>6, <1>7, <1>8, <1>9, <1>10, <1>11, <1>12, <1>13, <1>14,
           <1>15, <1>16, <1>17, <1>18 DEF Next, LoopStep, Between, Position, OneMap, Operator

\* What is filed under a game was read from that game's replay, as long as the
\* probes answer and no replay draws after the bot stopped waiting for it.
THEOREM RecordsAreRight ==
    ASSUME "probe" \notin Faults, "late" \notin Faults
    PROVE  Spec => []RecordIsRight
<1>1. Init => ShownInv
  BY DEF Init, ClientInit, ShownInv
<1>2. LedgerInv /\ ShownInv /\ [Next]_vars => ShownInv'
  BY NextShownInv
<1>3. ShownInv => RecordIsRight
  BY DEF ShownInv, RecordIsRight
<1> QED BY <1>1, <1>2, <1>3, LedgerInvHolds, PTL DEF Spec
=============================================================================
