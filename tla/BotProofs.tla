---------------------------- MODULE BotProofs -----------------------------
(*************************************************************************)
(* What holds of the processes beside the unattended loop: the console,  *)
(* the review server with its page, and the PowerShell host with its     *)
(* calls.                                                                *)
(*************************************************************************)
EXTENDS Console, Review, Host, TLAPS

---------------------------------------------------------------------------
(*************************************************************************)
(* The console, for any waits, defaults and number of replays: the       *)
(* types, and that a phase leaves no trace of its waits.                 *)
(*************************************************************************)

\* What a phase will put back is what the file says; a phase without waits of its own
\* runs with those of the file.
WaitsAreTheFiles ==
    ~tuned => IF busy.back = Absent THEN waitIs = reload ELSE busy.back = reload

NoPhasesMeet ==
    /\ busy.phase = "none" <=> busy = NoPhase
    /\ busy # NoPhase => loop = "none"

ConsoleInv == ConsoleTypeOK /\ spent <= replays /\ WaitsAreTheFiles /\ NoPhasesMeet

LEMMA ConsoleFacts ==
    /\ Absent \notin Waits /\ Default \in Waits
    /\ \A w \in Waits : clamp(w) \in Waits
    /\ NoPhase \in [phase : Phases \cup {"none"}, back : Waits \cup {Absent}]
    /\ NoPhase.phase = "none" /\ NoPhase.back = Absent /\ "none" \notin Phases
    /\ NoSession \in [made : BOOLEAN, ref : 0..MaxReplays, sampling : BOOLEAN]
    /\ 0 \in 0..MaxReplays
  BY ConsoleAssumption DEF Absent, clamp, NoPhase, NoSession, Phases

LEMMA ReloadIsWait ==
    ASSUME override \in Waits \cup {Absent}
    PROVE  reload \in Waits
  BY ConsoleFacts DEF reload

LEMMA ConsoleInvInit == ConsoleInit => ConsoleInv
<1> SUFFICES ASSUME ConsoleInit PROVE ConsoleInv
  OBVIOUS
<1>1. ConsoleTypeOK /\ spent <= replays
  <2>1. /\ waitIs \in Waits /\ override \in Waits \cup {Absent}
        /\ busy \in [phase : Phases \cup {"none"}, back : Waits \cup {Absent}]
        /\ session \in [made : BOOLEAN, ref : 0..MaxReplays, sampling : BOOLEAN]
    BY ConsoleFacts DEF ConsoleInit
  <2>2. /\ screen \in 0..MaxReplays /\ replays \in 0..MaxReplays /\ spent \in 0..MaxReplays
        /\ forced \in 0..1 /\ spent <= replays
    BY ConsoleAssumption DEF ConsoleInit
  <2>3. /\ loop \in {"none", "runs", "interrupted", "killed"}
        /\ orphan \in BOOLEAN /\ pauseFlag \in BOOLEAN /\ tuned \in BOOLEAN
    BY DEF ConsoleInit
  <2> QED BY <2>1, <2>2, <2>3 DEF ConsoleTypeOK
<1>2. WaitsAreTheFiles
  BY ConsoleFacts DEF ConsoleInit, WaitsAreTheFiles, reload
<1>3. NoPhasesMeet
  BY ConsoleFacts DEF ConsoleInit, NoPhasesMeet
<1> QED BY <1>1, <1>2, <1>3 DEF ConsoleInv

\* The end of a phase puts its waits back.
LEMMA PutBackKeeps ==
    ASSUME ConsoleInv, PutBack, UNCHANGED <<override, loop, tuned>>
    PROVE  /\ busy' = NoPhase /\ waitIs' \in Waits
           /\ WaitsAreTheFiles' /\ NoPhasesMeet'
<1>1. busy.back \in Waits \cup {Absent} /\ waitIs \in Waits
  BY DEF ConsoleInv, ConsoleTypeOK
<1>2. busy' = NoPhase /\ waitIs' = IF busy.back = Absent THEN waitIs ELSE busy.back
  BY DEF PutBack
<1>3. reload' = reload
  BY DEF reload
<1>4. WaitsAreTheFiles'
  BY <1>2, <1>3, ConsoleFacts DEF ConsoleInv, WaitsAreTheFiles
<1>5. NoPhasesMeet'
  BY <1>2, ConsoleFacts DEF NoPhasesMeet
<1> QED BY <1>1, <1>2, <1>4, <1>5

LEMMA ConsoleInvNext == ConsoleInv /\ [ConsoleNext]_consoleVars => ConsoleInv'
<1> SUFFICES ASSUME ConsoleInv, [ConsoleNext]_consoleVars PROVE ConsoleInv'
  OBVIOUS
<1> USE DEF worldVars
<1>a. ConsoleTypeOK /\ spent <= replays /\ WaitsAreTheFiles /\ NoPhasesMeet
  BY DEF ConsoleInv
<1>b. /\ replays \in Nat /\ spent \in Nat /\ MaxReplays \in Nat
      /\ replays < MaxReplays => replays + 1 \in 0..MaxReplays /\ spent + 1 \in 0..MaxReplays
                                 /\ spent + 1 <= replays + 1
  BY <1>a, ConsoleAssumption DEF ConsoleTypeOK
<1>c. UNCHANGED override => reload' = reload
  BY DEF reload
<1>d. ASSUME UNCHANGED <<waitIs, override, busy, tuned>>, busy # NoPhase => loop' = "none"
      PROVE  WaitsAreTheFiles' /\ NoPhasesMeet'
  BY <1>a, <1>c, <1>d DEF WaitsAreTheFiles, NoPhasesMeet
<1>1. ASSUME NEW p \in Phases, NEW over \in Waits \cup {Absent}, Run(p, over) PROVE ConsoleInv'
  <2>1. /\ loop = "none" /\ busy = NoPhase
        /\ busy' = [phase |-> p, back |-> IF over = Absent THEN Absent ELSE waitIs]
        /\ waitIs' = IF over = Absent THEN waitIs ELSE over
        /\ UNCHANGED <<screen, replays, spent, override, loop, orphan, pauseFlag, forced, tuned>>
    BY <1>1 DEF Run
  <2>2. waitIs \in Waits /\ session' \in [made : BOOLEAN, ref : 0..MaxReplays, sampling : BOOLEAN]
    BY <1>1, <1>a DEF Run, ConsoleTypeOK
  <2>3. ConsoleTypeOK'
    BY <1>a, <2>1, <2>2 DEF ConsoleTypeOK
  <2>4. WaitsAreTheFiles'
    BY <1>a, <1>c, <2>1, <2>2, ConsoleFacts DEF WaitsAreTheFiles
  <2>5. NoPhasesMeet'
    BY <1>1, <2>1, ConsoleFacts DEF NoPhasesMeet
  <2> QED BY <1>a, <2>1, <2>3, <2>4, <2>5 DEF ConsoleInv
<1>2. CASE PhaseThrows
  <2>1. busy' = NoPhase /\ waitIs' \in Waits /\ WaitsAreTheFiles' /\ NoPhasesMeet'
    BY <1>2, PutBackKeeps DEF PhaseThrows
  <2> QED BY <1>2, <1>a, <2>1, ConsoleFacts DEF PhaseThrows, ConsoleInv, ConsoleTypeOK
<1>3. CASE Imports
  <2>1. busy' = NoPhase /\ waitIs' \in Waits /\ WaitsAreTheFiles' /\ NoPhasesMeet'
    BY <1>3, PutBackKeeps DEF Imports
  <2> QED BY <1>3, <1>a, <1>b, <2>1, ConsoleFacts DEF Imports, ConsoleInv, ConsoleTypeOK
<1>4. CASE Leaves
  <2>1. busy' = NoPhase /\ waitIs' \in Waits /\ WaitsAreTheFiles' /\ NoPhasesMeet'
    BY <1>4, PutBackKeeps DEF Leaves
  <2> QED BY <1>4, <1>a, <2>1, ConsoleFacts DEF Leaves, ConsoleInv, ConsoleTypeOK
<1>5. CASE Calibrates
  <2>1. busy' = NoPhase /\ waitIs' \in Waits /\ WaitsAreTheFiles' /\ NoPhasesMeet'
    BY <1>5, PutBackKeeps DEF Calibrates
  <2> QED BY <1>5, <1>a, <2>1, ConsoleFacts DEF Calibrates, ConsoleInv, ConsoleTypeOK
<1>6. CASE PhaseReturns
  <2>1. busy' = NoPhase /\ waitIs' \in Waits /\ WaitsAreTheFiles' /\ NoPhasesMeet'
    BY <1>6, PutBackKeeps DEF PhaseReturns
  <2> QED BY <1>6, <1>a, <2>1, ConsoleFacts DEF PhaseReturns, ConsoleInv, ConsoleTypeOK
<1>7. CASE Reset
  BY <1>7, <1>a, <1>d, ConsoleFacts DEF Reset, ConsoleInv, ConsoleTypeOK, NoPhasesMeet
<1>8. ASSUME NEW to \in Waits \cup {Absent}, Saved(to) PROVE ConsoleInv'
  <2>1. /\ override' = to /\ waitIs' = reload' /\ tuned' = (busy.back # Absent)
        /\ UNCHANGED <<busy, session, screen, loop, orphan, pauseFlag, forced, replays, spent>>
    BY <1>8 DEF Saved
  <2>2. reload' \in Waits
    BY <2>1, ConsoleFacts DEF reload
  <2>3. ConsoleTypeOK'
    BY <1>a, <2>1, <2>2 DEF ConsoleTypeOK
  <2>4. WaitsAreTheFiles'
    BY <2>1 DEF WaitsAreTheFiles
  <2> QED BY <1>a, <2>1, <2>3, <2>4 DEF ConsoleInv, NoPhasesMeet
<1>9. CASE (\E w \in Waits : Save(w)) \/ ClearSaved
  BY <1>8, <1>9, ConsoleFacts DEF Save, ClearSaved
<1>10. CASE startLoop
  BY <1>10, <1>a, <1>d, ConsoleFacts DEF startLoop, ConsoleInv, ConsoleTypeOK
<1>11. CASE LoopDrives
  BY <1>11, <1>a, <1>b, <1>d, ConsoleFacts DEF LoopDrives, ConsoleInv, ConsoleTypeOK, NoPhasesMeet
<1>12. CASE LoopExits
  BY <1>12, <1>a, <1>d DEF LoopExits, ConsoleInv, ConsoleTypeOK, NoPhasesMeet
<1>13. ASSUME NEW b \in BOOLEAN, stopLoop(b) \/ pauseOrResume(b) PROVE ConsoleInv'
  BY <1>13, <1>a, <1>d DEF stopLoop, pauseOrResume, Interrupted, ConsoleInv, ConsoleTypeOK, NoPhasesMeet
<1>14. CASE SecondInterrupt
  BY <1>14, <1>a, <1>d DEF SecondInterrupt, Interrupted, ConsoleInv, ConsoleTypeOK, NoPhasesMeet
<1>15. CASE Restart
  <2>1. reload \in Waits
    BY <1>a, ReloadIsWait DEF ConsoleTypeOK
  <2>2. /\ busy' = NoPhase /\ waitIs' = reload /\ ~tuned' /\ loop' = "none"
        /\ UNCHANGED override
    BY <1>15 DEF Restart
  <2>3. WaitsAreTheFiles' /\ NoPhasesMeet'
    BY <1>c, <2>2, ConsoleFacts DEF WaitsAreTheFiles, NoPhasesMeet
  <2>4. orphan' \in BOOLEAN /\ tuned' \in BOOLEAN /\ pauseFlag' \in BOOLEAN
    BY <1>15, <1>a DEF Restart, ConsoleTypeOK
  <2>5. /\ spent' = 0 /\ forced' = 0 /\ busy' = NoPhase /\ session' = NoSession
        /\ UNCHANGED <<override, screen, replays>>
    BY <1>15 DEF Restart
  <2>6. ConsoleTypeOK'
    BY <1>a, <2>1, <2>2, <2>4, <2>5, ConsoleFacts DEF ConsoleTypeOK
  <2>7. spent' <= replays'
    BY <1>b, <2>5
  <2> QED BY <2>3, <2>6, <2>7 DEF ConsoleInv
<1>16. CASE UNCHANGED consoleVars
  BY <1>16, <1>a, <1>d DEF consoleVars, ConsoleInv, ConsoleTypeOK, NoPhasesMeet
<1> QED BY <1>1, <1>2, <1>3, <1>4, <1>5, <1>6, <1>7, <1>9, <1>10, <1>11, <1>12, <1>13, <1>14,
           <1>15, <1>16 DEF ConsoleNext

\* The invariant holds in every state of the console.
THEOREM ConsoleInvHolds == ConsoleSpec => []ConsoleInv
  BY ConsoleInvInit, ConsoleInvNext, PTL DEF ConsoleSpec

\* Every variable keeps its type: no more codes are spent than replays were opened.
THEOREM ConsoleTypeCorrect == ConsoleSpec => []ConsoleTypeOK
  BY ConsoleInvHolds, PTL DEF ConsoleInv

\* Whatever phases ran, threw or were cut off by a restart, their waits are gone with
\* them, and the loop never ran beside one.
THEOREM NoTraceIsLeft == ConsoleSpec => []PhasesLeaveNoTrace
<1>1. ConsoleInv => PhasesLeaveNoTrace
  BY ConsoleFacts DEF ConsoleInv, WaitsAreTheFiles, NoPhasesMeet, PhasesLeaveNoTrace
<1> QED BY <1>1, ConsoleInvHolds, PTL

---------------------------------------------------------------------------
(*************************************************************************)
(* The review, for any games, sessions, edits and pinned session: the    *)
(* types, and that an upload is what the page shows.                     *)
(*************************************************************************)

\* A file that is there has a name, and so has the page's copy of one.
FilesAreNamed ==
    /\ newest # 0 => review[newest].session # 0
    /\ page # NoFile => page.session # 0 /\ Current # 0

\* Which requests can be under way together.
OneAtATime ==
    /\ posting # NoPost => /\ posting.to # 0 /\ posting.body.session # 0
                           /\ doing \in {"save", "upload"} /\ sending = NoUpload
    /\ sending # NoUpload => doing \in {"upload", "prune"}
    /\ doing # "nothing" => page # NoFile
    /\ doing = "prune" => sending # NoUpload

\* With nothing between the page and its file, what is not saved is known to be
\* dirty, and what is on its way is what the page shows.
PageIsKnown ==
    ~disturbed =>
        /\ page # NoFile => dirty \/ review[Current] = page
        /\ posting # NoPost => posting.body = page /\ posting.to = Current
        /\ Uploading => review[Current] = page

ReviewInv == ReviewTypeOK /\ FilesAreNamed /\ OneAtATime /\ PageIsKnown

-----------------------------------------------------------------------------
(* Types.                                                                  *)

LEMMA Constants ==
    /\ NoFile \in SessionFile /\ NoFile.session = 0 /\ NoFile.maps \in [Games -> Entry]
    /\ NoPost \in [to : 0..LastDay, body : SessionFile]
    /\ NoUpload \in [of : 0..LastDay, maps : [Games -> Entry]]
    /\ 1 \in Days /\ Days \subseteq 0..LastDay /\ Days \subseteq Nat
    /\ 0 \in 0..LastDay /\ \A d \in 0..LastDay : d # 0 => d \in Days
  BY ReviewAssumption DEF NoFile, NoPost, NoUpload, SessionFile, Entry, Days

LEMMA CurrentIsFile ==
    ASSUME ReviewTypeOK
    PROVE  Current \in 0..LastDay /\ (Current # 0 => review[Current] \in SessionFile)
<1>1. Current \in 0..LastDay
  BY ReviewAssumption DEF ReviewTypeOK, Current
<1> QED BY <1>1, Constants DEF ReviewTypeOK

\* The file a request is about does not change while the files and the newest one stay.
LEMMA CurrentStays ==
    ASSUME UNCHANGED <<review, newest>>
    PROVE  Current' = Current
  BY DEF Current

LEMMA TypeStep ==
    ASSUME ReviewTypeOK, OneAtATime, FilesAreNamed, [ReviewNext]_reviewVars
    PROVE  ReviewTypeOK'
<1> USE DEF ReviewTypeOK, SessionFile, filesVars, pageVars, sentVars
<1>a. Current \in 0..LastDay
  BY CurrentIsFile
<1>b. "reviewed" \in Entry /\ "unreviewed" \in Entry /\ "none" \in Entry
  BY DEF Entry
<1>c. ASSUME NEW file \in SessionFile, NEW d \in Days, Write(d, file)
      PROVE  review' \in [Days -> SessionFile] /\ saved' \in [Days -> 0..LastDay]
             /\ newest' \in 0..LastDay
  BY <1>c, Constants DEF Write
<1>1. CASE DayPasses
  BY <1>1, ReviewAssumption DEF DayPasses, Days
<1>2. CASE RunStarts
  BY <1>2, Constants DEF RunStarts
<1>3. ASSUME NEW g \in Games, Captured(g) PROVE ReviewTypeOK'
  <2>1. bot \in Days /\ mem' \in [Games -> Entry]
    BY <1>3, <1>b, Constants DEF Captured
  <2>2. [session |-> bot, maps |-> mem'] \in SessionFile
    BY <2>1, Constants
  <2>3. /\ review' \in [Days -> SessionFile] /\ saved' \in [Days -> 0..LastDay]
        /\ newest' \in 0..LastDay
    BY <1>3, <2>1, <2>2, <1>c DEF Captured
  <2>4. frames' \in [Games -> 0..LastDay]
    BY <1>3, Constants DEF Captured
  <2>5. /\ disturbed' \in BOOLEAN /\ mixed' \in BOOLEAN
    BY <1>3 DEF Captured
  <2> QED BY <1>3, <2>1, <2>3, <2>4, <2>5 DEF Captured
<1>4. CASE RunEnds
  BY <1>4, Constants DEF RunEnds
<1>5. CASE PageLoads
  BY <1>5, CurrentIsFile DEF PageLoads
<1>6. CASE PageCloses
  BY <1>6, Constants DEF PageCloses
<1>7. ASSUME NEW g \in Games, NEW e \in Entry, Edit(g, e) PROVE ReviewTypeOK'
  <2>1. page' \in SessionFile
    BY <1>7 DEF Edit
  <2>2. edits' \in 0..MaxEdits
    BY <1>7, ReviewAssumption DEF Edit
  <2>3. disturbed' \in BOOLEAN
    BY <1>7 DEF Edit
  <2> QED BY <1>7, <2>1, <2>2, <2>3 DEF Edit
<1>8. ASSUME NEW what \in {"save", "upload"}, Click(what) PROVE ReviewTypeOK'
  <2>1. posting' \in [to : 0..LastDay, body : SessionFile]
    BY <1>8, <1>a, Constants DEF Click
  <2> QED BY <1>8, <2>1 DEF Click
<1>9. CASE SaveLands
  <2>1. posting.to \in Days /\ posting.body \in SessionFile
    BY <1>9, Constants DEF SaveLands, OneAtATime
  <2>2. /\ review' \in [Days -> SessionFile] /\ saved' \in [Days -> 0..LastDay]
        /\ newest' \in 0..LastDay
    BY <1>9, <2>1, <1>c DEF SaveLands
  <2>3. doing' \in {"nothing", "save", "upload", "prune"}
    BY <1>9 DEF SaveLands, SaveDone
  <2> QED BY <1>9, <2>2, <2>3, Constants DEF SaveLands
<1>10. CASE SaveFails
  BY <1>10, Constants DEF SaveFails, SaveDone
<1>11. CASE UploadRefused
  BY <1>11 DEF UploadRefused
<1>12. CASE UploadReads
  <2>1. Current # 0
    BY <1>12 DEF UploadReads, Uploading, FilesAreNamed, OneAtATime
  <2>2. Finalized(review[Current].maps) \in [Games -> Entry]
    BY <2>1, <1>b, CurrentIsFile DEF Finalized
  <2> QED BY <1>12, <1>a, <2>2 DEF UploadReads
<1>13. CASE UploadFails
  BY <1>13, Constants DEF UploadFails
<1>14. CASE UploadLands
  BY <1>14 DEF UploadLands
<1>15. CASE Prune
  <2>1. frames' \in [Games -> 0..LastDay]
    BY <1>15, Constants DEF Prune
  <2> QED BY <1>15, <2>1, Constants DEF Prune
<1>16. CASE UNCHANGED reviewVars
  BY <1>16 DEF reviewVars
<1> QED BY <1>1, <1>2, <1>3, <1>4, <1>5, <1>6, <1>7, <1>8, <1>9, <1>10, <1>11, <1>12, <1>13,
           <1>14, <1>15, <1>16 DEF ReviewNext

-----------------------------------------------------------------------------
(* The invariant.                                                          *)

LEMMA ReviewInvInit == ReviewInit => ReviewInv
<1> SUFFICES ASSUME ReviewInit PROVE ReviewInv
  OBVIOUS
<1>1. ReviewTypeOK
  <2>1. /\ review \in [Days -> SessionFile] /\ saved \in [Days -> 0..LastDay]
        /\ frames \in [Games -> 0..LastDay] /\ mem \in [Games -> Entry]
    BY Constants DEF ReviewInit
  <2>2. edits \in 0..MaxEdits
    BY ReviewAssumption DEF ReviewInit
  <2>3. /\ today \in Days /\ newest \in 0..LastDay /\ bot \in 0..LastDay
        /\ page \in SessionFile /\ posting \in [to : 0..LastDay, body : SessionFile]
        /\ sending \in [of : 0..LastDay, maps : [Games -> Entry]]
    BY Constants DEF ReviewInit
  <2> QED BY <2>1, <2>2, <2>3 DEF ReviewInit, ReviewTypeOK
<1>2. newest = 0 /\ page = NoFile /\ posting = NoPost /\ sending = NoUpload /\ doing = "nothing"
  BY DEF ReviewInit
<1>3. FilesAreNamed
  BY <1>2 DEF FilesAreNamed
<1>4. OneAtATime
  BY <1>2 DEF OneAtATime
<1>5. PageIsKnown
  BY <1>2 DEF PageIsKnown, Uploading
<1> QED BY <1>1, <1>3, <1>4, <1>5 DEF ReviewInv

\* A file that is written is named, and is then the newest.
LEMMA WriteNames ==
    ASSUME ReviewTypeOK, FilesAreNamed, NEW d \in Days, NEW file, Write(d, file),
           file.session # 0
    PROVE  /\ newest' # 0 /\ review'[newest'].session # 0
           /\ Current # 0 => Current' # 0
           /\ d = Current => Current' = d /\ review'[Current'] = file
<1>1. review'[d] = file /\ newest' = d /\ d # 0
  BY Constants DEF Write, ReviewTypeOK, Days
<1>2. \A e \in Days \ {d} : review'[e] = review[e]
  BY DEF Write, ReviewTypeOK
<1>3. CASE Pinned = 0
  BY <1>1, <1>3 DEF Current
<1>4. CASE Pinned # 0
  BY <1>1, <1>2, <1>4, ReviewAssumption DEF Current, Days
<1> QED BY <1>1, <1>3, <1>4

LEMMA ReviewInvNext == ReviewInv /\ [ReviewNext]_reviewVars => ReviewInv'
<1> SUFFICES ASSUME ReviewInv, [ReviewNext]_reviewVars PROVE ReviewInv'
  OBVIOUS
<1> USE DEF filesVars, pageVars, sentVars
<1>a. ReviewTypeOK /\ FilesAreNamed /\ OneAtATime /\ PageIsKnown
  BY DEF ReviewInv
<1>b. ReviewTypeOK'
  BY <1>a, TypeStep
<1>c. UNCHANGED <<review, newest>> => Current' = Current
  BY CurrentStays
<1>d. SUFFICES (FilesAreNamed /\ OneAtATime /\ PageIsKnown)'
  BY <1>b DEF ReviewInv
<1>e. ASSUME UNCHANGED <<filesVars, pageVars, sending, disturbed>>
      PROVE  (FilesAreNamed /\ OneAtATime /\ PageIsKnown)'
  BY <1>a, <1>c, <1>e DEF FilesAreNamed, OneAtATime, PageIsKnown, Uploading
<1>1. CASE DayPasses \/ RunStarts \/ RunEnds \/ UNCHANGED reviewVars
  BY <1>1, <1>e DEF DayPasses, RunStarts, RunEnds, reviewVars
<1>2. ASSUME NEW g \in Games, Captured(g) PROVE (FilesAreNamed /\ OneAtATime /\ PageIsKnown)'
  <2>1. bot \in Days /\ bot # 0
    BY <1>2, <1>a, Constants DEF Captured, ReviewTypeOK
  <2>2. newest' # 0 /\ review'[newest'].session # 0 /\ (Current # 0 => Current' # 0)
    BY <1>2, <1>a, <2>1, WriteNames DEF Captured
  <2>3. disturbed' \/ page = NoFile
    BY <1>2 DEF Captured
  <2>4. UNCHANGED <<pageVars, sending>>
    BY <1>2 DEF Captured
  <2> QED BY <1>a, <2>2, <2>3, <2>4 DEF FilesAreNamed, OneAtATime, PageIsKnown, Uploading
<1>3. CASE PageLoads
  <2>1. Current # 0 /\ review[Current].session # 0
    BY <1>3, <1>a DEF PageLoads, Current, FilesAreNamed
  <2>2. /\ page' = review[Current] /\ disturbed' = (posting # NoPost)
        /\ UNCHANGED <<filesVars, dirty, doing, posting, sending>>
    BY <1>3 DEF PageLoads
  <2>3. page' # NoFile
    BY <2>1, <2>2, Constants
  <2> QED BY <1>a, <1>c, <2>1, <2>2, <2>3 DEF FilesAreNamed, OneAtATime, PageIsKnown, Uploading
<1>4. CASE PageCloses
  BY <1>4, <1>a, <1>c DEF PageCloses, FilesAreNamed, OneAtATime, PageIsKnown, Uploading
<1>5. ASSUME NEW g \in Games, NEW e \in Entry, Edit(g, e)
      PROVE  (FilesAreNamed /\ OneAtATime /\ PageIsKnown)'
  <2>1. page # NoFile
    BY <1>5 DEF Edit, NoFile
  <2>2. page'.session = page.session /\ dirty'
        /\ disturbed' = (disturbed \/ (doing # "nothing" /\ sending = NoUpload))
        /\ UNCHANGED <<filesVars, doing, posting, sending>>
    BY <1>5, <1>a DEF Edit, ReviewTypeOK, SessionFile
  <2>3. page' # NoFile
    BY <1>a, <2>1, <2>2, Constants DEF FilesAreNamed
  <2> QED BY <1>a, <1>c, <2>1, <2>2, <2>3 DEF FilesAreNamed, OneAtATime, PageIsKnown, Uploading
<1>6. ASSUME NEW what \in {"save", "upload"}, Click(what)
      PROVE  (FilesAreNamed /\ OneAtATime /\ PageIsKnown)'
  <2>1. /\ doing = "nothing" /\ page # NoFile /\ doing' = what
        /\ posting' \in {NoPost, [to |-> Current, body |-> page]}
        /\ what = "save" \/ dirty => posting' = [to |-> Current, body |-> page]
        /\ UNCHANGED <<filesVars, page, dirty, sending, disturbed>>
    BY <1>6 DEF Click
  <2>2. Current # 0 /\ [to |-> Current, body |-> page] # NoPost
    BY <1>a, <2>1 DEF FilesAreNamed, NoPost
  <2> QED BY <1>a, <1>c, <2>1, <2>2 DEF FilesAreNamed, OneAtATime, PageIsKnown, Uploading
<1>7. CASE SaveLands
  <2>1. /\ posting # NoPost /\ Write(posting.to, posting.body)
        /\ posting' = NoPost /\ ~dirty' /\ doing' \in {"nothing", doing}
        /\ UNCHANGED <<page, sending, disturbed>>
    BY <1>7 DEF SaveLands, SaveDone
  <2>2. posting.to \in Days /\ posting.body.session # 0 /\ page # NoFile
    BY <1>a, <2>1, Constants DEF OneAtATime, ReviewTypeOK
  <2>3. /\ newest' # 0 /\ review'[newest'].session # 0 /\ Current' # 0
        /\ posting.to = Current => review'[Current'] = posting.body
    BY <1>a, <2>1, <2>2, WriteNames DEF FilesAreNamed
  <2> QED BY <1>a, <2>1, <2>2, <2>3 DEF FilesAreNamed, OneAtATime, PageIsKnown, Uploading
<1>8. CASE SaveFails
  <2>1. /\ posting' = NoPost /\ disturbed' /\ doing' \in {"nothing", doing}
        /\ posting # NoPost /\ UNCHANGED <<filesVars, page, dirty, sending>>
    BY <1>8 DEF SaveFails, SaveDone
  <2> QED BY <1>a, <1>c, <2>1 DEF FilesAreNamed, OneAtATime, PageIsKnown, Uploading
<1>9. CASE UploadRefused
  BY <1>9, <1>a, <1>c DEF UploadRefused, FilesAreNamed, OneAtATime, PageIsKnown, Uploading
<1>10. CASE UploadReads
  BY <1>10, <1>a, <1>c DEF UploadReads, FilesAreNamed, OneAtATime, PageIsKnown, Uploading
<1>11. CASE UploadFails
  BY <1>11, <1>a, <1>c DEF UploadFails, FilesAreNamed, OneAtATime, PageIsKnown, Uploading
<1>12. CASE UploadLands
  BY <1>12, <1>a, <1>c DEF UploadLands, FilesAreNamed, OneAtATime, PageIsKnown, Uploading
<1>13. CASE Prune
  BY <1>13, <1>a, <1>c DEF Prune, FilesAreNamed, OneAtATime, PageIsKnown, Uploading
<1> QED BY <1>1, <1>2, <1>3, <1>4, <1>5, <1>6, <1>7, <1>8, <1>9, <1>10, <1>11, <1>12, <1>13
        DEF ReviewNext

\* The invariant holds in every state of the review.
THEOREM ReviewInvHolds == ReviewSpec => []ReviewInv
  BY ReviewInvInit, ReviewInvNext, PTL DEF ReviewSpec

\* Every variable keeps its type: no save is filed under a session that is none.
THEOREM ReviewTypeCorrect == ReviewSpec => []ReviewTypeOK
  BY ReviewInvHolds, PTL DEF ReviewInv

-----------------------------------------------------------------------------
(* The upload.                                                             *)

\* What the server reads for an upload is what the page shows, whatever days pass and
\* whichever session it was started for, unless something came between the two.
THEOREM UploadsAreAsShown == ReviewSpec => UploadIsAsShown
<1>1. ASSUME ReviewInv, [ReviewNext]_reviewVars, sending = NoUpload, sending' # NoUpload, ~disturbed
      PROVE  sending'.maps = Finalized(page.maps)
  <2>1. UploadReads
    BY <1>1 DEF ReviewNext, reviewVars, filesVars, pageVars, sentVars, DayPasses, RunStarts,
       Captured, RunEnds, PageLoads, PageCloses, Edit, Click, SaveLands, SaveFails,
       UploadRefused, UploadFails, UploadLands, Prune
  <2>2. review[Current] = page
    BY <1>1, <2>1 DEF ReviewInv, PageIsKnown, UploadReads
  <2> QED BY <2>1, <2>2 DEF UploadReads
<1>2. ReviewInv /\ [ReviewNext]_reviewVars
        => [sending = NoUpload /\ sending' # NoUpload /\ ~disturbed =>
              sending'.maps = Finalized(page.maps)]_reviewVars
  BY <1>1
<1> QED BY <1>2, ReviewInvHolds, PTL DEF ReviewSpec, UploadIsAsShown
-----------------------------------------------------------------------------
(* The frames, for a server that was started for the newest session.       *)

\* Two copies of a session have the same maps, whatever their status.
SameMaps(a, b) == \A g \in Games : a[g] = "none" <=> b[g] = "none"

Unsent(d, g) == review[d].maps[g] # "none" /\ g \notin sent

TimesOrdered == bot <= today /\ \A d \in Days : saved[d] <= today

\* One session at a time: what waits to be uploaded is in the newest session, and the
\* page, a save and an upload on their way and the run's memory are copies of it.
NewestIsAll ==
    /\ newest # 0 => review[newest].session = newest
    /\ \A d \in Days, g \in Flagged : Unsent(d, g) => d = newest
    /\ page # NoFile => page.session = newest /\ SameMaps(page.maps, review[newest].maps)
    /\ posting # NoPost => /\ posting.to = newest /\ posting.body.session = newest
                           /\ SameMaps(posting.body.maps, review[newest].maps)
    /\ sending # NoUpload => sending.of = newest
    /\ bot # 0 => SameMaps(mem, review[bot].maps)

\* The frames of what waits were kept while its session lasted.
FramesInWindow ==
    \A g \in Flagged : newest # 0 /\ Unsent(newest, g) => frames[g] \in newest..saved[newest]

FramesInv == ReviewInv /\ TimesOrdered /\ (~mixed => NewestIsAll /\ FramesInWindow)

LEMMA FramesInvInit == ReviewInit => FramesInv
<1> SUFFICES ASSUME ReviewInit PROVE FramesInv
  OBVIOUS
<1>1. ReviewInv
  BY ReviewInvInit
<1>2. TimesOrdered
  BY Constants DEF ReviewInit, TimesOrdered, Days
<1>3. \A d \in Days, g \in Games : review[d].maps[g] = "none"
  BY DEF ReviewInit, NoFile
<1>4. newest = 0 /\ page = NoFile /\ posting = NoPost /\ sending = NoUpload /\ bot = 0
  BY DEF ReviewInit
<1>5. NewestIsAll
  BY <1>3, <1>4, ReviewAssumption DEF NewestIsAll, Unsent
<1>6. FramesInWindow
  BY <1>4 DEF FramesInWindow
<1> QED BY <1>1, <1>2, <1>5, <1>6 DEF FramesInv

LEMMA TimesStep ==
    ASSUME ReviewInv, TimesOrdered, [ReviewNext]_reviewVars
    PROVE  TimesOrdered'
<1> USE DEF TimesOrdered, filesVars, pageVars, sentVars
<1>a. ReviewTypeOK /\ today \in Nat /\ bot \in Nat /\ \A d \in Days : saved[d] \in Nat
  BY Constants DEF ReviewInv, ReviewTypeOK
<1>1. CASE DayPasses
  BY <1>1, <1>a DEF DayPasses
<1>2. CASE RunStarts \/ RunEnds
  BY <1>2, <1>a DEF RunStarts, RunEnds
<1>3. ASSUME NEW d, NEW file, Write(d, file), UNCHANGED <<today, bot>> PROVE TimesOrdered'
  <2>1. \A e \in Days : saved'[e] \in {saved[e], today}
    BY <1>3, <1>a DEF Write, ReviewTypeOK
  <2> QED BY <1>3, <1>a, <2>1
<1>4. CASE \/ \E g \in Games : Captured(g)
           \/ SaveLands
  BY <1>3, <1>4 DEF Captured, SaveLands
<1>5. ASSUME UNCHANGED <<today, bot, saved>> PROVE TimesOrdered'
  BY <1>5
<1> QED BY <1>1, <1>2, <1>4, <1>5 DEF ReviewNext, reviewVars, PageLoads, PageCloses, Edit, Click,
           SaveFails, UploadRefused, UploadReads, UploadFails, UploadLands, Prune

\* A copy of the newest session that is written over it.
LEMMA SavedOver ==
    ASSUME ReviewInv, TimesOrdered, NewestIsAll, FramesInWindow, newest # 0,
           NEW file \in SessionFile, Write(newest, file), file.session = newest,
           SameMaps(file.maps, review[newest].maps), UNCHANGED <<today, frames, sent, bot, mem, page, sending>>,
           posting' = NoPost
    PROVE  (NewestIsAll /\ FramesInWindow)'
<1>1. newest \in Days /\ ReviewTypeOK /\ newest' = newest
  BY Constants DEF ReviewInv, ReviewTypeOK, Write
<1>2. review'[newest] = file /\ \A e \in Days \ {newest} : review'[e] = review[e]
  BY <1>1 DEF Write, ReviewTypeOK
<1>3. \A d \in Days : SameMaps(review'[d].maps, review[d].maps)
  BY <1>2 DEF SameMaps
<1>4. \A d \in Days, g \in Flagged : Unsent(d, g)' <=> Unsent(d, g)
  BY <1>3, ReviewAssumption DEF SameMaps, Unsent
<1>5. saved'[newest] = today /\ saved[newest] <= today
  BY <1>1 DEF Write, ReviewTypeOK, TimesOrdered
<1>6. bot # 0 => bot \in Days
  BY <1>1, Constants DEF ReviewTypeOK
<1>7. NewestIsAll'
  BY <1>1, <1>2, <1>3, <1>4, <1>6 DEF NewestIsAll, SameMaps
<1>8. FramesInWindow'
  <2>1. \A g \in Flagged : frames[g] \in Nat /\ saved[newest] \in Nat /\ today \in Nat
    BY <1>1, Constants, ReviewAssumption DEF ReviewTypeOK
  <2> QED BY <1>1, <1>4, <1>5, <2>1, Constants DEF FramesInWindow
<1> QED BY <1>7, <1>8

LEMMA FramesStep ==
    ASSUME Pinned = 0, ReviewInv, TimesOrdered, NewestIsAll, FramesInWindow, ~mixed, ~mixed',
           [ReviewNext]_reviewVars
    PROVE  (NewestIsAll /\ FramesInWindow)'
<1> USE DEF filesVars, pageVars, sentVars
<1>a. Current = newest /\ ReviewTypeOK /\ FilesAreNamed /\ OneAtATime
  BY DEF Current, ReviewInv
<1>e. ASSUME UNCHANGED <<filesVars, frames, sent, bot, mem>>,
             page' # NoFile => page'.session = newest /\ SameMaps(page'.maps, review[newest].maps),
             posting' # NoPost => /\ posting'.to = newest /\ posting'.body.session = newest
                                  /\ SameMaps(posting'.body.maps, review[newest].maps),
             sending' # NoUpload => sending'.of = newest
      PROVE  (NewestIsAll /\ FramesInWindow)'
  BY <1>e DEF NewestIsAll, FramesInWindow, Unsent
<1>1. CASE DayPasses \/ UNCHANGED reviewVars
  BY <1>1, <1>e DEF DayPasses, reviewVars, NewestIsAll
<1>2. CASE RunStarts
  BY <1>2 DEF RunStarts, NewestIsAll, FramesInWindow, Unsent, SameMaps
<1>3. CASE RunEnds
  BY <1>3 DEF RunEnds, NewestIsAll, FramesInWindow, Unsent, SameMaps
<1>4. ASSUME NEW g \in Games, Captured(g) PROVE (NewestIsAll /\ FramesInWindow)'
  <2>1. /\ bot \in Days /\ page = NoFile /\ Waiting(bot) = {}
        /\ mem' \in [Games -> Entry] /\ mem'[g] # "none"
        /\ \A h \in Games \ {g} : mem'[h] = mem[h]
        /\ UNCHANGED <<today, bot, page, posting, sending, sent>>
    BY <1>4, <1>a, Constants DEF Captured, ReviewTypeOK, Entry
  <2>2. posting = NoPost /\ sending = NoUpload
    BY <1>a, <2>1 DEF OneAtATime
  <2>3. /\ newest' = bot /\ review'[bot] = [session |-> bot, maps |-> mem']
        /\ \A e \in Days \ {bot} : review'[e] = review[e]
        /\ saved'[bot] = today
    BY <1>4, <1>a, <2>1 DEF Captured, Write, ReviewTypeOK
  <2>4. /\ frames'[g] = today /\ \A h \in Games \ {g} : frames'[h] = frames[h]
    BY <1>4, <1>a DEF Captured, ReviewTypeOK
  <2>5. \A d \in Days, h \in Flagged : Unsent(d, h)' => d = bot
    BY <2>1, <2>3, ReviewAssumption DEF Waiting, Unsent
  <2>6. NewestIsAll'
    BY <2>1, <2>2, <2>3, <2>5 DEF NewestIsAll, SameMaps
  <2>7. ASSUME NEW h \in Flagged, Unsent(bot, h)' PROVE frames'[h] \in bot..saved'[bot]
    <3>1. bot <= today /\ bot \in Nat /\ today \in Nat
      BY <1>a, <2>1, Constants DEF TimesOrdered, ReviewTypeOK
    <3>2. CASE h = g
      BY <2>3, <2>4, <3>1, <3>2
    <3>3. CASE h # g
      <4>1. Unsent(bot, h)
        BY <2>1, <2>3, <2>7, <3>3, ReviewAssumption DEF NewestIsAll, Unsent, SameMaps, Days
      <4>2. bot = newest /\ frames[h] \in bot..saved[bot] /\ saved[bot] <= today
        BY <2>1, <4>1 DEF NewestIsAll, FramesInWindow, TimesOrdered, Days
      <4>3. saved[bot] \in Nat
        BY <1>a, <2>1, Constants DEF ReviewTypeOK
      <4> QED BY <2>3, <2>4, <3>1, <3>3, <4>2, <4>3, ReviewAssumption
    <3> QED BY <3>2, <3>3
  <2>8. FramesInWindow'
    BY <2>1, <2>3, <2>7 DEF FramesInWindow, Unsent
  <2> QED BY <2>6, <2>8
<1>5. CASE PageLoads
  <2>1. page' = review[newest] /\ newest # 0 /\ UNCHANGED <<filesVars, frames, sent, bot, mem, posting, sending>>
    BY <1>5, <1>a DEF PageLoads
  <2>2. page'.session = newest /\ SameMaps(page'.maps, review[newest].maps)
    BY <2>1 DEF NewestIsAll, SameMaps
  <2> QED BY <1>e, <2>1, <2>2 DEF NewestIsAll
<1>6. CASE PageCloses
  BY <1>6, <1>e DEF PageCloses, NewestIsAll
<1>7. ASSUME NEW g \in Games, NEW e \in Entry, Edit(g, e) PROVE (NewestIsAll /\ FramesInWindow)'
  <2>1. page # NoFile /\ page.maps[g] # "none" /\ e # "none"
    BY <1>7 DEF Edit, NoFile
  <2>2. page'.session = page.session /\ page'.maps[g] = e
        /\ \A h \in Games \ {g} : page'.maps[h] = page.maps[h]
    BY <1>7, <1>a DEF Edit, ReviewTypeOK, SessionFile
  <2>3. page'.session = newest /\ SameMaps(page'.maps, review[newest].maps)
    BY <2>1, <2>2 DEF NewestIsAll, SameMaps
  <2> QED BY <1>7, <1>e, <2>3 DEF Edit, NewestIsAll
<1>8. ASSUME NEW what \in {"save", "upload"}, Click(what) PROVE (NewestIsAll /\ FramesInWindow)'
  <2>1. page # NoFile /\ posting' \in {NoPost, [to |-> newest, body |-> page]}
        /\ UNCHANGED <<filesVars, frames, sent, bot, mem, page, sending>>
    BY <1>8, <1>a DEF Click
  <2> QED BY <1>e, <2>1 DEF NewestIsAll
<1>9. CASE SaveLands
  <2>1. /\ posting # NoPost /\ Write(posting.to, posting.body) /\ posting' = NoPost
        /\ UNCHANGED <<today, frames, sent, bot, mem, page, sending>>
    BY <1>9 DEF SaveLands
  <2>2. /\ posting.to = newest /\ newest # 0 /\ posting.body.session = newest
        /\ SameMaps(posting.body.maps, review[newest].maps)
    BY <1>a, <2>1 DEF NewestIsAll, OneAtATime
  <2>3. posting.body \in SessionFile
    BY <1>a DEF ReviewTypeOK
  <2> QED BY <2>1, <2>2, <2>3, SavedOver
<1>10. CASE SaveFails
  BY <1>10, <1>e DEF SaveFails, NewestIsAll
<1>11. CASE UploadRefused
  BY <1>11, <1>e DEF UploadRefused, NewestIsAll
<1>12. CASE UploadReads
  BY <1>12, <1>a, <1>e DEF UploadReads, NewestIsAll
<1>13. CASE UploadFails
  BY <1>13, <1>e DEF UploadFails, NewestIsAll
<1>14. CASE UploadLands
  <2>1. sent \subseteq sent' /\ UNCHANGED <<filesVars, frames, bot, mem, page, posting, sending>>
    BY <1>14 DEF UploadLands
  <2> QED BY <2>1 DEF NewestIsAll, FramesInWindow, Unsent
<1>15. CASE Prune
  <2>1. sending' = NoUpload /\ UNCHANGED <<filesVars, sent, bot, mem, page, posting>>
        /\ sending.of = newest
    BY <1>15, <1>a DEF Prune, OneAtATime, NewestIsAll
  <2>2. PICK old \in [Games -> BOOLEAN] :
          frames' = [g \in Games |-> IF g \in Kept(newest, old) THEN frames[g] ELSE 0]
    BY <1>15, <2>1 DEF Prune
  <2>3. ASSUME NEW g \in Flagged, newest # 0, Unsent(newest, g)
        PROVE  frames'[g] = frames[g]
    <3>1. HasFlag(review[newest]) /\ g \in Games
      BY <2>3, ReviewAssumption DEF HasFlag, Unsent
    <3>2. InWindow(frames[g], newest, old[g])
      BY <2>3 DEF InWindow, NewestIsAll, FramesInWindow
    <3>3. g \in Kept(newest, old)
      BY <3>1, <3>2 DEF Kept
    <3> QED BY <2>2, <3>1, <3>3
  <2>4. FramesInWindow'
    BY <2>1, <2>3 DEF FramesInWindow, Unsent
  <2>5. NewestIsAll'
    BY <2>1 DEF NewestIsAll, Unsent
  <2> QED BY <2>4, <2>5
<1> QED BY <1>1, <1>2, <1>3, <1>4, <1>5, <1>6, <1>7, <1>8, <1>9, <1>10, <1>11, <1>12, <1>13,
           <1>14, <1>15 DEF ReviewNext

\* Once maps were mixed they stay so.
LEMMA MixedStays ==
    ASSUME ReviewTypeOK, [ReviewNext]_reviewVars, mixed
    PROVE  mixed'
  BY DEF ReviewNext, reviewVars, filesVars, pageVars, sentVars, DayPasses, RunStarts, Captured,
     RunEnds, PageLoads, PageCloses, Edit, Click, SaveLands, SaveFails, UploadRefused, UploadReads,
     UploadFails, UploadLands, Prune

\* What waits has its frames.
LEMMA FramesInvKeeps == FramesInv => FlaggedFramesKept
<1> SUFFICES ASSUME FramesInv, ~mixed, NEW d \in Days, NEW g \in Flagged, Unsent(d, g)
             PROVE  frames[g] # 0
  BY DEF FlaggedFramesKept, Unsent
<1>1. d = newest /\ d # 0
  BY DEF FramesInv, NewestIsAll, Days
<1>2. frames[g] \in d..saved[d] /\ d \in Nat /\ frames[g] \in Nat /\ saved[d] \in Nat
  BY <1>1, Constants, ReviewAssumption DEF FramesInv, FramesInWindow, ReviewInv, ReviewTypeOK
<1> QED BY <1>1, <1>2

\* A server that was not started for one session keeps the frames of every flagged map
\* until the map is on the site, for any number of days, games and edits.
THEOREM FramesAreKept ==
    ASSUME Pinned = 0
    PROVE  ReviewSpec => []FlaggedFramesKept
<1>1. FramesInv /\ [ReviewNext]_reviewVars => FramesInv'
  <2> SUFFICES ASSUME FramesInv, [ReviewNext]_reviewVars PROVE FramesInv'
    OBVIOUS
  <2>1. ReviewInv' /\ TimesOrdered'
    BY ReviewInvNext, TimesStep DEF FramesInv
  <2>2. ASSUME ~mixed' PROVE (NewestIsAll /\ FramesInWindow)'
    <3>1. ~mixed
      BY <2>2, MixedStays DEF FramesInv, ReviewInv
    <3> QED BY <2>2, <3>1, FramesStep DEF FramesInv
  <2> QED BY <2>1, <2>2 DEF FramesInv
<1> QED BY <1>1, FramesInvInit, FramesInvKeeps, PTL DEF ReviewSpec

---------------------------------------------------------------------------
(*************************************************************************)
(* The host, for any number of calls, of lines it prints and of deaths   *)
(* of its process: every call is answered or failed once, whoever dies   *)
(* first.                                                                *)
(*************************************************************************)

ProcStates == {"booting", "up", "dead", "gone"}
Process == [state : ProcStates, settled : BOOLEAN, work : 0..MaxCalls, did : BOOLEAN]

\* The host's variables, and in the middle of a callback the requests it has failed.
HostRecord ==
    [disabled : BOOLEAN, ready : BOOLEAN, child : Nat, queue : Seq(Calls), current : 0..MaxCalls,
     torn : BOOLEAN, timers : SUBSET Calls, procs : Seq(Process), failed : SUBSET Calls]
WellFormed(h) == h \in HostRecord /\ h.child \in 0..Len(h.procs)

Queued(h) == {h.queue[i] : i \in DOMAIN h.queue}
Asked(h) == ({h.current} \ {None0}) \cup Queued(h)

HostShapes ==
    /\ WellFormed(host) /\ host.failed = {}
    /\ call \in [n : 0..MaxCalls, for : {"nothing", "start", "answer", "script"}]
    /\ call.for # "nothing" => call.n # 0
    /\ carried \in [Calls -> SUBSET {"host", "script"}]
    /\ down \in BOOLEAN /\ cut \in BOOLEAN /\ late \in BOOLEAN

\* A start that is not settled is the last one, and the call waits for it.
StartsAreSettled ==
    /\ \A p \in DOMAIN host.procs : ~host.procs[p].settled => p = Len(host.procs) /\ call.for = "start"
    /\ call.for = "start" => host.procs # <<>> /\ ~host.procs[Len(host.procs)].settled

\* A request at work has its timer, what is queued waits behind one, and a call that
\* waits for an answer is among them.
RequestsAreTimed ==
    /\ host.current # None0 => host.current \in host.timers
    /\ host.queue # <<>> => host.current # None0
    /\ \A r \in Asked(host) : r <= call.n /\ (call.for = "start" => r # call.n)
    /\ call.for = "answer" => call.n \in Asked(host)

\* As long as no exit was heard late there is one process, the child, and one request.
OneProcess ==
    /\ \A p \in DOMAIN host.procs :
         /\ Alive(host.procs[p]) \/ (~host.procs[p].settled /\ ~down) => host.child = p
         /\ Alive(host.procs[p]) /\ host.procs[p].settled => host.ready
    /\ host.ready => /\ host.child # None0 /\ call.for # "start"
                     /\ host.procs[host.child].state # "booting"
OneRequest ==
    /\ host.queue = <<>>
    /\ host.current # None0 => host.current = call.n /\ call.for = "answer" /\ host.ready
    /\ \A p \in DOMAIN host.procs :
         host.procs[p].state = "up" =>
           /\ host.procs[p].work # None0 => host.procs[p].work = host.current
           /\ host.procs[p].did => host.procs[p].work # None0 /\ carried[host.procs[p].work] # {}
    /\ \A p \in DOMAIN host.procs :
         host.procs[p].state = "booting" => host.procs[p].work = None0 /\ ~host.procs[p].did
    /\ ~cut => host.timers \subseteq {host.current}
    /\ down => cut

CallsAreCarried ==
    \A n \in Calls : (n < call.n \/ (n = call.n /\ call.for = "nothing")) => carried[n] # {}

HostInv ==
    /\ HostShapes /\ StartsAreSettled /\ RequestsAreTimed
    /\ ~late => OneProcess /\ OneRequest /\ CallsAreCarried

-----------------------------------------------------------------------------
(* What the callbacks are made of.                                         *)

\* What the parts of a host are.
LEMMA HostFields ==
    ASSUME NEW h, WellFormed(h)
    PROVE  /\ h \in HostRecord /\ h.child \in 0..Len(h.procs) /\ Len(h.procs) \in Nat
           /\ h.disabled \in BOOLEAN /\ h.ready \in BOOLEAN /\ h.torn \in BOOLEAN
           /\ h.queue \in Seq(Calls) /\ h.current \in 0..MaxCalls /\ h.timers \in SUBSET Calls
           /\ h.procs \in Seq(Process) /\ h.failed \in SUBSET Calls
           /\ DOMAIN h.procs = 1..Len(h.procs) /\ \A p \in 1..Len(h.procs) : h.procs[p] \in Process
  BY DEF WellFormed, HostRecord

\* One process in a list is replaced by another.
LEMMA ProcessesWith ==
    ASSUME NEW ps \in Seq(Process), NEW p \in 1..Len(ps), NEW q \in Process,
           NEW qs, qs = [ps EXCEPT ![p] = q]
    PROVE  /\ qs \in Seq(Process) /\ Len(qs) = Len(ps) /\ qs[p] = q
           /\ \A i \in 1..Len(ps) : i # p => qs[i] = ps[i]
  OBVIOUS

\* Two hosts that differ in their requests only, and in what the child works on.
SameHost(g, h) ==
    /\ g.disabled = h.disabled /\ g.ready = h.ready /\ g.child = h.child /\ g.torn = h.torn
    /\ Len(g.procs) = Len(h.procs)
    /\ \A p \in 1..Len(h.procs) :
         /\ g.procs[p].settled = h.procs[p].settled /\ g.procs[p].state = h.procs[p].state
         /\ p # h.child => g.procs[p] = h.procs[p]

\* The queue holds calls.
LEMMA QueuedAreCalls ==
    ASSUME NEW h, h.queue \in Seq(Calls)
    PROVE  Queued(h) \subseteq Calls
  BY DEF Queued

\* All that was asked for is failed at once; the timers stay.
LEMMA FailAllFacts ==
    ASSUME NEW h, WellFormed(h), NEW g, g = failAll(h)
    PROVE  /\ WellFormed(g) /\ g.current = None0 /\ g.queue = <<>>
           /\ g.failed = h.failed \cup Asked(h)
           /\ g.disabled = h.disabled /\ g.ready = h.ready /\ g.child = h.child
           /\ g.timers = h.timers /\ g.procs = h.procs /\ g.torn = h.torn
<1>0. /\ h \in HostRecord /\ h.child \in 0..Len(h.procs) /\ h.failed \in SUBSET Calls
      /\ h.queue \in Seq(Calls) /\ h.current \in 0..MaxCalls
  BY HostFields
<1>1. Queued(h) \subseteq Calls
  BY <1>0, QueuedAreCalls
<1>2. {h.current} \ {None0} \subseteq Calls
  BY <1>0, HostAssumption DEF None0, Calls
<1> DEFINE fs == (h.failed \cup ({h.current} \ {None0})) \cup Queued(h)
<1>3. g = [h EXCEPT !.failed = fs, !.current = None0, !.queue = <<>>]
  BY DEF failAll, Queued
<1>4. fs \in SUBSET Calls /\ fs = h.failed \cup Asked(h)
  BY <1>0, <1>1, <1>2 DEF Asked
<1> HIDE DEF fs
<1>5. g \in HostRecord /\ g.current = None0 /\ g.queue = <<>> /\ g.failed = fs
      /\ g.disabled = h.disabled /\ g.ready = h.ready /\ g.child = h.child
      /\ g.timers = h.timers /\ g.procs = h.procs /\ g.torn = h.torn
  <2>1. None0 \in 0..MaxCalls /\ <<>> \in Seq(Calls) /\ h \in HostRecord /\ fs \in SUBSET Calls
    BY <1>0, <1>4, HostAssumption DEF None0
  <2> HIDE DEF None0
  <2> QED BY <1>3, <2>1 DEF HostRecord
<1> QED BY <1>0, <1>4, <1>5 DEF WellFormed

\* A kill lets go of the child and leaves the requests alone.
LEMMA KillFacts ==
    ASSUME NEW h, WellFormed(h), NEW g, g = kill(h)
    PROVE  /\ WellFormed(g) /\ g.child = None0 /\ (g.ready => h.ready /\ h.child = None0)
           /\ g.disabled = h.disabled /\ g.queue = h.queue /\ g.current = h.current
           /\ g.timers = h.timers /\ g.failed = h.failed /\ g.torn = h.torn
           /\ Len(g.procs) = Len(h.procs)
           /\ \A p \in 1..Len(h.procs) :
                /\ g.procs[p].settled = h.procs[p].settled /\ g.procs[p].work = h.procs[p].work
                /\ g.procs[p].did = h.procs[p].did
                /\ g.procs[p].state =
                     IF p = h.child /\ Alive(h.procs[p]) THEN "dead" ELSE h.procs[p].state
<1>0. h \in HostRecord /\ h.child \in 0..Len(h.procs) /\ h.procs \in Seq(Process) /\ Len(h.procs) \in Nat
  BY HostFields
<1>1. CASE h.child = None0
  BY <1>1 DEF kill, None0
<1>2. CASE h.child # None0
  <2> DEFINE old == h.procs[h.child]
             s == IF Alive(old) THEN "dead" ELSE old.state
             q == [old EXCEPT !.state = s]
             ps == [h.procs EXCEPT ![h.child] = q]
  <2>1. g = [h EXCEPT !.procs = ps, !.child = None0, !.ready = FALSE]
    BY <1>2, <1>0 DEF kill, HostRecord
  <2>2. h.child \in 1..Len(h.procs)
    BY <1>0, <1>2 DEF None0
  <2>3. old \in Process
    BY <1>0, <2>2
  <2>4. s \in ProcStates /\ old.settled \in BOOLEAN /\ old.work \in 0..MaxCalls /\ old.did \in BOOLEAN
    BY <2>3 DEF Process, ProcStates, Alive
  <2>5. q \in Process /\ q.state = s /\ q.settled = old.settled /\ q.work = old.work /\ q.did = old.did
    <3> HIDE DEF s, old
    <3> QED BY <2>3, <2>4 DEF Process
  <2> HIDE DEF q, s
  <2>6. /\ ps \in Seq(Process) /\ Len(ps) = Len(h.procs) /\ ps[h.child] = q
        /\ \A i \in 1..Len(h.procs) : i # h.child => ps[i] = h.procs[i]
    BY <1>0, <2>2, <2>5, ProcessesWith
  <2> HIDE DEF ps
  <2>7. None0 \in Nat /\ None0 \in 0..Len(h.procs)
    BY <1>0 DEF None0
  <2>8. g.procs = ps /\ g.child = None0 /\ g.ready = FALSE /\ g \in HostRecord
    <3> HIDE DEF None0
    <3> QED BY <1>0, <2>1, <2>6, <2>7 DEF HostRecord
  <2>9. g.disabled = h.disabled /\ g.queue = h.queue /\ g.current = h.current
        /\ g.timers = h.timers /\ g.failed = h.failed /\ g.torn = h.torn
    BY <1>0, <2>1 DEF HostRecord
  <2> QED BY <2>2, <2>5, <2>6, <2>7, <2>8, <2>9 DEF WellFormed, s, old
<1> QED BY <1>1, <1>2

\* Nothing is pumped while a request is at work, with none waiting, or before READY.
LEMMA PumpIdles ==
    ASSUME NEW h, h.current # None0 \/ h.queue = <<>> \/ ~h.ready
    PROVE  pump(h) = h
  BY DEF pump

\* What is pumped is at work, timed, and with the child, or fails where there is none.
LEMMA PumpFacts ==
    ASSUME NEW h, WellFormed(h), h.current = None0, h.queue # <<>>, h.ready, NEW g, g = pump(h)
    PROVE  /\ WellFormed(g) /\ SameHost(g, h) /\ Asked(g) = Asked(h)
           /\ g.current = Head(h.queue) /\ g.queue = Tail(h.queue) /\ g.current \in Calls
           /\ g.timers = h.timers \cup {g.current}
           /\ h.child = None0 => g.failed = h.failed \cup {g.current}
           /\ h.child # None0 => /\ g.failed = h.failed
                                 /\ g.procs[h.child].work = g.current /\ ~g.procs[h.child].did
<1>0. /\ h \in HostRecord /\ h.child \in 0..Len(h.procs) /\ h.procs \in Seq(Process)
      /\ Len(h.procs) \in Nat /\ h.queue \in Seq(Calls) /\ h.timers \in SUBSET Calls
      /\ h.failed \in SUBSET Calls
  BY HostFields
<1>1. Head(h.queue) \in Calls /\ Tail(h.queue) \in Seq(Calls)
  BY <1>0
<1>2. Head(h.queue) \in 0..MaxCalls /\ Head(h.queue) # None0
  BY <1>1, HostAssumption DEF Calls, None0
<1>3. {h.queue[i] : i \in DOMAIN h.queue}
        = {Head(h.queue)} \cup {Tail(h.queue)[i] : i \in DOMAIN Tail(h.queue)}
  <2>1. Len(h.queue) \in Nat \ {0} /\ DOMAIN h.queue = 1..Len(h.queue)
    BY <1>0
  <2>2. DOMAIN Tail(h.queue) = 1..(Len(h.queue) - 1)
        /\ \A i \in DOMAIN Tail(h.queue) : Tail(h.queue)[i] = h.queue[i + 1]
        /\ Head(h.queue) = h.queue[1]
    BY <1>0
  <2>3. \A j \in 2..Len(h.queue) : j - 1 \in DOMAIN Tail(h.queue) /\ Tail(h.queue)[j - 1] = h.queue[j]
    BY <2>1, <2>2
  <2>4. \A j \in 1..Len(h.queue) : j = 1 \/ j \in 2..Len(h.queue)
    BY <2>1
  <2>5. 1 \in DOMAIN h.queue /\ \A i \in DOMAIN Tail(h.queue) : i + 1 \in DOMAIN h.queue
    BY <2>1, <2>2
  <2> DEFINE all == {h.queue[i] : i \in DOMAIN h.queue}
             later == {Tail(h.queue)[i] : i \in DOMAIN Tail(h.queue)}
  <2>6. ASSUME NEW x \in all PROVE x \in {Head(h.queue)} \cup later
    <3>1. PICK j \in 1..Len(h.queue) : x = h.queue[j]
      BY <2>1
    <3>2. CASE j = 1
      BY <2>2, <3>1, <3>2
    <3>3. CASE j \in 2..Len(h.queue)
      BY <2>3, <3>1, <3>3
    <3> QED BY <2>4, <3>2, <3>3
  <2>7. ASSUME NEW x \in later PROVE x \in all
    <3>1. PICK i \in DOMAIN Tail(h.queue) : x = Tail(h.queue)[i]
      OBVIOUS
    <3> QED BY <2>2, <2>5, <3>1
  <2>8. Head(h.queue) \in all
    BY <2>2, <2>5
  <2> QED BY <2>6, <2>7, <2>8
<1> DEFINE r == Head(h.queue)
           rest == Tail(h.queue)
           ts == h.timers \cup {r}
<1> HIDE DEF r, rest
<1>4. r \in Calls /\ rest \in Seq(Calls) /\ r \in 0..MaxCalls /\ r # None0 /\ ts \in SUBSET Calls
  BY <1>0, <1>1, <1>2 DEF r, rest
<1> HIDE DEF ts
<1>5. \A k : k.current = r /\ k.queue = rest => Asked(k) = Asked(h)
  <2> TAKE k
  <2> HAVE k.current = r /\ k.queue = rest
  <2>1. Asked(k) = {r} \cup {rest[i] : i \in DOMAIN rest}
    BY <1>4 DEF Asked, Queued
  <2>2. Asked(h) = {h.queue[i] : i \in DOMAIN h.queue}
    BY DEF Asked, Queued
  <2> QED BY <1>3, <2>1, <2>2 DEF r, rest
<1>6. CASE h.child = None0
  <2> DEFINE fs == h.failed \cup {r}
  <2>1. g = [h EXCEPT !.current = r, !.queue = rest, !.timers = ts, !.failed = fs]
    BY <1>0, <1>6 DEF pump, HostRecord, r, rest, ts
  <2>2. fs \in SUBSET Calls
    BY <1>0, <1>4
  <2> HIDE DEF fs
  <2>3. g \in HostRecord /\ g.current = r /\ g.queue = rest /\ g.timers = ts /\ g.failed = fs
        /\ g.procs = h.procs
    BY <1>0, <1>4, <2>1, <2>2 DEF HostRecord
  <2>4. g.disabled = h.disabled /\ g.ready = h.ready /\ g.child = h.child /\ g.torn = h.torn
    BY <1>0, <2>1 DEF HostRecord
  <2>5. \A p \in 1..Len(h.procs) : p # h.child
    BY <1>0, <1>6 DEF None0
  <2> QED BY <1>0, <1>4, <1>5, <1>6, <2>3, <2>4, <2>5 DEF WellFormed, SameHost, r, rest, ts, fs
<1>7. CASE h.child # None0
  <2> DEFINE old == h.procs[h.child]
             q == [old EXCEPT !.work = r, !.did = FALSE]
             ps == [h.procs EXCEPT ![h.child] = q]
  <2>1. g = [h EXCEPT !.current = r, !.queue = rest, !.timers = ts, !.procs = ps]
    <3> DEFINE k == [h EXCEPT !.current = r, !.queue = rest, !.timers = ts]
               one == [h.procs EXCEPT ![h.child] = [@ EXCEPT !.work = r]]
    <3>1. g = [k EXCEPT !.procs[h.child].work = r, !.procs[h.child].did = FALSE]
      BY <1>7 DEF pump, r, rest, ts
    <3>2. k.procs = h.procs /\ k \in HostRecord
      BY <1>0, <1>4 DEF HostRecord
    <3>3. g = [[k EXCEPT !.procs = one] EXCEPT !.procs[h.child].did = FALSE]
      BY <3>1, <3>2
    <3>4. [k EXCEPT !.procs = one].procs = one
      BY <3>2 DEF HostRecord
    <3>5. [one EXCEPT ![h.child] = [@ EXCEPT !.did = FALSE]] = ps
      BY <1>0, <1>7 DEF None0
    <3>6. g = [[k EXCEPT !.procs = one] EXCEPT !.procs = ps]
      BY <3>3, <3>4, <3>5
    <3> QED BY <3>6
  <2>2. h.child \in 1..Len(h.procs)
    BY <1>0, <1>7 DEF None0
  <2>3. old \in Process
    BY <1>0, <2>2
  <2>4. q \in Process /\ q.state = old.state /\ q.settled = old.settled /\ q.work = r /\ q.did = FALSE
    <3> HIDE DEF old
    <3> QED BY <1>4, <2>3 DEF Process
  <2> HIDE DEF q
  <2>5. /\ ps \in Seq(Process) /\ Len(ps) = Len(h.procs) /\ ps[h.child] = q
        /\ \A i \in 1..Len(h.procs) : i # h.child => ps[i] = h.procs[i]
    BY <1>0, <2>2, <2>4, ProcessesWith
  <2> HIDE DEF ps
  <2>6. g \in HostRecord /\ g.current = r /\ g.queue = rest /\ g.timers = ts /\ g.procs = ps
    BY <1>0, <1>4, <2>1, <2>5 DEF HostRecord
  <2>7. g.disabled = h.disabled /\ g.ready = h.ready /\ g.child = h.child /\ g.torn = h.torn
        /\ g.failed = h.failed
    BY <1>0, <2>1 DEF HostRecord
  <2>8. SameHost(g, h)
    BY <2>2, <2>4, <2>5, <2>6, <2>7 DEF SameHost, old
  <2>9. WellFormed(g)
    BY <1>0, <2>5, <2>6, <2>7 DEF WellFormed
  <2> QED BY <1>4, <1>5, <1>7, <2>4, <2>5, <2>6, <2>7, <2>8, <2>9 DEF r, rest, ts
<1> QED BY <1>6, <1>7

\* A request is at work at once, or queues behind the one that is.
LEMMA RequestFacts ==
    ASSUME NEW h, WellFormed(h), h.failed = {}, h.ready, h.queue # <<>> => h.current # None0,
           NEW n \in Calls, NEW g, g = request(h, n)
    PROVE  /\ WellFormed(g) /\ SameHost(g, h) /\ Asked(g) = Asked(h) \cup {n}
           /\ h.current = None0 =>
                /\ g.current = n /\ g.queue = <<>> /\ g.timers = h.timers \cup {n}
                /\ h.child = None0 => g.failed = {n}
                /\ h.child # None0 => /\ g.failed = {}
                                      /\ g.procs[h.child].work = n /\ ~g.procs[h.child].did
           /\ h.current # None0 => /\ g.failed = {} /\ g.current = h.current /\ g.timers = h.timers
                                   /\ g.procs = h.procs
<1> DEFINE k == [h EXCEPT !.queue = Append(h.queue, n)]
<1>0. /\ h \in HostRecord /\ h.child \in 0..Len(h.procs) /\ h.queue \in Seq(Calls)
      /\ Append(h.queue, n) \in Seq(Calls)
  BY HostFields
<1>1. /\ k \in HostRecord /\ k.queue = Append(h.queue, n) /\ k.current = h.current
      /\ k.disabled = h.disabled /\ k.ready = h.ready /\ k.child = h.child /\ k.torn = h.torn
      /\ k.timers = h.timers /\ k.procs = h.procs /\ k.failed = h.failed
  BY <1>0 DEF HostRecord
<1>2. g = pump(k)
  BY DEF request
<1> HIDE DEF k
<1>3. WellFormed(k)
  BY <1>0, <1>1 DEF WellFormed
<1>4. Queued(k) = Queued(h) \cup {n}
  <2>1. DOMAIN k.queue = 1..(Len(h.queue) + 1) /\ DOMAIN h.queue = 1..Len(h.queue) /\ Len(h.queue) \in Nat
        /\ k.queue[Len(h.queue) + 1] = n /\ \A i \in 1..Len(h.queue) : k.queue[i] = h.queue[i]
    BY <1>0, <1>1
  <2>2. \A i \in 1..(Len(h.queue) + 1) : i = Len(h.queue) + 1 \/ i \in 1..Len(h.queue)
    BY <2>1
  <2>3. Len(h.queue) + 1 \in DOMAIN k.queue /\ \A i \in 1..Len(h.queue) : i \in DOMAIN k.queue
    BY <2>1
  <2>4. ASSUME NEW x \in Queued(k) PROVE x \in Queued(h) \cup {n}
    <3>1. PICK i \in DOMAIN k.queue : x = k.queue[i]
      BY DEF Queued
    <3>2. CASE i = Len(h.queue) + 1
      BY <2>1, <3>1, <3>2
    <3>3. CASE i \in 1..Len(h.queue)
      BY <2>1, <3>1, <3>3 DEF Queued
    <3> QED BY <2>1, <2>2, <3>2, <3>3
  <2>5. ASSUME NEW x \in Queued(h) \cup {n} PROVE x \in Queued(k)
    <3>1. CASE x = n
      BY <2>1, <2>3, <3>1 DEF Queued
    <3>2. CASE x \in Queued(h)
      <4>1. PICK i \in DOMAIN h.queue : x = h.queue[i]
        BY <3>2 DEF Queued
      <4> QED BY <2>1, <2>3, <4>1 DEF Queued
    <3> QED BY <3>1, <3>2
  <2> QED BY <2>4, <2>5
<1>5. Asked(k) = Asked(h) \cup {n}
  BY <1>1, <1>4 DEF Asked
<1>6. k.queue # <<>>
  BY <1>0, <1>1
<1>7. \A x : SameHost(x, k) => SameHost(x, h)
  BY <1>1 DEF SameHost
<1>8. CASE h.current # None0
  <2>1. g = k
    BY <1>1, <1>2, <1>8, PumpIdles
  <2>2. SameHost(g, h)
    BY <1>1, <2>1 DEF SameHost
  <2> QED BY <1>1, <1>3, <1>5, <1>8, <2>1, <2>2
<1>9. CASE h.current = None0
  <2>1. h.queue = <<>>
    BY <1>9
  <2>2. Head(k.queue) = n /\ Tail(k.queue) = <<>>
    BY <1>1, <2>1
  <2>3. k.current = None0 /\ k.ready
    BY <1>1, <1>9
  <2>4. /\ WellFormed(g) /\ SameHost(g, k) /\ Asked(g) = Asked(k)
        /\ g.current = Head(k.queue) /\ g.queue = Tail(k.queue)
        /\ g.timers = k.timers \cup {g.current}
        /\ k.child = None0 => g.failed = k.failed \cup {g.current}
        /\ k.child # None0 => /\ g.failed = k.failed
                              /\ g.procs[k.child].work = g.current /\ ~g.procs[k.child].did
    BY <1>2, <1>3, <1>6, <2>3, PumpFacts
  <2> QED BY <1>1, <1>5, <1>7, <1>9, <2>2, <2>4
<1> QED BY <1>8, <1>9

\* The end of a callback: what was failed is forgotten, and the call told.
LEMMA Forgotten ==
    ASSUME NEW h, WellFormed(h), NEW g, g = [h EXCEPT !.failed = {}]
    PROVE  /\ WellFormed(g) /\ g.failed = {} /\ Asked(g) = Asked(h)
           /\ g.disabled = h.disabled /\ g.ready = h.ready /\ g.child = h.child
           /\ g.queue = h.queue /\ g.current = h.current /\ g.torn = h.torn
           /\ g.timers = h.timers /\ g.procs = h.procs
<1>1. h \in HostRecord /\ h.child \in 0..Len(h.procs)
  BY HostFields
<1>2. /\ g \in HostRecord /\ g.failed = {}
      /\ g.disabled = h.disabled /\ g.ready = h.ready /\ g.child = h.child
      /\ g.queue = h.queue /\ g.current = h.current /\ g.torn = h.torn
      /\ g.timers = h.timers /\ g.procs = h.procs
  BY <1>1 DEF HostRecord
<1>3. Asked(g) = Asked(h) /\ WellFormed(g)
  BY <1>1, <1>2 DEF Asked, Queued, WellFormed
<1> QED BY <1>2, <1>3

\* What a callback leaves, once what it failed has gone back to the script.
LEMMA BecomesFacts ==
    ASSUME NEW h, WellFormed(h), NEW for, Becomes(h, for),
           call \in [n : 0..MaxCalls, for : {"nothing", "start", "answer", "script"}]
    PROVE  /\ WellFormed(host') /\ host'.failed = {} /\ Asked(host') = Asked(h)
           /\ host'.disabled = h.disabled /\ host'.ready = h.ready /\ host'.child = h.child
           /\ host'.queue = h.queue /\ host'.current = h.current /\ host'.torn = h.torn
           /\ host'.timers = h.timers /\ host'.procs = h.procs
           /\ call'.n = call.n /\ call'.for = (IF call.n \in h.failed THEN "script" ELSE for)
           /\ for \in {"nothing", "start", "answer", "script"} =>
                call' \in [n : 0..MaxCalls, for : {"nothing", "start", "answer", "script"}]
<1>1. host' = [h EXCEPT !.failed = {}]
      /\ call' = [call EXCEPT !.for = IF call.n \in h.failed THEN "script" ELSE for]
  BY DEF Becomes
<1>2. /\ WellFormed(host') /\ host'.failed = {} /\ Asked(host') = Asked(h)
      /\ host'.disabled = h.disabled /\ host'.ready = h.ready /\ host'.child = h.child
      /\ host'.queue = h.queue /\ host'.current = h.current /\ host'.torn = h.torn
      /\ host'.timers = h.timers /\ host'.procs = h.procs
  BY <1>1, Forgotten
<1> QED BY <1>1, <1>2

\* The host with the start of one process settled; everything else stays.
SettledHost(g, h, p) ==
    /\ WellFormed(g) /\ Asked(g) = Asked(h)
    /\ g.ready = h.ready /\ g.child = h.child /\ g.queue = h.queue /\ g.current = h.current
    /\ g.timers = h.timers /\ g.failed = h.failed
    /\ DOMAIN g.procs = DOMAIN h.procs /\ Len(g.procs) = Len(h.procs)
    /\ g.procs[p].settled = TRUE /\ g.procs[p].state = h.procs[p].state
    /\ \A i \in DOMAIN h.procs : i # p => g.procs[i] = h.procs[i]

\* refuse() settles the start of its process and nothing else.
LEMMA RefusedFacts ==
    ASSUME NEW h, NEW p, NEW g, WellFormed(h), p \in DOMAIN h.procs, g = Refused(h, p)
    PROVE  SettledHost(g, h, p)
<1>1. /\ h \in HostRecord /\ h.procs \in Seq(Process)
      /\ h.child \in 0..Len(h.procs) /\ Len(h.procs) \in Nat
      /\ DOMAIN h.procs = 1..Len(h.procs) /\ h.procs[p] \in Process
  BY HostFields
<1> DEFINE old == h.procs[p]
           q == [old EXCEPT !.settled = TRUE]
           ps == [h.procs EXCEPT ![p] = q]
<1>2. q \in Process /\ q.settled = TRUE /\ q.state = old.state
  BY <1>1 DEF Process
<1>3. g = [h EXCEPT !.disabled = TRUE, !.procs = ps]
  BY <1>1 DEF Refused, HostRecord
<1> HIDE DEF q
<1>4. /\ ps \in Seq(Process) /\ Len(ps) = Len(h.procs) /\ ps[p] = q
      /\ \A i \in 1..Len(h.procs) : i # p => ps[i] = h.procs[i]
  BY <1>1, <1>2, ProcessesWith
<1> HIDE DEF ps
<1>5. /\ g \in HostRecord /\ g.failed = h.failed /\ g.ready = h.ready /\ g.procs = ps
      /\ g.child = h.child /\ g.queue = h.queue /\ g.current = h.current /\ g.timers = h.timers
  BY <1>1, <1>3, <1>4 DEF HostRecord
<1>6. WellFormed(g) /\ Asked(g) = Asked(h) /\ DOMAIN ps = 1..Len(h.procs)
  BY <1>1, <1>4, <1>5 DEF WellFormed, Asked, Queued
<1> QED BY <1>1, <1>2, <1>4, <1>5, <1>6 DEF SettledHost

-----------------------------------------------------------------------------
(* The invariant.                                                          *)

Fors == {"nothing", "start", "answer", "script"}

\* What the shapes say, field by field.
LEMMA ShapesFacts ==
    ASSUME HostShapes
    PROVE  /\ WellFormed(host) /\ host.failed = {} /\ host \in HostRecord /\ host.child \in 0..Len(host.procs)
           /\ Len(host.procs) \in Nat /\ DOMAIN host.procs = 1..Len(host.procs)
           /\ host.procs \in Seq(Process) /\ host.queue \in Seq(Calls)
           /\ host.timers \in SUBSET Calls /\ host.current \in 0..MaxCalls
           /\ host.ready \in BOOLEAN /\ host.disabled \in BOOLEAN /\ host.torn \in BOOLEAN
           /\ call.n \in 0..MaxCalls /\ call.for \in Fors /\ call = [n |-> call.n, for |-> call.for]
           /\ \A p \in 1..Len(host.procs) : host.procs[p] \in Process
           /\ Asked(host) \subseteq Calls
<1>1. WellFormed(host) /\ call \in [n : 0..MaxCalls, for : Fors]
  BY DEF HostShapes, Fors
<1>2. /\ host \in HostRecord /\ host.child \in 0..Len(host.procs) /\ Len(host.procs) \in Nat
      /\ host.disabled \in BOOLEAN /\ host.ready \in BOOLEAN /\ host.torn \in BOOLEAN
      /\ host.queue \in Seq(Calls) /\ host.current \in 0..MaxCalls /\ host.timers \in SUBSET Calls
      /\ host.procs \in Seq(Process)
  BY <1>1, HostFields
<1>3. Asked(host) \subseteq Calls
  <2>1. Queued(host) \subseteq Calls
    BY <1>2, QueuedAreCalls
  <2> QED BY <1>2, <2>1, HostAssumption DEF Asked, Calls, None0
<1> QED BY <1>1, <1>2, <1>3 DEF HostShapes

\* No process, no request, no call.
LEMMA HostInvInit == HostInit => HostInv
<1> SUFFICES ASSUME HostInit PROVE HostInv
  OBVIOUS
<1>1. PICK off \in BOOLEAN :
         host = [disabled |-> off, ready |-> FALSE, child |-> None0, queue |-> <<>>,
                 current |-> None0, torn |-> FALSE, timers |-> {}, procs |-> <<>>, failed |-> {}]
  BY DEF HostInit
<1>2. call = [n |-> 0, for |-> "nothing"] /\ carried = [n \in Calls |-> {}]
      /\ down = FALSE /\ cut = FALSE /\ late = FALSE
  BY DEF HostInit
<1>3. HostShapes
  <2>1. host \in HostRecord /\ host.failed = {} /\ Len(host.procs) = 0 /\ host.child = 0
    BY <1>1, HostAssumption DEF HostRecord, None0
  <2>2. WellFormed(host)
    BY <2>1 DEF WellFormed
  <2>3. call \in [n : 0..MaxCalls, for : {"nothing", "start", "answer", "script"}]
        /\ carried \in [Calls -> SUBSET {"host", "script"}]
    BY <1>2, HostAssumption
  <2> QED BY <1>2, <2>1, <2>2, <2>3 DEF HostShapes
<1>4. StartsAreSettled
  BY <1>1, <1>2 DEF StartsAreSettled
<1>5. Asked(host) = {}
  BY <1>1 DEF Asked, Queued
<1>6. RequestsAreTimed
  BY <1>1, <1>2, <1>5 DEF RequestsAreTimed
<1>7. OneProcess /\ OneRequest
  BY <1>1, <1>2 DEF OneProcess, OneRequest
<1>8. CallsAreCarried
  BY <1>2 DEF CallsAreCarried, Calls
<1> QED BY <1>3, <1>4, <1>6, <1>7, <1>8 DEF HostInv

\* Requests that stay as they are stay timed, under a later call or one that is over.
LEMMA TimedStays ==
    ASSUME RequestsAreTimed, host'.current = host.current, host'.queue = host.queue,
           host'.timers = host.timers, Asked(host') = Asked(host), Asked(host) \subseteq Calls,
           call.n \in Nat, call'.n \in Nat,
           \/ call'.n = call.n /\ call'.for \in {call.for, "nothing", "script"}
           \/ call'.n > call.n /\ call'.for \in {"nothing", "script", "start"}
    PROVE  RequestsAreTimed'
<1>1. \A r \in Asked(host) : r \in Nat /\ r <= call.n /\ (call.for = "start" => r # call.n)
  BY DEF RequestsAreTimed, Calls
<1>2. ASSUME NEW r \in Asked(host') PROVE r <= call'.n /\ (call'.for = "start" => r # call'.n)
  BY <1>1
<1>3. call'.for = "answer" => call'.n \in Asked(host')
  BY DEF RequestsAreTimed
<1> QED BY <1>2, <1>3 DEF RequestsAreTimed

\* The script asks: the start of a process, or a request in the queue or at work.
LEMMA CallKeeps == ASSUME HostInv, ~down, Call PROVE HostInv'
<1> DEFINE n == call.n + 1
           asked == request(host, n)
           p == Len(host.procs) + 1
<1>1. call.for = "nothing" /\ call.n < MaxCalls /\ UNCHANGED <<carried, down, cut, late>>
  BY DEF Call
<1>2. HostShapes /\ StartsAreSettled /\ RequestsAreTimed /\ (~late => OneProcess /\ OneRequest /\ CallsAreCarried)
  BY DEF HostInv
<1>3. /\ WellFormed(host) /\ host.failed = {} /\ host \in HostRecord /\ host.child \in 0..Len(host.procs)
      /\ Len(host.procs) \in Nat /\ DOMAIN host.procs = 1..Len(host.procs)
      /\ host.procs \in Seq(Process) /\ call.n \in 0..MaxCalls
      /\ \A i \in 1..Len(host.procs) : host.procs[i] \in Process
      /\ Asked(host) \subseteq Calls /\ host.timers \in SUBSET Calls
  BY <1>2, ShapesFacts
<1>4. n \in Calls /\ n \in 0..MaxCalls /\ n # 0 /\ call.n \in Nat /\ n > call.n /\ n \in Nat
  BY <1>1, <1>3, HostAssumption DEF Calls
<1>5. \A i \in 1..Len(host.procs) : host.procs[i].settled
  BY <1>1, <1>2, <1>3 DEF StartsAreSettled
<1>6. \A r \in Asked(host) : r <= call.n /\ r < n /\ r # n
  BY <1>2, <1>3, <1>4 DEF RequestsAreTimed, Calls
<1>7. ~late => CallsAreCarried'
  BY <1>1, <1>2, <1>4 DEF CallsAreCarried, Call, Calls
<1>8. HostShapes /\ WellFormed(host') /\ host'.failed = {} /\ call'.n = n /\ call'.for \in Fors => HostShapes'
  BY <1>1, <1>4 DEF HostShapes, Fors, Call
<1>9. ~late => host.current = None0 /\ host.queue = <<>> /\ (~cut => host.timers = {})
  BY <1>1, <1>2, <1>3, HostAssumption DEF OneRequest, Calls, None0
<1>0. ~late => \A i \in 1..Len(host.procs) : Alive(host.procs[i]) => host.child = i /\ host.ready
  BY <1>2, <1>3, <1>5 DEF OneProcess
<1> HIDE DEF n, asked, p
<1>a. CASE host.disabled /\ call' = [n |-> n, for |-> "script"] /\ UNCHANGED host
  <2>1. host' = host /\ call'.n = n /\ call'.for = "script"
    BY <1>a
  <2>2. HostShapes'
    BY <1>2, <1>3, <1>8, <2>1 DEF HostShapes, Fors
  <2>3. StartsAreSettled'
    BY <1>3, <1>5, <2>1 DEF StartsAreSettled
  <2>4. RequestsAreTimed'
    BY <1>2, <1>3, <1>4, <2>1, TimedStays
  <2>5. ~late => OneProcess' /\ OneRequest'
    BY <1>1, <1>2, <2>1 DEF OneProcess, OneRequest
  <2> QED BY <1>1, <1>7, <2>2, <2>3, <2>4, <2>5 DEF HostInv
<1>b. CASE /\ host.ready /\ host' = [asked EXCEPT !.failed = {}]
           /\ call' = [n |-> n, for |-> IF n \in asked.failed THEN "script" ELSE "answer"]
  <2>1. /\ WellFormed(asked) /\ SameHost(asked, host) /\ Asked(asked) = Asked(host) \cup {n}
        /\ host.current = None0 =>
             /\ asked.current = n /\ asked.queue = <<>> /\ asked.timers = host.timers \cup {n}
             /\ host.child = None0 => asked.failed = {n}
             /\ host.child # None0 => /\ asked.failed = {}
                                      /\ asked.procs[host.child].work = n /\ ~asked.procs[host.child].did
        /\ host.current # None0 => /\ asked.failed = {} /\ asked.current = host.current
                                   /\ asked.timers = host.timers /\ asked.procs = host.procs
    BY <1>2, <1>3, <1>4, <1>b, RequestFacts DEF RequestsAreTimed, asked
  <2>2. /\ WellFormed(host') /\ host'.failed = {} /\ Asked(host') = Asked(asked)
        /\ host'.disabled = asked.disabled /\ host'.ready = asked.ready /\ host'.child = asked.child
        /\ host'.queue = asked.queue /\ host'.current = asked.current /\ host'.torn = asked.torn
        /\ host'.timers = asked.timers /\ host'.procs = asked.procs
    BY <1>b, <2>1, Forgotten
  <2>3. call'.n = n /\ call'.for \in {"script", "answer"}
        /\ call'.for = IF n \in asked.failed THEN "script" ELSE "answer"
    BY <1>b
  <2>4. SameHost(host', host)
    BY <2>1, <2>2 DEF SameHost
  <2>5. DOMAIN host'.procs = 1..Len(host.procs)
    BY <2>2, <2>4, HostFields DEF SameHost
  <2>6. HostShapes'
    BY <1>2, <1>8, <2>2, <2>3 DEF Fors
  <2>7. StartsAreSettled'
    BY <1>5, <2>3, <2>4, <2>5 DEF StartsAreSettled, SameHost
  <2>8. RequestsAreTimed'
    <3>1. host'.current # None0 /\ host'.current \in host'.timers
      <4>1. CASE host.current = None0
        BY <1>4, <2>1, <2>2, <4>1 DEF None0
      <4>2. CASE host.current # None0
        BY <1>2, <2>1, <2>2, <4>2 DEF RequestsAreTimed
      <4> QED BY <4>1, <4>2
    <3>2. ASSUME NEW r \in Asked(host') PROVE r <= call'.n
      <4>1. r \in Asked(host) \/ r = n
        BY <2>1, <2>2
      <4> QED BY <1>3, <1>4, <1>6, <2>3, <4>1 DEF Calls
    <3>3. call'.n \in Asked(host')
      BY <2>1, <2>2, <2>3
    <3> QED BY <2>3, <3>1, <3>2, <3>3 DEF RequestsAreTimed
  <2>9. ASSUME ~late PROVE OneProcess' /\ OneRequest'
    <3>1. /\ host.current = None0 /\ host.child \in 1..Len(host.procs)
          /\ host.child # None0 /\ host.procs[host.child].state # "booting"
      BY <1>2, <1>3, <1>9, <1>b, <2>9 DEF OneProcess, None0
    <3>2. call'.for = "answer" /\ host'.current = n /\ host'.queue = <<>> /\ host'.timers = host.timers \cup {n}
          /\ host'.procs[host.child].work = n /\ ~host'.procs[host.child].did
          /\ host'.ready = host.ready /\ host'.child = host.child
      BY <2>1, <2>2, <2>3, <2>4, <3>1 DEF SameHost
    <3>3. \A i \in 1..Len(host.procs) : /\ host'.procs[i].settled = host.procs[i].settled
                                        /\ host'.procs[i].state = host.procs[i].state
      BY <2>4 DEF SameHost
    <3>4. OneProcess'
      BY <1>b, <1>0, <1>5, <2>3, <2>5, <2>9, <3>1, <3>2, <3>3 DEF OneProcess, Alive
    <3>5. \A i \in 1..Len(host.procs) :
            /\ host'.procs[i].state = "up" => i = host.child
            /\ host'.procs[i].state # "booting"
      BY <1>0, <2>9, <3>1, <3>3 DEF Alive
    <3>6. OneRequest'
      BY <1>1, <1>2, <1>9, <1>b, <2>3, <2>5, <2>9, <3>2, <3>5 DEF OneRequest
    <3> QED BY <3>4, <3>6
  <2> QED BY <1>1, <1>7, <2>6, <2>7, <2>8, <2>9 DEF HostInv
<1>c. CASE /\ ~host.ready /\ host' = [host EXCEPT !.procs = Append(@, Booting), !.child = p]
           /\ call' = [n |-> n, for |-> "start"]
  <2> DEFINE ps == Append(host.procs, Booting)
  <2>1. Booting \in Process /\ Booting.state = "booting" /\ Booting.settled = FALSE
        /\ Booting.work = None0 /\ Booting.did = FALSE
    BY HostAssumption DEF Booting, Process, ProcStates, None0
  <2>2. ps \in Seq(Process) /\ Len(ps) = p /\ p \in Nat /\ ps[p] = Booting /\ p # None0
        /\ \A i \in 1..p : i # p => i \in 1..Len(host.procs) /\ ps[i] = host.procs[i]
    <3> HIDE DEF Booting
    <3> QED BY <1>3, <2>1 DEF p, None0
  <2>3. host' = [host EXCEPT !.procs = ps, !.child = p]
    BY <1>3, <1>c DEF HostRecord
  <2> HIDE DEF ps
  <2>4. host' \in HostRecord /\ host'.failed = {} /\ host'.ready = host.ready /\ host'.child = p
        /\ host'.queue = host.queue /\ host'.current = host.current /\ host'.timers = host.timers
        /\ host'.procs = ps
    BY <1>3, <2>2, <2>3 DEF HostRecord
  <2>5. WellFormed(host') /\ Asked(host') = Asked(host) /\ DOMAIN host'.procs = 1..p
    BY <1>3, <2>2, <2>4 DEF WellFormed, Asked, Queued
  <2>6. call'.n = n /\ call'.for = "start"
    BY <1>c
  <2>7. HostShapes'
    BY <1>2, <1>8, <2>4, <2>5, <2>6 DEF Fors
  <2>8. StartsAreSettled'
    <3>1. \A i \in 1..p : ~ps[i].settled => i = p
      BY <1>5, <2>2
    <3>2. Len(ps) = p /\ p \in 1..p /\ ps # <<>> /\ ~ps[p].settled
      BY <2>1, <2>2 DEF None0
    <3> QED BY <2>4, <2>5, <2>6, <3>1, <3>2 DEF StartsAreSettled
  <2>9. RequestsAreTimed'
    BY <1>2, <1>3, <1>4, <2>4, <2>5, <2>6, TimedStays
  <2>10. ASSUME ~late PROVE OneProcess' /\ OneRequest'
    <3>1. \A i \in 1..p : Alive(host'.procs[i]) \/ ~host'.procs[i].settled => i = p
      BY <1>0, <1>5, <1>c, <2>2, <2>4, <2>10
    <3>2. OneProcess'
      BY <1>c, <2>1, <2>2, <2>4, <2>5, <2>10, <3>1 DEF OneProcess
    <3>3. OneRequest'
      BY <1>1, <1>2, <1>9, <2>1, <2>2, <2>4, <2>5, <2>10, <3>1 DEF OneRequest, Alive
    <3> QED BY <3>2, <3>3
  <2> QED BY <1>1, <1>7, <2>7, <2>8, <2>9, <2>10 DEF HostInv
<1>d. CASE host' = [host EXCEPT !.disabled = TRUE] /\ call' = [n |-> n, for |-> "script"]
  <2>1. host' \in HostRecord /\ host'.failed = {} /\ host'.ready = host.ready /\ host'.child = host.child
        /\ host'.queue = host.queue /\ host'.current = host.current /\ host'.timers = host.timers
        /\ host'.procs = host.procs /\ call'.n = n /\ call'.for = "script"
    BY <1>3, <1>d DEF HostRecord
  <2>2. WellFormed(host') /\ Asked(host') = Asked(host)
    BY <1>3, <2>1 DEF WellFormed, Asked, Queued
  <2>3. HostShapes'
    BY <1>2, <1>8, <2>1, <2>2 DEF Fors
  <2>4. StartsAreSettled'
    BY <1>3, <1>5, <2>1 DEF StartsAreSettled
  <2>5. RequestsAreTimed'
    BY <1>2, <1>3, <1>4, <2>1, <2>2, TimedStays
  <2>6. ~late => OneProcess' /\ OneRequest'
    BY <1>1, <1>2, <2>1 DEF OneProcess, OneRequest
  <2> QED BY <1>1, <1>7, <2>3, <2>4, <2>5, <2>6 DEF HostInv
<1> QED BY <1>a, <1>b, <1>c, <1>d DEF Call, n, asked, p

\* The PowerShell script carries out a call the host failed.
LEMMA ScriptKeeps == ASSUME HostInv, ~down, Script PROVE HostInv'
<1>1. /\ HostShapes /\ StartsAreSettled /\ RequestsAreTimed
      /\ ~late => OneProcess /\ OneRequest /\ CallsAreCarried
  BY DEF HostInv
<1>2. /\ call.for = "script" /\ call' = [call EXCEPT !.for = "nothing"]
      /\ carried' = [carried EXCEPT ![call.n] = @ \cup {"script"}]
      /\ UNCHANGED <<host, down, cut, late>>
  BY DEF Script
<1>3. /\ call.n \in Calls /\ call.n \in Nat /\ call.n \in 0..MaxCalls /\ Asked(host) \subseteq Calls
      /\ carried \in [Calls -> SUBSET {"host", "script"}]
  BY <1>1, <1>2, ShapesFacts, HostAssumption DEF HostShapes, Calls
<1>4. call'.n = call.n /\ call'.for = "nothing" /\ call' \in [n : 0..MaxCalls, for : Fors]
      /\ call \in [n : 0..MaxCalls, for : Fors]
  BY <1>1, <1>2 DEF HostShapes, Fors
<1>5. carried' \in [Calls -> SUBSET {"host", "script"}] /\ carried'[call.n] # {}
      /\ \A n \in Calls : carried[n] \subseteq carried'[n]
  BY <1>2, <1>3
<1>6. HostShapes'
  BY <1>1, <1>2, <1>4, <1>5 DEF HostShapes, Fors
<1>7. StartsAreSettled'
  BY <1>1, <1>2, <1>4 DEF StartsAreSettled
<1>8. RequestsAreTimed'
  BY <1>1, <1>2, <1>3, <1>4, TimedStays
<1>9. ASSUME ~late PROVE OneProcess' /\ OneRequest' /\ CallsAreCarried'
  <2>1. OneProcess'
    BY <1>1, <1>2, <1>4, <1>9 DEF OneProcess
  <2>2. host.current = None0
    BY <1>1, <1>2, <1>9 DEF OneRequest
  <2>3. OneRequest'
    BY <1>1, <1>2, <1>9, <2>2 DEF OneRequest
  <2>4. CallsAreCarried'
    <3>1. \A n \in Calls : n < call.n => carried'[n] # {}
      BY <1>1, <1>5, <1>9 DEF CallsAreCarried
    <3> QED BY <1>4, <1>5, <3>1 DEF CallsAreCarried
  <2> QED BY <2>1, <2>3, <2>4
<1> QED BY <1>2, <1>6, <1>7, <1>8, <1>9 DEF HostInv

\* close() fails what is asked and kills the child.
LEMMA CloseKeeps == ASSUME HostInv, ~down, Close PROVE HostInv'
<1>1. /\ HostShapes /\ StartsAreSettled /\ RequestsAreTimed
      /\ ~late => OneProcess /\ OneRequest /\ CallsAreCarried
  BY DEF HostInv
<1>2. /\ call.for = "nothing" /\ host' = [kill(failAll(host)) EXCEPT !.failed = {}]
      /\ UNCHANGED <<call, carried, down, cut, late>>
  BY DEF Close
<1>3. /\ WellFormed(host) /\ host.child \in 0..Len(host.procs)
      /\ Len(host.procs) \in Nat /\ DOMAIN host.procs = 1..Len(host.procs)
  BY <1>1, ShapesFacts
<1> DEFINE f == failAll(host)
           g == kill(f)
<1>4. /\ WellFormed(f) /\ f.current = None0 /\ f.queue = <<>> /\ f.ready = host.ready
      /\ f.child = host.child /\ f.timers = host.timers /\ f.procs = host.procs
  BY <1>3, FailAllFacts
<1> HIDE DEF f
<1>5. /\ WellFormed(g) /\ g.child = None0 /\ (g.ready => f.ready /\ f.child = None0)
      /\ g.queue = f.queue /\ g.current = f.current /\ g.timers = f.timers
      /\ Len(g.procs) = Len(f.procs)
      /\ \A p \in 1..Len(f.procs) :
           /\ g.procs[p].settled = f.procs[p].settled
           /\ g.procs[p].state = IF p = f.child /\ Alive(f.procs[p]) THEN "dead" ELSE f.procs[p].state
  BY <1>4, KillFacts
<1> HIDE DEF g
<1>6. /\ WellFormed(host') /\ host'.failed = {} /\ host'.ready = g.ready /\ host'.child = g.child
      /\ host'.queue = g.queue /\ host'.current = g.current /\ host'.timers = g.timers
      /\ host'.procs = g.procs
  BY <1>2, <1>5, Forgotten DEF f, g
<1>7. /\ DOMAIN host'.procs = 1..Len(host.procs) /\ Len(host'.procs) = Len(host.procs)
      /\ host'.current = None0 /\ host'.queue = <<>> /\ host'.timers = host.timers /\ host'.child = None0
      /\ host'.ready => host.ready /\ host.child = None0
      /\ \A p \in 1..Len(host.procs) :
           /\ host'.procs[p].settled = host.procs[p].settled
           /\ Alive(host'.procs[p]) => Alive(host.procs[p]) /\ p # host.child
  BY <1>4, <1>5, <1>6, HostFields DEF Alive
<1>8. HostShapes'
  BY <1>1, <1>2, <1>6 DEF HostShapes
<1>9. StartsAreSettled'
  BY <1>1, <1>2, <1>3, <1>7 DEF StartsAreSettled
<1>10. RequestsAreTimed'
  <2>1. Asked(host') = {}
    BY <1>7 DEF Asked, Queued
  <2> QED BY <1>2, <1>7, <2>1 DEF RequestsAreTimed
<1>11. ASSUME ~late PROVE OneProcess' /\ OneRequest' /\ CallsAreCarried'
  <2>1. \A p \in 1..Len(host.procs) : ~Alive(host'.procs[p])
    BY <1>1, <1>3, <1>7, <1>11 DEF OneProcess
  <2>2. \A p \in 1..Len(host.procs) : host'.procs[p].settled
    BY <1>1, <1>2, <1>3, <1>7 DEF StartsAreSettled
  <2>3. ~host'.ready
    BY <1>1, <1>7, <1>11 DEF OneProcess
  <2>4. OneProcess'
    BY <1>7, <2>1, <2>2, <2>3 DEF OneProcess
  <2>5. host.current = None0
    BY <1>1, <1>2, <1>11 DEF OneRequest
  <2>6. OneRequest'
    BY <1>1, <1>2, <1>7, <1>11, <2>1, <2>5 DEF OneRequest, Alive
  <2>7. CallsAreCarried'
    BY <1>1, <1>2, <1>11 DEF CallsAreCarried
  <2> QED BY <2>4, <2>6, <2>7
<1> QED BY <1>2, <1>8, <1>9, <1>10, <1>11 DEF HostInv

\* One process moves on; the requests stay as they are.
LEMMA ProcessMoves ==
    ASSUME HostShapes, NEW p \in DOMAIN host.procs, NEW q \in Process, NEW t \in BOOLEAN,
           host' = [host EXCEPT !.procs = [host.procs EXCEPT ![p] = q], !.torn = t]
    PROVE  /\ WellFormed(host') /\ host'.failed = {} /\ Asked(host') = Asked(host)
           /\ host'.ready = host.ready /\ host'.child = host.child /\ host'.queue = host.queue
           /\ host'.current = host.current /\ host'.timers = host.timers
           /\ DOMAIN host'.procs = DOMAIN host.procs /\ Len(host'.procs) = Len(host.procs)
           /\ host'.procs[p] = q
           /\ \A i \in DOMAIN host.procs : i # p => host'.procs[i] = host.procs[i]
<1>1. /\ host \in HostRecord /\ host.procs \in Seq(Process) /\ host.failed = {}
      /\ host.child \in 0..Len(host.procs) /\ Len(host.procs) \in Nat
      /\ DOMAIN host.procs = 1..Len(host.procs) /\ p \in 1..Len(host.procs)
  BY ShapesFacts
<1> DEFINE ps == [host.procs EXCEPT ![p] = q]
<1>2. /\ ps \in Seq(Process) /\ Len(ps) = Len(host.procs) /\ ps[p] = q
      /\ \A i \in 1..Len(host.procs) : i # p => ps[i] = host.procs[i]
  BY <1>1, ProcessesWith
<1>3. host' = [host EXCEPT !.procs = ps, !.torn = t]
  OBVIOUS
<1> HIDE DEF ps
<1>4. /\ host' \in HostRecord /\ host'.failed = {} /\ host'.ready = host.ready
      /\ host'.child = host.child /\ host'.queue = host.queue /\ host'.current = host.current
      /\ host'.timers = host.timers /\ host'.procs = ps
  BY <1>1, <1>2, <1>3 DEF HostRecord
<1>5. WellFormed(host') /\ Asked(host') = Asked(host) /\ DOMAIN ps = 1..Len(host.procs)
  BY <1>1, <1>2, <1>4 DEF WellFormed, Asked, Queued
<1> QED BY <1>1, <1>2, <1>4, <1>5

\* Where no start is settled and none waited for, the starts are as they were.
LEMMA SettledStays ==
    ASSUME StartsAreSettled, DOMAIN host'.procs = DOMAIN host.procs, Len(host'.procs) = Len(host.procs),
           HostShapes, WellFormed(host'),
           \A i \in DOMAIN host.procs : host'.procs[i].settled = host.procs[i].settled,
           call'.for = "start" <=> call.for = "start"
    PROVE  StartsAreSettled'
<1>1. DOMAIN host.procs = 1..Len(host.procs) /\ Len(host.procs) \in Nat
      /\ host.procs \in Seq(Process) /\ host'.procs \in Seq(Process)
  BY ShapesFacts, HostFields
<1>2. \A i \in DOMAIN host'.procs : ~host'.procs[i].settled => i = Len(host'.procs) /\ call'.for = "start"
  BY DEF StartsAreSettled
<1>3. call'.for = "start" => host'.procs # <<>> /\ ~host'.procs[Len(host'.procs)].settled
  BY <1>1 DEF StartsAreSettled
<1> QED BY <1>2, <1>3 DEF StartsAreSettled

\* No process comes to life, none is left to wait for, and the child and READY stay.
LEMMA OneProcessStays ==
    ASSUME OneProcess, HostShapes, DOMAIN host'.procs = DOMAIN host.procs, down' = down,
           host'.child = host.child, host'.ready = host.ready,
           call'.for = "start" => call.for = "start",
           \A i \in DOMAIN host.procs :
             /\ host'.procs[i].settled = host.procs[i].settled
             /\ Alive(host'.procs[i]) => Alive(host.procs[i])
             /\ host'.procs[i].state = "booting" => host.procs[i].state = "booting"
    PROVE  OneProcess'
<1>1. host.child \in 0..Len(host.procs) /\ DOMAIN host.procs = 1..Len(host.procs)
  BY ShapesFacts
<1>2. \A i \in DOMAIN host'.procs :
        /\ Alive(host'.procs[i]) \/ (~host'.procs[i].settled /\ ~down') => host'.child = i
        /\ Alive(host'.procs[i]) /\ host'.procs[i].settled => host'.ready
  BY DEF OneProcess
<1>3. host.ready => host.child \in DOMAIN host.procs
  BY <1>1 DEF OneProcess, None0
<1>4. host'.ready => /\ host'.child # None0 /\ call'.for # "start"
                     /\ host'.procs[host'.child].state # "booting"
  BY <1>3 DEF OneProcess
<1> QED BY <1>2, <1>4 DEF OneProcess

\* A process carries out what it was given.
LEMMA CarryKeeps == ASSUME HostInv, ~down, NEW p \in DOMAIN host.procs, Carry(p) PROVE HostInv'
<1>1. /\ HostShapes /\ StartsAreSettled /\ RequestsAreTimed
      /\ ~late => OneProcess /\ OneRequest /\ CallsAreCarried
  BY DEF HostInv
<1>2. /\ host.procs[p].state = "up" /\ host.procs[p].work # None0
      /\ host' = [host EXCEPT !.procs[p].did = TRUE]
      /\ carried' = [carried EXCEPT ![host.procs[p].work] = @ \cup {"host"}]
      /\ UNCHANGED <<call, down, cut, late>>
  BY DEF Carry
<1>3. /\ host \in HostRecord /\ host.torn \in BOOLEAN /\ host.procs \in Seq(Process)
      /\ DOMAIN host.procs = 1..Len(host.procs)
      /\ host.procs[p] \in Process /\ Asked(host) \subseteq Calls /\ call.n \in Nat
      /\ carried \in [Calls -> SUBSET {"host", "script"}]
  BY <1>1, ShapesFacts, HostAssumption DEF HostShapes
<1> DEFINE old == host.procs[p]
           q == [old EXCEPT !.did = TRUE]
<1>4. q \in Process /\ q.state = "up" /\ q.settled = old.settled /\ q.work = old.work
      /\ old.work \in 0..MaxCalls
  BY <1>2, <1>3 DEF Process
<1>5. host' = [host EXCEPT !.procs = [host.procs EXCEPT ![p] = q], !.torn = host.torn]
  BY <1>2, <1>3 DEF HostRecord
<1> HIDE DEF q
<1>6. /\ WellFormed(host') /\ host'.failed = {} /\ Asked(host') = Asked(host)
      /\ host'.ready = host.ready /\ host'.child = host.child /\ host'.queue = host.queue
      /\ host'.current = host.current /\ host'.timers = host.timers
      /\ DOMAIN host'.procs = DOMAIN host.procs /\ Len(host'.procs) = Len(host.procs)
      /\ host'.procs[p] = q
      /\ \A i \in DOMAIN host.procs : i # p => host'.procs[i] = host.procs[i]
  BY <1>1, <1>3, <1>4, <1>5, ProcessMoves
<1>7. old.work \in Calls
  BY <1>2, <1>4, HostAssumption DEF Calls, None0
<1>8. /\ carried' \in [Calls -> SUBSET {"host", "script"}] /\ carried'[old.work] # {}
      /\ \A n \in Calls : carried[n] \subseteq carried'[n]
  BY <1>2, <1>3, <1>7
<1>9. \A i \in DOMAIN host.procs : /\ host'.procs[i].state = host.procs[i].state
                                   /\ host'.procs[i].settled = host.procs[i].settled
                                   /\ host'.procs[i].work = host.procs[i].work
                                   /\ i # p => host'.procs[i].did = host.procs[i].did
  BY <1>2, <1>4, <1>6
<1> HIDE DEF old
<1>10. HostShapes'
  BY <1>1, <1>2, <1>6, <1>8 DEF HostShapes
<1>11. StartsAreSettled'
  BY <1>1, <1>2, <1>6, <1>9, SettledStays
<1>12. RequestsAreTimed'
  BY <1>1, <1>2, <1>3, <1>6, TimedStays
<1>13. ASSUME ~late PROVE OneProcess' /\ OneRequest' /\ CallsAreCarried'
  <2>1. OneProcess'
    BY <1>1, <1>2, <1>6, <1>9, <1>13, OneProcessStays DEF Alive
  <2>2. \A i \in DOMAIN host.procs :
          /\ host'.procs[i].state = "up" /\ host'.procs[i].work # None0 => host'.procs[i].work = host.current
          /\ host'.procs[i].state = "booting" => host'.procs[i].work = None0 /\ ~host'.procs[i].did
    BY <1>1, <1>2, <1>9, <1>13 DEF OneRequest
  <2>3. ASSUME NEW i \in DOMAIN host.procs, host'.procs[i].state = "up", host'.procs[i].did
        PROVE  host'.procs[i].work # None0 /\ carried'[host'.procs[i].work] # {}
    <3>1. i = p
      BY <1>1, <1>2, <1>9, <1>13, <2>3 DEF OneProcess, Alive
    <3> QED BY <1>2, <1>8, <1>9, <3>1 DEF old
  <2>4. OneRequest'
    BY <1>1, <1>2, <1>6, <1>13, <2>2, <2>3 DEF OneRequest
  <2>5. CallsAreCarried'
    BY <1>1, <1>2, <1>8, <1>13 DEF CallsAreCarried
  <2> QED BY <2>1, <2>4, <2>5
<1> QED BY <1>2, <1>10, <1>11, <1>12, <1>13 DEF HostInv

\* A process dies.
LEMMA DieKeeps == ASSUME HostInv, ~down, NEW p \in DOMAIN host.procs, Die(p) PROVE HostInv'
<1>1. /\ HostShapes /\ StartsAreSettled /\ RequestsAreTimed
      /\ ~late => OneProcess /\ OneRequest /\ CallsAreCarried
  BY DEF HostInv
<1>2. PICK t \in BOOLEAN :
        host' = [host EXCEPT !.procs[p].state = "dead", !.torn = host.torn \/ t]
  BY DEF Die
<1>3. Alive(host.procs[p]) /\ UNCHANGED <<call, carried, down, cut, late>>
  BY DEF Die
<1>4. /\ host \in HostRecord /\ host.procs \in Seq(Process)
      /\ DOMAIN host.procs = 1..Len(host.procs)
      /\ host.procs[p] \in Process /\ Asked(host) \subseteq Calls /\ call.n \in Nat
  BY <1>1, ShapesFacts, HostAssumption
<1> DEFINE old == host.procs[p]
           q == [old EXCEPT !.state = "dead"]
           torn == host.torn \/ t
<1>5. q \in Process /\ q.state = "dead" /\ q.settled = old.settled
  BY <1>4 DEF Process, ProcStates
<1>6. host' = [host EXCEPT !.procs = [host.procs EXCEPT ![p] = q], !.torn = torn]
  BY <1>2, <1>4 DEF HostRecord
<1>7. torn \in BOOLEAN
  OBVIOUS
<1> HIDE DEF q, torn
<1>8. /\ WellFormed(host') /\ host'.failed = {} /\ Asked(host') = Asked(host)
      /\ host'.ready = host.ready /\ host'.child = host.child /\ host'.queue = host.queue
      /\ host'.current = host.current /\ host'.timers = host.timers
      /\ DOMAIN host'.procs = DOMAIN host.procs /\ Len(host'.procs) = Len(host.procs)
      /\ host'.procs[p] = q
      /\ \A i \in DOMAIN host.procs : i # p => host'.procs[i] = host.procs[i]
  BY <1>1, <1>5, <1>6, <1>7, ProcessMoves
<1>9. \A i \in DOMAIN host.procs : /\ host'.procs[i].settled = host.procs[i].settled
                                   /\ Alive(host'.procs[i]) => i # p
                                   /\ host'.procs[i].state = "booting" => i # p
                                   /\ host'.procs[i].state = "up" => i # p
                                   /\ i # p => host'.procs[i] = host.procs[i]
  BY <1>5, <1>8 DEF Alive
<1>10. HostShapes'
  BY <1>1, <1>3, <1>8 DEF HostShapes
<1>11. StartsAreSettled'
  BY <1>1, <1>3, <1>8, <1>9, SettledStays
<1>12. RequestsAreTimed'
  BY <1>1, <1>3, <1>4, <1>8, TimedStays
<1>13. ASSUME ~late PROVE OneProcess' /\ OneRequest' /\ CallsAreCarried'
  <2>1. OneProcess'
    BY <1>1, <1>3, <1>8, <1>9, <1>13, OneProcessStays
  <2>2. OneRequest'
    BY <1>1, <1>3, <1>8, <1>9, <1>13 DEF OneRequest
  <2>3. CallsAreCarried'
    BY <1>1, <1>3, <1>13 DEF CallsAreCarried
  <2> QED BY <2>1, <2>2, <2>3
<1> QED BY <1>3, <1>10, <1>11, <1>12, <1>13 DEF HostInv

\* A start that is over, for better or worse: the call goes on without it.
LEMMA StartOver ==
    ASSUME StartsAreSettled, NEW p \in DOMAIN host.procs, ~host.procs[p].settled,
           DOMAIN host'.procs = DOMAIN host.procs, host'.procs[p].settled = TRUE,
           \A i \in DOMAIN host.procs : i # p => host'.procs[i].settled = host.procs[i].settled,
           call'.for # "start"
    PROVE  StartsAreSettled' /\ call.for = "start" /\ \A i \in DOMAIN host.procs : host'.procs[i].settled
<1>1. p = Len(host.procs) /\ call.for = "start"
      /\ \A i \in DOMAIN host.procs : i # p => host.procs[i].settled
  BY DEF StartsAreSettled
<1> QED BY <1>1 DEF StartsAreSettled

\* Nothing is at work while the call waits for a start.
LEMMA NothingAtWork ==
    ASSUME OneRequest, HostShapes, call.for # "answer"
    PROVE  host.current = None0 /\ (~cut => host.timers = {})
<1>1. host.timers \in SUBSET Calls
  BY ShapesFacts
<1>2. None0 \notin Calls
  BY HostAssumption DEF None0, Calls
<1> QED BY <1>1, <1>2 DEF OneRequest

\* A process was not ready in time: its start fails, and the host is off.
LEMMA GiveUpKeeps == ASSUME HostInv, ~down, NEW p \in DOMAIN host.procs, GiveUp(p) PROVE HostInv'
<1>1. /\ HostShapes /\ StartsAreSettled /\ RequestsAreTimed
      /\ ~late => OneProcess /\ OneRequest /\ CallsAreCarried
  BY DEF HostInv
<1>2. /\ ~host.procs[p].settled /\ host' = kill(Refused(host, p))
      /\ call' = [call EXCEPT !.for = "script"] /\ UNCHANGED <<carried, down, cut, late>>
  BY DEF GiveUp
<1>3. /\ WellFormed(host) /\ host.failed = {} /\ call.n \in Nat /\ Asked(host) \subseteq Calls
      /\ DOMAIN host.procs = 1..Len(host.procs) /\ host.child \in 0..Len(host.procs)
  BY <1>1, ShapesFacts, HostAssumption
<1>4. call.for = "start" /\ call.n # 0
  BY <1>1, <1>2 DEF StartsAreSettled, HostShapes
<1>5. call'.n = call.n /\ call'.for = "script"
  BY <1>1, <1>2 DEF HostShapes
<1>0. PICK f : f = Refused(host, p)
  OBVIOUS
<1>6. /\ WellFormed(f) /\ Asked(f) = Asked(host)
      /\ f.ready = host.ready /\ f.child = host.child /\ f.queue = host.queue
      /\ f.current = host.current /\ f.timers = host.timers /\ f.failed = host.failed
      /\ DOMAIN f.procs = DOMAIN host.procs /\ Len(f.procs) = Len(host.procs)
      /\ f.procs[p].settled = TRUE /\ f.procs[p].state = host.procs[p].state
      /\ \A i \in DOMAIN host.procs : i # p => f.procs[i] = host.procs[i]
  <2>1. SettledHost(f, host, p)
    BY <1>0, <1>3, RefusedFacts
  <2> QED BY <2>1 DEF SettledHost
<1>7. host' = kill(f)
  BY <1>0, <1>2
<1>8. /\ WellFormed(host') /\ host'.child = None0 /\ (host'.ready => f.ready /\ f.child = None0)
      /\ host'.queue = f.queue /\ host'.current = f.current /\ host'.timers = f.timers
      /\ host'.failed = f.failed /\ Len(host'.procs) = Len(f.procs)
      /\ \A i \in 1..Len(f.procs) :
           /\ host'.procs[i].settled = f.procs[i].settled /\ host'.procs[i].work = f.procs[i].work
           /\ host'.procs[i].did = f.procs[i].did
           /\ host'.procs[i].state =
                IF i = f.child /\ Alive(f.procs[i]) THEN "dead" ELSE f.procs[i].state
  BY <1>6, <1>7, KillFacts
<1>9. DOMAIN host'.procs = DOMAIN host.procs
      /\ \A i \in DOMAIN host.procs : Alive(host'.procs[i]) => Alive(host.procs[i]) /\ i # host.child
  BY <1>3, <1>6, <1>8, HostFields DEF Alive
<1>10. HostShapes'
  BY <1>1, <1>2, <1>3, <1>4, <1>5, <1>6, <1>8 DEF HostShapes
<1>11. StartsAreSettled' /\ \A i \in DOMAIN host.procs : host'.procs[i].settled
  <2>1. host'.procs[p].settled = TRUE
        /\ \A i \in DOMAIN host.procs : i # p => host'.procs[i].settled = host.procs[i].settled
    BY <1>3, <1>6, <1>8
  <2>2. call'.for # "start"
    BY <1>5
  <2> QED BY <1>1, <1>2, <1>9, <2>1, <2>2, StartOver
<1>12. RequestsAreTimed'
  <2>1. Asked(host') = Asked(f)
    BY <1>8 DEF Asked, Queued
  <2> QED BY <1>1, <1>3, <1>5, <1>6, <1>8, <2>1, TimedStays
<1>13. ASSUME ~late PROVE OneProcess' /\ OneRequest' /\ CallsAreCarried'
  <2>1. \A i \in DOMAIN host.procs : ~Alive(host'.procs[i])
    BY <1>1, <1>9, <1>13 DEF OneProcess
  <2>2. ~host'.ready
    BY <1>1, <1>4, <1>6, <1>8, <1>13 DEF OneProcess
  <2>3. OneProcess'
    BY <1>9, <1>11, <2>1, <2>2 DEF OneProcess
  <2>4. host.current = None0
    BY <1>1, <1>4, <1>13, NothingAtWork
  <2>5. OneRequest'
    BY <1>1, <1>2, <1>6, <1>8, <1>9, <1>13, <2>1, <2>4 DEF OneRequest, Alive
  <2>6. CallsAreCarried'
    BY <1>1, <1>2, <1>5, <1>13 DEF CallsAreCarried
  <2> QED BY <2>3, <2>5, <2>6
<1> QED BY <1>2, <1>10, <1>11, <1>12, <1>13 DEF HostInv

\* A process could not be started: the host is off for good.
LEMMA StartErrorKeeps ==
    ASSUME HostInv, ~down, NEW p \in DOMAIN host.procs, StartError(p) PROVE HostInv'
<1>1. /\ HostShapes /\ StartsAreSettled /\ RequestsAreTimed
      /\ ~late => OneProcess /\ OneRequest /\ CallsAreCarried
  BY DEF HostInv
<1>2. /\ host.procs[p].state = "booting" /\ ~host.procs[p].settled
      /\ host' = [Refused(host, p) EXCEPT !.procs[p].state = "gone"]
      /\ call' = [call EXCEPT !.for = "script"] /\ UNCHANGED <<carried, down, cut, late>>
  BY DEF StartError
<1>3. /\ WellFormed(host) /\ host.failed = {} /\ call.n \in Nat /\ Asked(host) \subseteq Calls
      /\ DOMAIN host.procs = 1..Len(host.procs) /\ host.child \in 0..Len(host.procs)
  BY <1>1, ShapesFacts, HostAssumption
<1>4. call.for = "start" /\ call.n # 0
  BY <1>1, <1>2 DEF StartsAreSettled, HostShapes
<1>5. call'.n = call.n /\ call'.for = "script"
  BY <1>1, <1>2 DEF HostShapes
<1>0. PICK f : f = Refused(host, p)
  OBVIOUS
<1>6. /\ WellFormed(f) /\ Asked(f) = Asked(host)
      /\ f.ready = host.ready /\ f.child = host.child /\ f.queue = host.queue
      /\ f.current = host.current /\ f.timers = host.timers /\ f.failed = host.failed
      /\ DOMAIN f.procs = DOMAIN host.procs /\ Len(f.procs) = Len(host.procs)
      /\ f.procs[p].settled = TRUE
      /\ \A i \in DOMAIN host.procs : i # p => f.procs[i] = host.procs[i]
  <2>1. SettledHost(f, host, p)
    BY <1>0, <1>3, RefusedFacts
  <2> QED BY <2>1 DEF SettledHost
<1>7. host' = [f EXCEPT !.procs[p].state = "gone"]
  BY <1>0, <1>2
<1> DEFINE old == f.procs[p]
           q == [old EXCEPT !.state = "gone"]
           ps == [f.procs EXCEPT ![p] = q]
<1>8. /\ f \in HostRecord /\ f.procs \in Seq(Process) /\ old \in Process
      /\ DOMAIN f.procs = 1..Len(f.procs) /\ f.child \in 0..Len(f.procs)
  BY <1>6, HostFields
<1>9. q \in Process /\ q.settled = TRUE /\ q.state = "gone"
  BY <1>6, <1>8 DEF Process, ProcStates
<1>10. host' = [f EXCEPT !.procs = ps]
  BY <1>7, <1>8 DEF HostRecord
<1> HIDE DEF q
<1>11. /\ ps \in Seq(Process) /\ Len(ps) = Len(f.procs) /\ ps[p] = q
       /\ \A i \in 1..Len(f.procs) : i # p => ps[i] = f.procs[i]
  BY <1>6, <1>8, <1>9, ProcessesWith
<1> HIDE DEF ps
<1>12. /\ host' \in HostRecord /\ host'.failed = f.failed /\ host'.ready = f.ready
       /\ host'.child = f.child /\ host'.queue = f.queue /\ host'.current = f.current
       /\ host'.timers = f.timers /\ host'.procs = ps
  BY <1>8, <1>10, <1>11 DEF HostRecord
<1>13. WellFormed(host') /\ Asked(host') = Asked(host) /\ DOMAIN host'.procs = DOMAIN host.procs
       /\ Len(host'.procs) = Len(host.procs)
  BY <1>3, <1>6, <1>8, <1>11, <1>12 DEF WellFormed, Asked, Queued
<1>14. host'.procs[p].state = "gone" /\ host'.procs[p].settled = TRUE
       /\ \A i \in DOMAIN host.procs : i # p => host'.procs[i] = host.procs[i]
  BY <1>6, <1>8, <1>9, <1>11, <1>12
<1>15. HostShapes'
  BY <1>1, <1>2, <1>3, <1>4, <1>5, <1>6, <1>12, <1>13 DEF HostShapes
<1>16. StartsAreSettled' /\ \A i \in DOMAIN host.procs : host'.procs[i].settled
  BY <1>1, <1>2, <1>5, <1>13, <1>14, StartOver
<1>17. RequestsAreTimed'
  BY <1>1, <1>3, <1>5, <1>6, <1>12, <1>13, TimedStays
<1>18. ASSUME ~late PROVE OneProcess' /\ OneRequest' /\ CallsAreCarried'
  <2>1. host.child = p /\ ~host.ready
    BY <1>1, <1>2, <1>4, <1>18 DEF OneProcess, Alive
  <2>2. \A i \in DOMAIN host.procs : ~Alive(host'.procs[i])
    BY <1>1, <1>14, <1>18, <2>1 DEF OneProcess, Alive
  <2>3. OneProcess'
    BY <1>6, <1>12, <1>13, <1>16, <2>1, <2>2 DEF OneProcess
  <2>4. host.current = None0
    BY <1>1, <1>4, <1>18, NothingAtWork
  <2>5. OneRequest'
    BY <1>1, <1>2, <1>6, <1>12, <1>13, <1>18, <2>2, <2>4 DEF OneRequest, Alive
  <2>6. CallsAreCarried'
    BY <1>1, <1>2, <1>5, <1>18 DEF CallsAreCarried
  <2> QED BY <2>3, <2>5, <2>6
<1> QED BY <1>2, <1>15, <1>16, <1>17, <1>18 DEF HostInv

\* A host that differs in the process p and in what a callback sets.
MovedHost(g, p, q, r, c, w, ts) ==
    /\ WellFormed(g) /\ g.failed = {}
    /\ g.ready = r /\ g.child = c /\ g.queue = host.queue /\ g.current = w /\ g.timers = ts
    /\ DOMAIN g.procs = DOMAIN host.procs /\ Len(g.procs) = Len(host.procs)
    /\ g.procs[p] = q
    /\ \A i \in DOMAIN host.procs : i # p => g.procs[i] = host.procs[i]

\* What a step over one process does to the host.
LEMMA MovedFacts ==
    ASSUME NEW p, NEW q, NEW r, NEW c, NEW w, NEW t, NEW ts, NEW g,
           HostShapes, p \in DOMAIN host.procs, q \in Process, r \in BOOLEAN,
           c \in 0..Len(host.procs), w \in 0..MaxCalls, t \in BOOLEAN, ts \in SUBSET Calls,
           g = [disabled |-> host.disabled, ready |-> r, child |-> c, queue |-> host.queue,
                current |-> w, torn |-> t, timers |-> ts, procs |-> [host.procs EXCEPT ![p] = q],
                failed |-> host.failed]
    PROVE  MovedHost(g, p, q, r, c, w, ts)
<1>1. /\ host \in HostRecord /\ host.procs \in Seq(Process) /\ host.failed = {}
      /\ host.child \in 0..Len(host.procs) /\ Len(host.procs) \in Nat
      /\ DOMAIN host.procs = 1..Len(host.procs) /\ p \in 1..Len(host.procs)
      /\ host.disabled \in BOOLEAN /\ host.queue \in Seq(Calls)
  BY ShapesFacts
<1> DEFINE ps == [host.procs EXCEPT ![p] = q]
<1>2. /\ ps \in Seq(Process) /\ Len(ps) = Len(host.procs) /\ ps[p] = q
      /\ \A i \in 1..Len(host.procs) : i # p => ps[i] = host.procs[i]
  BY <1>1, ProcessesWith
<1>3. g = [disabled |-> host.disabled, ready |-> r, child |-> c, queue |-> host.queue,
           current |-> w, torn |-> t, timers |-> ts, procs |-> ps, failed |-> host.failed]
  OBVIOUS
<1> HIDE DEF ps
<1>4. /\ g \in HostRecord /\ g.failed = {} /\ g.ready = r /\ g.child = c /\ g.queue = host.queue
      /\ g.current = w /\ g.timers = ts /\ g.procs = ps
  BY <1>1, <1>2, <1>3 DEF HostRecord
<1>5. WellFormed(g) /\ DOMAIN ps = 1..Len(host.procs)
  BY <1>1, <1>2, <1>4 DEF WellFormed
<1> QED BY <1>1, <1>2, <1>4, <1>5 DEF MovedHost

\* No process is left, and no request.
LEMMA NoneLeft ==
    ASSUME \A i \in DOMAIN host'.procs : ~Alive(host'.procs[i]) /\ (host'.procs[i].settled \/ down'),
           ~host'.ready, host'.current = None0, host'.queue = <<>>,
           ~cut' => host'.timers \subseteq {None0}, down' => cut'
    PROVE  OneProcess' /\ OneRequest'
  BY DEF OneProcess, OneRequest, Alive

\* With no request at work and none in the queue nothing is asked.
LEMMA NothingAsked ==
    ASSUME NEW h, h.current = None0, h.queue = <<>>
    PROVE  Asked(h) = {}
  BY DEF Asked, Queued

\* The call after what was asked for has failed: one that waits for a start waits on.
LEMMA CallAfterFailure ==
    ASSUME HostShapes, RequestsAreTimed, NEW for, for \in {call.for, "script"},
           for = "script" => call.n # 0 \/ call.for = "script",
           call'.n = call.n, call'.for = (IF call.n \in Asked(host) THEN "script" ELSE for)
    PROVE  /\ call'.for \in Fors /\ (call'.for # "nothing" => call'.n # 0) /\ call'.for # "answer"
           /\ for = call.for => (call'.for = "start" <=> call.for = "start")
           /\ call'.for = "nothing" => call.for = "nothing"
<1>1. Asked(host) \subseteq Calls /\ call.for \in Fors /\ (call.for # "nothing" => call.n # 0)
  BY ShapesFacts DEF HostShapes
<1>2. 0 \notin Calls
  BY HostAssumption DEF Calls
<1>3. call.for = "start" => call.n \notin Asked(host)
  BY DEF RequestsAreTimed
<1>4. call.for = "answer" => call.n \in Asked(host)
  BY DEF RequestsAreTimed
<1> QED BY <1>1, <1>2, <1>3, <1>4 DEF Fors

\* A request was not answered in time: its process is killed, and all fail.
LEMMA TimeoutKeeps == ASSUME HostInv, ~down, NEW r \in Calls, Timeout(r) PROVE HostInv'
<1>1. /\ HostShapes /\ StartsAreSettled /\ RequestsAreTimed
      /\ ~late => OneProcess /\ OneRequest /\ CallsAreCarried
  BY DEF HostInv
<1>2. /\ WellFormed(host) /\ host \in HostRecord /\ host.failed = {} /\ host.timers \in SUBSET Calls
      /\ DOMAIN host.procs = 1..Len(host.procs) /\ host.child \in 0..Len(host.procs)
      /\ call \in [n : 0..MaxCalls, for : Fors] /\ call = [n |-> call.n, for |-> call.for]
  BY <1>1, ShapesFacts DEF HostShapes, Fors
<1>3. PICK k : k = [host EXCEPT !.timers = @ \ {r}]
  OBVIOUS
<1>4. PICK g : g = kill(k)
  OBVIOUS
<1>5. /\ WellFormed(k) /\ k.ready = host.ready /\ k.child = host.child /\ k.queue = host.queue
      /\ k.current = host.current /\ k.timers = host.timers \ {r} /\ k.procs = host.procs
      /\ k.failed = {}
  <2>1. /\ k \in HostRecord /\ k.ready = host.ready /\ k.child = host.child /\ k.queue = host.queue
        /\ k.current = host.current /\ k.timers = host.timers \ {r} /\ k.procs = host.procs
        /\ k.failed = {}
    BY <1>2, <1>3 DEF HostRecord
  <2> QED BY <1>2, <2>1 DEF WellFormed
<1>6. /\ WellFormed(g) /\ g.child = None0 /\ (g.ready => k.ready /\ k.child = None0)
      /\ g.queue = k.queue /\ g.current = k.current /\ g.timers = k.timers /\ g.failed = k.failed
      /\ Len(g.procs) = Len(k.procs)
      /\ \A p \in 1..Len(k.procs) :
           /\ g.procs[p].settled = k.procs[p].settled
           /\ g.procs[p].state = IF p = k.child /\ Alive(k.procs[p]) THEN "dead" ELSE k.procs[p].state
  BY <1>4, <1>5, KillFacts
<1>7. /\ DOMAIN g.procs = DOMAIN host.procs /\ Len(g.procs) = Len(host.procs)
      /\ (g.ready => host.ready /\ host.child = None0)
      /\ Asked(g) = Asked(host) /\ g.timers = host.timers \ {r}
      /\ \A i \in DOMAIN host.procs :
           /\ g.procs[i].settled = host.procs[i].settled
           /\ Alive(g.procs[i]) => Alive(host.procs[i]) /\ i # host.child
  BY <1>2, <1>5, <1>6, HostFields DEF Alive, Asked, Queued
<1>8. ASSUME ~late PROVE ~g.ready /\ \A i \in DOMAIN host.procs : ~Alive(g.procs[i])
  BY <1>1, <1>7, <1>8 DEF OneProcess
<1>9. r \in host.timers /\ UNCHANGED <<carried, cut, late>>
      /\ (host.current = None0 => host' = g /\ down' = TRUE /\ UNCHANGED call)
      /\ (host.current # None0 => Becomes(failAll(g), call.for) /\ UNCHANGED down)
  BY <1>3, <1>4 DEF Timeout
<1>10. ~late => CallsAreCarried /\ (down => cut) /\ (~cut => host.timers \subseteq {host.current})
  BY <1>1 DEF OneRequest
<1>a. CASE host.current = None0
  <2>1. host' = g /\ down' = TRUE /\ UNCHANGED call
    BY <1>9, <1>a
  <2>2. host.queue = <<>>
    BY <1>1, <1>a DEF RequestsAreTimed
  <2>3. HostShapes'
    BY <1>1, <1>5, <1>6, <1>9, <2>1 DEF HostShapes
  <2>4. StartsAreSettled'
    BY <1>1, <1>6, <1>7, <2>1, SettledStays
  <2>5. RequestsAreTimed'
    BY <1>1, <1>5, <1>6, <1>7, <1>a, <2>1, <2>2 DEF RequestsAreTimed
  <2>6. ASSUME ~late PROVE OneProcess' /\ OneRequest' /\ CallsAreCarried'
    <3>1. cut
      <4>1. None0 \notin host.timers
        BY <1>2, HostAssumption DEF Calls, None0
      <4> QED BY <1>9, <1>10, <1>a, <2>6, <4>1
    <3>2. OneProcess' /\ OneRequest'
      BY <1>5, <1>6, <1>7, <1>8, <1>9, <1>a, <2>1, <2>2, <2>6, <3>1, NoneLeft
    <3>3. CallsAreCarried'
      BY <1>9, <1>10, <2>1, <2>6 DEF CallsAreCarried
    <3> QED BY <3>2, <3>3
  <2> QED BY <1>9, <2>3, <2>4, <2>5, <2>6 DEF HostInv
<1>b. CASE host.current # None0
  <2>0. PICK m : m = failAll(g)
    OBVIOUS
  <2>1. /\ WellFormed(m) /\ m.current = None0 /\ m.queue = <<>> /\ m.failed = Asked(host)
        /\ m.ready = g.ready /\ m.timers = g.timers /\ m.procs = g.procs
    <3>1. WellFormed(g) /\ g.failed = {} /\ Asked(g) = Asked(host)
      BY <1>5, <1>6, <1>7
    <3>2. /\ WellFormed(m) /\ m.current = None0 /\ m.queue = <<>> /\ m.failed = g.failed \cup Asked(g)
          /\ m.ready = g.ready /\ m.timers = g.timers /\ m.procs = g.procs
      BY <2>0, <3>1, FailAllFacts
    <3> QED BY <3>1, <3>2
  <2>2. Becomes(m, call.for) /\ down' = down
    BY <1>9, <1>b, <2>0
  <2>3. /\ WellFormed(host') /\ host'.failed = {} /\ host'.ready = m.ready
        /\ host'.queue = m.queue /\ host'.current = m.current
        /\ host'.timers = m.timers /\ host'.procs = m.procs
        /\ call'.n = call.n /\ call'.for = (IF call.n \in m.failed THEN "script" ELSE call.for)
        /\ call' \in [n : 0..MaxCalls, for : Fors]
    BY <1>2, <2>1, <2>2, BecomesFacts DEF Fors
  <2>4. /\ (call'.for # "nothing" => call'.n # 0) /\ call'.for # "answer"
        /\ (call'.for = "start" <=> call.for = "start")
        /\ (call'.for = "nothing" => call.for = "nothing")
    <3>1. call.for = "script" => call.n # 0 \/ call.for = "script"
      OBVIOUS
    <3> QED BY <1>1, <2>1, <2>3, <3>1, CallAfterFailure
  <2>5. HostShapes'
    BY <1>1, <1>9, <2>2, <2>3, <2>4 DEF HostShapes, Fors
  <2>6. StartsAreSettled'
    BY <1>1, <1>7, <2>1, <2>3, <2>4, SettledStays
  <2>7. RequestsAreTimed'
    BY <2>1, <2>3, <2>4, NothingAsked DEF RequestsAreTimed
  <2>8. ASSUME ~late PROVE OneProcess' /\ OneRequest' /\ CallsAreCarried'
    <3>1. call.for = "answer" /\ \A i \in DOMAIN host.procs : host.procs[i].settled
      BY <1>1, <1>b, <2>8 DEF OneRequest, StartsAreSettled
    <3>2. ~cut => host'.timers \subseteq {None0}
      BY <1>7, <1>9, <1>10, <2>1, <2>3, <2>8
    <3>3. \A i \in DOMAIN host'.procs : ~Alive(host'.procs[i]) /\ host'.procs[i].settled
      BY <1>7, <1>8, <2>1, <2>3, <2>8, <3>1
    <3>4. OneProcess' /\ OneRequest'
      BY <1>8, <1>9, <2>1, <2>2, <2>3, <2>8, <3>2, <3>3, NoneLeft
    <3>5. CallsAreCarried'
      BY <1>9, <1>10, <2>3, <2>4, <2>8 DEF CallsAreCarried
    <3> QED BY <3>4, <3>5
  <2> QED BY <1>9, <2>5, <2>6, <2>7, <2>8 DEF HostInv
<1> QED BY <1>a, <1>b

\* The exit of a process is heard.
LEMMA ExitKeeps == ASSUME HostInv, ~down, NEW p \in DOMAIN host.procs, Exit(p) PROVE HostInv'
<1>1. /\ HostShapes /\ StartsAreSettled /\ RequestsAreTimed
      /\ ~late => OneProcess /\ OneRequest /\ CallsAreCarried
  BY DEF HostInv
<1>2. /\ WellFormed(host) /\ host \in HostRecord /\ host.failed = {} /\ host.timers \in SUBSET Calls
      /\ DOMAIN host.procs = 1..Len(host.procs) /\ host.child \in 0..Len(host.procs)
      /\ host.current \in 0..MaxCalls /\ host.torn \in BOOLEAN /\ host.procs[p] \in Process
      /\ call \in [n : 0..MaxCalls, for : Fors] /\ Len(host.procs) \in Nat
  BY <1>1, ShapesFacts DEF HostShapes, Fors
<1> DEFINE old == host.procs[p]
           q == [old EXCEPT !.state = "gone"]
<1>3. PICK g : g = [host EXCEPT !.procs[p].state = "gone", !.ready = FALSE, !.child = None0]
  OBVIOUS
<1>4. PICK k : k = IF g.procs[p].settled THEN g ELSE Refused(g, p)
  OBVIOUS
<1>5. PICK m : m = failAll(k)
  OBVIOUS
<1>6. /\ host.procs[p].state = "dead" /\ Becomes(m, Told(p, "script"))
      /\ cut' = (cut \/ host.current # None0) /\ late' = (late \/ host.child \notin {None0, p})
      /\ UNCHANGED <<carried, down>>
  BY <1>3, <1>4, <1>5 DEF Exit
<1>7. q \in Process /\ q.state = "gone" /\ q.settled = old.settled
  BY <1>2 DEF Process, ProcStates
<1>8. g = [disabled |-> host.disabled, ready |-> FALSE, child |-> None0, queue |-> host.queue,
           current |-> host.current, torn |-> host.torn, timers |-> host.timers,
           procs |-> [host.procs EXCEPT ![p] = q], failed |-> host.failed]
  BY <1>2, <1>3 DEF HostRecord
<1> HIDE DEF q
<1>9. /\ WellFormed(g) /\ g.failed = {} /\ g.ready = FALSE /\ g.child = None0 /\ g.queue = host.queue
      /\ g.current = host.current /\ g.timers = host.timers
      /\ DOMAIN g.procs = DOMAIN host.procs /\ Len(g.procs) = Len(host.procs) /\ g.procs[p] = q
      /\ \A i \in DOMAIN host.procs : i # p => g.procs[i] = host.procs[i]
  <2>1. None0 \in 0..Len(host.procs) /\ FALSE \in BOOLEAN
    BY <1>2 DEF None0
  <2>2. MovedHost(g, p, q, FALSE, None0, host.current, host.timers)
    BY <1>1, <1>2, <1>7, <1>8, <2>1, MovedFacts
  <2> QED BY <2>2 DEF MovedHost
<1>10. Asked(g) = Asked(host)
  BY <1>9 DEF Asked, Queued
<1>11. /\ WellFormed(k) /\ k.failed = {} /\ k.ready = FALSE /\ k.timers = host.timers
       /\ Asked(k) = Asked(host)
       /\ DOMAIN k.procs = DOMAIN host.procs /\ Len(k.procs) = Len(host.procs)
       /\ k.procs[p].state = "gone" /\ k.procs[p].settled = TRUE
       /\ \A i \in DOMAIN host.procs : i # p => k.procs[i] = host.procs[i]
  <2>1. CASE g.procs[p].settled
    <3>1. g.procs[p].settled = TRUE
      BY <1>7, <1>9, <2>1 DEF Process
    <3> QED BY <1>4, <1>7, <1>9, <1>10, <2>1, <3>1
  <2>2. CASE ~g.procs[p].settled
    <3>1. SettledHost(k, g, p)
      BY <1>4, <1>9, <2>2, RefusedFacts
    <3> QED BY <1>7, <1>9, <1>10, <3>1 DEF SettledHost
  <2> QED BY <2>1, <2>2
<1>12. /\ WellFormed(m) /\ m.current = None0 /\ m.queue = <<>> /\ m.failed = Asked(host)
       /\ m.ready = FALSE /\ m.timers = host.timers /\ m.procs = k.procs
  <2>1. /\ WellFormed(m) /\ m.current = None0 /\ m.queue = <<>> /\ m.failed = k.failed \cup Asked(k)
        /\ m.ready = k.ready /\ m.timers = k.timers /\ m.procs = k.procs
    <3>1. WellFormed(k) /\ m = failAll(k)
      BY <1>5, <1>11
    <3> QED BY <3>1, FailAllFacts
  <2> QED BY <1>11, <2>1
<1>13. PICK for : for = Told(p, "script")
  OBVIOUS
<1>14. for = IF host.procs[p].settled THEN call.for ELSE "script"
  BY <1>13 DEF Told
<1>15. /\ WellFormed(host') /\ host'.failed = {} /\ host'.ready = m.ready
       /\ host'.queue = m.queue /\ host'.current = m.current
       /\ host'.timers = m.timers /\ host'.procs = m.procs
       /\ call'.n = call.n /\ call'.for = (IF call.n \in m.failed THEN "script" ELSE for)
       /\ call' \in [n : 0..MaxCalls, for : Fors]
  <2>1. for \in {"nothing", "start", "answer", "script"}
    BY <1>2, <1>14 DEF Fors
  <2>2. Becomes(m, for)
    BY <1>6, <1>13
  <2> QED BY <1>2, <1>12, <2>1, <2>2, BecomesFacts DEF Fors
<1>16. ~host.procs[p].settled => call.for = "start" /\ call.n # 0
  BY <1>1 DEF StartsAreSettled, HostShapes
<1>17. /\ (call'.for # "nothing" => call'.n # 0) /\ call'.for # "answer"
       /\ (for = call.for => (call'.for = "start" <=> call.for = "start"))
       /\ (call'.for = "nothing" => call.for = "nothing")
  <2>1. for \in {call.for, "script"} /\ (for = "script" => call.n # 0 \/ call.for = "script")
    BY <1>14, <1>16
  <2>2. call'.n = call.n /\ call'.for = (IF call.n \in Asked(host) THEN "script" ELSE for)
    BY <1>12, <1>15
  <2> QED BY <1>1, <2>1, <2>2, CallAfterFailure
<1>18. HostShapes'
  BY <1>1, <1>6, <1>15, <1>17 DEF HostShapes, Fors
<1>19. /\ DOMAIN host'.procs = DOMAIN host.procs /\ Len(host'.procs) = Len(host.procs)
       /\ host'.procs[p].settled = TRUE /\ ~Alive(host'.procs[p])
       /\ \A i \in DOMAIN host.procs : i # p => host'.procs[i] = host.procs[i]
  BY <1>11, <1>12, <1>15 DEF Alive
<1>20. StartsAreSettled'
  <2>1. CASE host.procs[p].settled
    <3>1. \A i \in DOMAIN host.procs : host'.procs[i].settled = host.procs[i].settled
      BY <1>2, <1>19, <2>1 DEF Process
    <3> QED BY <1>1, <1>14, <1>15, <1>17, <1>19, <2>1, <3>1, SettledStays
  <2>2. CASE ~host.procs[p].settled
    <3>1. call'.for = "script"
      BY <1>14, <1>15, <2>2
    <3> QED BY <1>1, <1>19, <2>2, <3>1, StartOver
  <2> QED BY <2>1, <2>2
<1>21. RequestsAreTimed'
  BY <1>12, <1>15, <1>17, NothingAsked DEF RequestsAreTimed
<1>22. ASSUME ~late' PROVE OneProcess' /\ OneRequest' /\ CallsAreCarried'
  <2>1. ~late /\ host.child \in {None0, p} /\ OneProcess /\ OneRequest /\ CallsAreCarried
    BY <1>1, <1>6, <1>22
  <2>2. ASSUME NEW i \in DOMAIN host'.procs PROVE ~Alive(host'.procs[i]) /\ host'.procs[i].settled
    <3>1. CASE i = p
      BY <1>19, <3>1
    <3>2. CASE i # p
      <4>1. host.child # i
        BY <1>2, <1>19, <2>1, <2>2, <3>2 DEF None0
      <4> QED BY <1>19, <2>1, <2>2, <3>2, <4>1 DEF OneProcess
    <3> QED BY <3>1, <3>2
  <2>3. (~cut' => host'.timers \subseteq {None0}) /\ ~down'
    BY <1>6, <1>12, <1>15, <2>1 DEF OneRequest
  <2>4. OneProcess' /\ OneRequest'
    BY <1>12, <1>15, <2>2, <2>3, NoneLeft
  <2>5. CallsAreCarried'
    BY <1>6, <1>15, <1>17, <2>1 DEF CallsAreCarried
  <2> QED BY <2>4, <2>5
<1> QED BY <1>18, <1>20, <1>21, <1>22 DEF HostInv

\* The line of a process is heard: an answer, for whichever request is at work.
LEMMA OnLineKeeps == ASSUME HostInv, ~down, NEW p \in DOMAIN host.procs, OnLine(p) PROVE HostInv'
<1>1. /\ HostShapes /\ StartsAreSettled /\ RequestsAreTimed
      /\ ~late => OneProcess /\ OneRequest /\ CallsAreCarried
  BY DEF HostInv
<1>2. /\ host \in HostRecord /\ host.failed = {} /\ host.timers \in SUBSET Calls
      /\ DOMAIN host.procs = 1..Len(host.procs) /\ host.child \in 0..Len(host.procs)
      /\ host.current \in 0..MaxCalls /\ host.torn \in BOOLEAN /\ host.procs[p] \in Process
      /\ host.ready \in BOOLEAN /\ host.queue \in Seq(Calls)
      /\ call \in [n : 0..MaxCalls, for : Fors] /\ call.n \in Nat /\ Asked(host) \subseteq Calls
  BY <1>1, ShapesFacts, HostAssumption DEF HostShapes, Fors
<1> DEFINE old == host.procs[p]
           q == [old EXCEPT !.work = None0, !.did = FALSE]
<1>3. PICK g : g = [host EXCEPT !.procs[p].work = None0, !.procs[p].did = FALSE]
  OBVIOUS
<1>4. PICK k : k = [g EXCEPT !.current = None0, !.timers = @ \ {host.current}]
  OBVIOUS
<1>5. PICK m : m = pump(k)
  OBVIOUS
<1>6. /\ host.procs[p].state = "up" /\ host.procs[p].did /\ UNCHANGED <<carried, down, cut, late>>
      /\ (host.current = None0 \/ ~host.ready => host' = g /\ UNCHANGED call)
      /\ (host.current # None0 /\ host.ready =>
            Becomes(m, IF host.current = call.n THEN "nothing" ELSE call.for))
  BY <1>3, <1>4, <1>5 DEF OnLine
<1>7. q \in Process /\ q.state = "up" /\ q.settled = old.settled /\ q.work = None0 /\ q.did = FALSE
  <2>1. None0 \in 0..MaxCalls /\ FALSE \in BOOLEAN /\ old \in Process /\ old.state = "up"
    BY <1>2, <1>6, HostAssumption DEF None0
  <2> HIDE DEF old
  <2> QED BY <2>1 DEF Process
<1>8. g = [host EXCEPT !.procs = [host.procs EXCEPT ![p] = q]]
  <2> DEFINE one == [host.procs EXCEPT ![p] = [@ EXCEPT !.work = None0]]
  <2>1. g = [[host EXCEPT !.procs = one] EXCEPT !.procs[p].did = FALSE]
    BY <1>3
  <2>2. [host EXCEPT !.procs = one].procs = one
    BY <1>2 DEF HostRecord
  <2>3. [one EXCEPT ![p] = [@ EXCEPT !.did = FALSE]] = [host.procs EXCEPT ![p] = q]
    BY <1>2
  <2>4. g = [[host EXCEPT !.procs = one] EXCEPT !.procs = [host.procs EXCEPT ![p] = q]]
    BY <2>1, <2>2, <2>3
  <2> QED BY <2>4
<1> HIDE DEF q
<1>a. CASE host.current = None0 \/ ~host.ready
  <2>1. host' = [host EXCEPT !.procs = [host.procs EXCEPT ![p] = q], !.torn = host.torn]
    BY <1>2, <1>6, <1>8, <1>a DEF HostRecord
  <2>2. /\ WellFormed(host') /\ host'.failed = {} /\ Asked(host') = Asked(host)
        /\ host'.ready = host.ready /\ host'.child = host.child /\ host'.queue = host.queue
        /\ host'.current = host.current /\ host'.timers = host.timers
        /\ DOMAIN host'.procs = DOMAIN host.procs /\ Len(host'.procs) = Len(host.procs)
        /\ host'.procs[p] = q
        /\ \A i \in DOMAIN host.procs : i # p => host'.procs[i] = host.procs[i]
    BY <1>1, <1>2, <1>7, <2>1, ProcessMoves
  <2>3. UNCHANGED call
    BY <1>6, <1>a
  <2>4. \A i \in DOMAIN host.procs : /\ host'.procs[i].settled = host.procs[i].settled
                                     /\ host'.procs[i].state = host.procs[i].state
    BY <1>6, <1>7, <2>2
  <2>5. HostShapes'
    BY <1>1, <1>6, <2>2, <2>3 DEF HostShapes
  <2>6. StartsAreSettled'
    BY <1>1, <2>2, <2>3, <2>4, SettledStays
  <2>7. RequestsAreTimed'
    BY <1>1, <1>2, <2>2, <2>3, TimedStays
  <2>8. ASSUME ~late PROVE OneProcess' /\ OneRequest' /\ CallsAreCarried'
    <3>1. OneProcess'
      BY <1>1, <1>6, <2>2, <2>3, <2>4, <2>8, OneProcessStays DEF Alive
    <3>2. OneRequest'
      BY <1>1, <1>6, <1>7, <2>2, <2>3, <2>4, <2>8 DEF OneRequest
    <3>3. CallsAreCarried'
      BY <1>1, <1>6, <2>3, <2>8 DEF CallsAreCarried
    <3> QED BY <3>1, <3>2, <3>3
  <2> QED BY <1>6, <2>5, <2>6, <2>7, <2>8 DEF HostInv
<1>b. CASE host.current # None0 /\ host.ready
  <2> DEFINE ts == host.timers \ {host.current}
  <2>1. k = [disabled |-> host.disabled, ready |-> host.ready, child |-> host.child,
             queue |-> host.queue, current |-> None0, torn |-> host.torn, timers |-> ts,
             procs |-> [host.procs EXCEPT ![p] = q], failed |-> host.failed]
    BY <1>2, <1>4, <1>8 DEF HostRecord
  <2>2. /\ WellFormed(k) /\ k.failed = {} /\ k.ready = host.ready /\ k.child = host.child
        /\ k.queue = host.queue /\ k.current = None0 /\ k.timers = ts
        /\ DOMAIN k.procs = DOMAIN host.procs /\ Len(k.procs) = Len(host.procs) /\ k.procs[p] = q
        /\ \A i \in DOMAIN host.procs : i # p => k.procs[i] = host.procs[i]
    <3>1. None0 \in 0..MaxCalls /\ ts \in SUBSET Calls
      BY <1>2, HostAssumption DEF None0
    <3>2. MovedHost(k, p, q, host.ready, host.child, None0, ts)
      BY <1>1, <1>2, <1>7, <2>1, <3>1, MovedFacts
    <3> QED BY <3>2 DEF MovedHost
  <2>3. Asked(k) = Queued(host) /\ Asked(host) = {host.current} \cup Asked(k)
    BY <1>b, <2>2 DEF Asked, Queued
  <2>4. /\ WellFormed(m) /\ SameHost(m, k) /\ Asked(m) = Asked(k)
        /\ m.failed \subseteq Asked(k)
        /\ m.current # None0 => m.current \in m.timers
        /\ m.queue # <<>> => m.current # None0
        /\ host.queue = <<>> => m = k
    <3>1. CASE host.queue = <<>>
      <4>1. m = k
        BY <1>5, <2>2, <3>1, PumpIdles
      <4> QED BY <2>2, <3>1, <4>1 DEF SameHost
    <3>2. CASE host.queue # <<>>
      <4>1. k.current = None0 /\ k.queue # <<>> /\ k.ready
        BY <1>b, <2>2, <3>2
      <4>2. /\ WellFormed(m) /\ SameHost(m, k) /\ Asked(m) = Asked(k)
            /\ m.current \in Calls /\ m.timers = k.timers \cup {m.current}
            /\ k.child = None0 => m.failed = k.failed \cup {m.current}
            /\ k.child # None0 => m.failed = k.failed
        BY <1>5, <2>2, <4>1, PumpFacts
      <4>3. m.current # None0
        BY <4>2, HostAssumption DEF Calls, None0
      <4>4. m.current \in Asked(m)
        BY <4>3 DEF Asked
      <4> QED BY <2>2, <3>2, <4>2, <4>3, <4>4
    <3> QED BY <3>1, <3>2
  <2>5. PICK for : for = IF host.current = call.n THEN "nothing" ELSE call.for
    OBVIOUS
  <2>6. /\ WellFormed(host') /\ host'.failed = {} /\ Asked(host') = Asked(m) /\ host'.ready = m.ready
        /\ host'.child = m.child /\ host'.queue = m.queue /\ host'.current = m.current
        /\ host'.timers = m.timers /\ host'.procs = m.procs
        /\ call'.n = call.n /\ call'.for = (IF call.n \in m.failed THEN "script" ELSE for)
        /\ call' \in [n : 0..MaxCalls, for : Fors]
    <3>1. for \in {"nothing", "start", "answer", "script"} /\ Becomes(m, for)
      BY <1>2, <1>6, <1>b, <2>5 DEF Fors
    <3> QED BY <1>2, <2>4, <3>1, BecomesFacts DEF Fors
  <2>7. /\ call'.for = "start" <=> call.for = "start"
        /\ call'.for # "nothing" => call'.n # 0
        /\ call'.for = "answer" => call'.n \in Asked(host')
    <3>1. call.for = "start" => host.current # call.n /\ call.n \notin m.failed
      BY <1>1, <2>3, <2>4 DEF RequestsAreTimed
    <3>2. call.n \in m.failed => call.n # 0
      BY <1>2, <2>3, <2>4, HostAssumption DEF Calls
    <3>3. call.for # "nothing" => call.n # 0
      BY <1>1 DEF HostShapes
    <3>4. call.for = "answer" /\ host.current # call.n => call.n \in Asked(k)
      BY <1>1, <2>3 DEF RequestsAreTimed
    <3> QED BY <2>4, <2>5, <2>6, <3>1, <3>2, <3>3, <3>4
  <2>8. HostShapes'
    BY <1>1, <1>6, <2>6, <2>7 DEF HostShapes, Fors
  <2>9. /\ DOMAIN host'.procs = DOMAIN host.procs /\ Len(host'.procs) = Len(host.procs)
        /\ host'.ready = host.ready /\ host'.child = host.child
        /\ \A i \in DOMAIN host.procs : /\ host'.procs[i].settled = host.procs[i].settled
                                        /\ host'.procs[i].state = host.procs[i].state
    <3>1. Len(host'.procs) = Len(host.procs) /\ host'.ready = host.ready /\ host'.child = host.child
      BY <2>2, <2>4, <2>6 DEF SameHost
    <3>2. \A i \in DOMAIN host.procs : /\ k.procs[i].settled = host.procs[i].settled
                                       /\ k.procs[i].state = host.procs[i].state
      BY <1>6, <1>7, <2>2
    <3>3. \A i \in DOMAIN host.procs : /\ m.procs[i].settled = k.procs[i].settled
                                       /\ m.procs[i].state = k.procs[i].state
      BY <1>2, <2>2, <2>4 DEF SameHost
    <3>4. DOMAIN host'.procs = 1..Len(host'.procs)
      BY <2>6, HostFields
    <3> QED BY <1>2, <2>6, <3>1, <3>2, <3>3, <3>4
  <2>10. StartsAreSettled'
    BY <1>1, <2>6, <2>7, <2>9, SettledStays
  <2>11. RequestsAreTimed'
    <3>1. \A r \in Asked(host') : r \in Asked(host)
      BY <2>3, <2>4, <2>6
    <3>2. \A r \in Asked(host') : r <= call'.n /\ (call'.for = "start" => r # call'.n)
      BY <1>1, <2>6, <2>7, <3>1 DEF RequestsAreTimed
    <3> QED BY <2>4, <2>6, <2>7, <3>2 DEF RequestsAreTimed
  <2>12. ASSUME ~late PROVE OneProcess' /\ OneRequest' /\ CallsAreCarried'
    <3>1. /\ host.queue = <<>> /\ host.current = call.n /\ carried[call.n] # {}
          /\ (~cut => host.timers \subseteq {host.current}) /\ call.n \in Calls
      BY <1>1, <1>2, <1>6, <1>b, <2>12, HostAssumption DEF OneRequest, Calls, None0
    <3>2. call'.for = "nothing" /\ call'.n = call.n /\ host'.current = None0 /\ host'.queue = <<>>
          /\ host'.timers = ts /\ host'.procs = k.procs
      <4>1. m = k
        BY <2>4, <3>1
      <4> QED BY <2>2, <2>5, <2>6, <3>1, <4>1
    <3>3. OneProcess'
      BY <1>1, <1>6, <2>9, <2>12, <3>2, OneProcessStays DEF Alive
    <3>4. \A i \in DOMAIN host'.procs :
            /\ i # p => host'.procs[i] = host.procs[i]
            /\ i = p => host'.procs[i].work = None0 /\ ~host'.procs[i].did
      BY <1>7, <2>2, <2>9, <3>2
    <3>5. \A i \in DOMAIN host.procs : i # p => host.procs[i].state \notin {"up", "booting"}
      BY <1>1, <1>6, <2>12 DEF OneProcess, Alive
    <3>6. OneRequest'
      <4>1. ~cut' => host'.timers \subseteq {host'.current}
        BY <1>6, <3>1, <3>2
      <4>2. down' => cut'
        BY <1>1, <1>6, <2>12 DEF OneRequest
      <4> QED BY <2>9, <3>2, <3>4, <3>5, <4>1, <4>2 DEF OneRequest
    <3>7. CallsAreCarried'
      BY <1>1, <1>6, <2>12, <3>1, <3>2 DEF CallsAreCarried
    <3> QED BY <3>3, <3>6, <3>7
  <2> QED BY <1>6, <2>8, <2>10, <2>11, <2>12 DEF HostInv
<1> QED BY <1>a, <1>b

\* A process says it is ready: its start succeeds, and the queue moves.
LEMMA ReadyKeeps == ASSUME HostInv, ~down, NEW p \in DOMAIN host.procs, Ready(p) PROVE HostInv'
<1>1. /\ HostShapes /\ StartsAreSettled /\ RequestsAreTimed
      /\ ~late => OneProcess /\ OneRequest /\ CallsAreCarried
  BY DEF HostInv
<1>2. /\ WellFormed(host) /\ host \in HostRecord /\ host.failed = {} /\ host.timers \in SUBSET Calls
      /\ DOMAIN host.procs = 1..Len(host.procs) /\ host.child \in 0..Len(host.procs)
      /\ host.current \in 0..MaxCalls /\ host.torn \in BOOLEAN /\ host.procs[p] \in Process
      /\ host.ready \in BOOLEAN /\ host.queue \in Seq(Calls)
      /\ call \in [n : 0..MaxCalls, for : Fors] /\ call.n \in Nat /\ Asked(host) \subseteq Calls
  BY <1>1, ShapesFacts, HostAssumption DEF HostShapes, Fors
<1> DEFINE old == host.procs[p]
           q1 == [old EXCEPT !.state = "up"]
           q2 == [old EXCEPT !.state = "up", !.settled = TRUE]
<1>3. PICK up : up = [host EXCEPT !.procs[p].state = "up", !.torn = FALSE]
  OBVIOUS
<1>4. PICK k : k = [up EXCEPT !.ready = TRUE, !.procs[p].settled = TRUE]
  OBVIOUS
<1>5. PICK m : m = request(pump(k), call.n)
  OBVIOUS
<1>6. /\ host.procs[p].state = "booting" /\ UNCHANGED <<carried, down, cut, late>>
      /\ (host.torn \/ host.ready => host' = up /\ UNCHANGED call)
      /\ (~host.torn /\ ~host.ready /\ host.procs[p].settled => Becomes(pump(k), call.for))
      /\ (~host.torn /\ ~host.ready /\ ~host.procs[p].settled => Becomes(m, "answer"))
  BY <1>3, <1>4, <1>5 DEF Ready
<1>7. /\ q1 \in Process /\ q1.state = "up" /\ q1.settled = old.settled /\ q1.work = old.work
      /\ q1.did = old.did
      /\ q2 \in Process /\ q2.state = "up" /\ q2.settled = TRUE
  BY <1>2 DEF Process, ProcStates
<1>8. up = [host EXCEPT !.procs = [host.procs EXCEPT ![p] = q1], !.torn = FALSE]
  BY <1>2, <1>3 DEF HostRecord
<1>9. k = [disabled |-> host.disabled, ready |-> TRUE, child |-> host.child,
           queue |-> host.queue, current |-> host.current, torn |-> FALSE, timers |-> host.timers,
           procs |-> [host.procs EXCEPT ![p] = q2], failed |-> host.failed]
  <2>1. up.procs = [host.procs EXCEPT ![p] = q1]
    BY <1>2, <1>8 DEF HostRecord
  <2>2. [up.procs EXCEPT ![p].settled = TRUE] = [host.procs EXCEPT ![p] = q2]
    BY <1>2, <2>1 DEF Process
  <2>3. k = [up EXCEPT !.ready = TRUE, !.procs = [host.procs EXCEPT ![p] = q2]]
    BY <1>4, <2>2
  <2> HIDE DEF q1, q2
  <2> QED BY <1>2, <1>8, <2>3 DEF HostRecord
<1> HIDE DEF q1, q2
<1>10. /\ WellFormed(k) /\ k.failed = {} /\ k.ready = TRUE /\ k.child = host.child
       /\ k.queue = host.queue /\ k.current = host.current /\ k.timers = host.timers
       /\ DOMAIN k.procs = DOMAIN host.procs /\ Len(k.procs) = Len(host.procs) /\ k.procs[p] = q2
       /\ \A i \in DOMAIN host.procs : i # p => k.procs[i] = host.procs[i]
  <2>1. TRUE \in BOOLEAN /\ FALSE \in BOOLEAN
    OBVIOUS
  <2>2. MovedHost(k, p, q2, TRUE, host.child, host.current, host.timers)
    BY <1>1, <1>2, <1>7, <1>9, <2>1, MovedFacts
  <2> QED BY <2>2 DEF MovedHost
<1>11. pump(k) = k /\ Asked(k) = Asked(host)
  <2>1. k.current # None0 \/ k.queue = <<>>
    BY <1>1, <1>10 DEF RequestsAreTimed
  <2> QED BY <1>10, <2>1, PumpIdles DEF Asked, Queued
<1>a. CASE host.torn \/ host.ready
  <2>1. host' = [host EXCEPT !.procs = [host.procs EXCEPT ![p] = q1], !.torn = FALSE] /\ UNCHANGED call
    BY <1>6, <1>8, <1>a
  <2>2. /\ WellFormed(host') /\ host'.failed = {} /\ Asked(host') = Asked(host)
        /\ host'.ready = host.ready /\ host'.child = host.child /\ host'.queue = host.queue
        /\ host'.current = host.current /\ host'.timers = host.timers
        /\ DOMAIN host'.procs = DOMAIN host.procs /\ Len(host'.procs) = Len(host.procs)
        /\ host'.procs[p] = q1
        /\ \A i \in DOMAIN host.procs : i # p => host'.procs[i] = host.procs[i]
    BY <1>1, <1>2, <1>7, <2>1, ProcessMoves
  <2>3. \A i \in DOMAIN host.procs :
          /\ host'.procs[i].settled = host.procs[i].settled
          /\ host'.procs[i].work = host.procs[i].work /\ host'.procs[i].did = host.procs[i].did
          /\ host'.procs[i].state = IF i = p THEN "up" ELSE host.procs[i].state
    BY <1>7, <2>2
  <2>4. HostShapes'
    BY <1>1, <1>6, <2>1, <2>2 DEF HostShapes
  <2>5. StartsAreSettled'
    BY <1>1, <2>1, <2>2, <2>3, SettledStays
  <2>6. RequestsAreTimed'
    BY <1>1, <1>2, <2>1, <2>2, TimedStays
  <2>7. ASSUME ~late PROVE OneProcess' /\ OneRequest' /\ CallsAreCarried'
    <3>1. OneProcess'
      BY <1>1, <1>6, <2>1, <2>2, <2>3, <2>7, OneProcessStays DEF Alive
    <3>2. OneRequest'
      BY <1>1, <1>6, <2>1, <2>2, <2>3, <2>7 DEF OneRequest
    <3>3. CallsAreCarried'
      BY <1>1, <1>6, <2>1, <2>7 DEF CallsAreCarried
    <3> QED BY <3>1, <3>2, <3>3
  <2> QED BY <1>6, <2>4, <2>5, <2>6, <2>7 DEF HostInv
<1>b. CASE ~host.torn /\ ~host.ready /\ host.procs[p].settled
  <2>1. /\ WellFormed(host') /\ host'.failed = {} /\ Asked(host') = Asked(k)
        /\ host'.queue = k.queue /\ host'.current = k.current
        /\ host'.timers = k.timers /\ host'.procs = k.procs
        /\ call'.n = call.n /\ call'.for = (IF call.n \in k.failed THEN "script" ELSE call.for)
        /\ call' \in [n : 0..MaxCalls, for : Fors]
    <3>1. call.for \in {"nothing", "start", "answer", "script"} /\ Becomes(k, call.for)
      BY <1>2, <1>6, <1>11, <1>b DEF Fors
    <3> QED BY <1>2, <1>10, <3>1, BecomesFacts DEF Fors
  <2>2. call'.for = call.for
    BY <1>10, <2>1
  <2>3. \A i \in DOMAIN host.procs : host'.procs[i].settled = host.procs[i].settled
    <3>1. host.procs[p].settled = TRUE
      BY <1>2, <1>b DEF Process
    <3> QED BY <1>7, <1>10, <2>1, <3>1
  <2>4. HostShapes'
    BY <1>1, <1>6, <2>1, <2>2 DEF HostShapes, Fors
  <2>5. StartsAreSettled'
    BY <1>1, <1>10, <2>1, <2>2, <2>3, SettledStays
  <2>6. RequestsAreTimed'
    BY <1>1, <1>2, <1>10, <1>11, <2>1, <2>2, TimedStays
  <2>7. late
    BY <1>1, <1>6, <1>b DEF OneProcess, Alive
  <2> QED BY <1>6, <2>4, <2>5, <2>6, <2>7 DEF HostInv
<1>c. CASE ~host.torn /\ ~host.ready /\ ~host.procs[p].settled
  <2>1. call.for = "start" /\ call.n \in Calls
    BY <1>1, <1>2, <1>c, HostAssumption DEF StartsAreSettled, HostShapes, Calls
  <2>2. /\ WellFormed(m) /\ SameHost(m, k) /\ Asked(m) = Asked(host) \cup {call.n}
        /\ m.current # None0 /\ m.current \in m.timers
        /\ host.current = None0 /\ host.child # None0 =>
             /\ m.current = call.n /\ m.queue = <<>> /\ m.timers = host.timers \cup {call.n}
             /\ m.failed = {} /\ m.procs[host.child].work = call.n /\ ~m.procs[host.child].did
    <3>1. m = request(k, call.n)
      BY <1>5, <1>11
    <3>2. k.failed = {} /\ k.ready /\ (k.queue # <<>> => k.current # None0)
      BY <1>1, <1>10 DEF RequestsAreTimed
    <3>3. /\ WellFormed(m) /\ SameHost(m, k) /\ Asked(m) = Asked(k) \cup {call.n}
          /\ k.current = None0 =>
               /\ m.current = call.n /\ m.queue = <<>> /\ m.timers = k.timers \cup {call.n}
               /\ k.child = None0 => m.failed = {call.n}
               /\ k.child # None0 => /\ m.failed = {}
                                     /\ m.procs[k.child].work = call.n /\ ~m.procs[k.child].did
          /\ k.current # None0 => /\ m.failed = {} /\ m.current = k.current /\ m.timers = k.timers
                                  /\ m.procs = k.procs
      BY <1>10, <2>1, <3>1, <3>2, RequestFacts
    <3>4. call.n # None0
      BY <2>1, HostAssumption DEF Calls, None0
    <3>5. host.current # None0 => host.current \in host.timers
      BY <1>1 DEF RequestsAreTimed
    <3>6. m.current # None0 /\ m.current \in m.timers
      <4>1. CASE k.current = None0
        BY <3>3, <3>4, <4>1
      <4>2. CASE k.current # None0
        BY <1>10, <3>3, <3>5, <4>2
      <4> QED BY <4>1, <4>2
    <3> QED BY <1>10, <1>11, <3>3, <3>6
  <2>3. /\ WellFormed(host') /\ host'.failed = {} /\ Asked(host') = Asked(m) /\ host'.ready = m.ready
        /\ host'.child = m.child /\ host'.queue = m.queue /\ host'.current = m.current
        /\ host'.timers = m.timers /\ host'.procs = m.procs
        /\ call'.n = call.n /\ call'.for = (IF call.n \in m.failed THEN "script" ELSE "answer")
        /\ call' \in [n : 0..MaxCalls, for : Fors]
    <3>1. "answer" \in {"nothing", "start", "answer", "script"} /\ Becomes(m, "answer")
      BY <1>6, <1>c
    <3> QED BY <1>2, <2>2, <3>1, BecomesFacts DEF Fors
  <2>4. /\ DOMAIN host'.procs = DOMAIN host.procs /\ Len(host'.procs) = Len(host.procs)
        /\ host'.ready = TRUE /\ host'.child = host.child
        /\ host'.procs[p].settled = TRUE /\ host'.procs[p].state = "up"
        /\ \A i \in DOMAIN host.procs :
             i # p => /\ host'.procs[i].settled = host.procs[i].settled
                      /\ host'.procs[i].state = host.procs[i].state
    <3>1. /\ Len(host'.procs) = Len(host.procs) /\ host'.ready = TRUE /\ host'.child = host.child
          /\ \A i \in 1..Len(k.procs) : /\ host'.procs[i].settled = k.procs[i].settled
                                        /\ host'.procs[i].state = k.procs[i].state
      BY <1>10, <2>2, <2>3 DEF SameHost
    <3>2. DOMAIN host'.procs = 1..Len(host'.procs)
      BY <2>3, HostFields
    <3> QED BY <1>2, <1>7, <1>10, <3>1, <3>2
  <2>5. HostShapes'
    BY <1>1, <1>6, <2>1, <2>3, HostAssumption DEF HostShapes, Fors, Calls
  <2>6. call'.for \in {"script", "answer"}
    BY <2>3
  <2>7. StartsAreSettled' /\ \A i \in DOMAIN host.procs : host'.procs[i].settled
    <3>1. call'.for # "start"
      BY <2>6
    <3> QED BY <1>1, <1>c, <2>4, <3>1, StartOver
  <2>8. RequestsAreTimed'
    <3>1. \A r \in Asked(host') : r <= call'.n
      <4>1. \A r \in Asked(host) : r <= call.n
        BY <1>1 DEF RequestsAreTimed
      <4> QED BY <1>2, <2>2, <2>3, <4>1
    <3> QED BY <2>2, <2>3, <2>6, <3>1 DEF RequestsAreTimed
  <2>9. ASSUME ~late PROVE OneProcess' /\ OneRequest' /\ CallsAreCarried'
    <3>1. host.child = p /\ p # None0
      BY <1>1, <1>2, <1>6, <2>9 DEF OneProcess, Alive, None0
    <3>2. host.current = None0 /\ (~cut => host.timers = {})
      BY <1>1, <2>1, <2>9, NothingAtWork
    <3>3. call'.for = "answer"
      BY <2>2, <2>3, <3>1, <3>2
    <3>4. \A i \in DOMAIN host.procs : i # p => ~Alive(host'.procs[i])
      BY <1>1, <2>4, <2>9, <3>1 DEF OneProcess, Alive
    <3>5. OneProcess'
      BY <2>4, <2>7, <3>1, <3>3, <3>4 DEF OneProcess
    <3>6. \A i \in DOMAIN host.procs : host'.procs[i].state \in {"up", "booting"} => i = p
      BY <3>4 DEF Alive
    <3>7. (~cut' => host'.timers \subseteq {host'.current}) /\ (down' => cut')
      BY <1>1, <1>6, <2>2, <2>3, <2>9, <3>1, <3>2 DEF OneRequest
    <3>8. OneRequest'
      BY <2>2, <2>3, <2>4, <3>1, <3>2, <3>3, <3>6, <3>7 DEF OneRequest
    <3>9. CallsAreCarried'
      BY <1>1, <1>6, <2>3, <2>9, <3>3 DEF CallsAreCarried
    <3> QED BY <3>5, <3>8, <3>9
  <2> QED BY <1>6, <2>5, <2>7, <2>8, <2>9 DEF HostInv
<1> QED BY <1>a, <1>b, <1>c

\* Nothing happens.
LEMMA HostStutters == ASSUME HostInv, UNCHANGED hostVars PROVE HostInv'
<1>1. /\ HostShapes /\ StartsAreSettled /\ RequestsAreTimed
      /\ ~late => OneProcess /\ OneRequest /\ CallsAreCarried
  BY DEF HostInv
<1>2. UNCHANGED <<host, call, carried, down, cut, late>>
  BY DEF hostVars
<1>3. HostShapes' /\ StartsAreSettled' /\ RequestsAreTimed'
  BY <1>1, <1>2 DEF HostShapes, StartsAreSettled, RequestsAreTimed
<1>4. ASSUME ~late' PROVE OneProcess' /\ OneRequest' /\ CallsAreCarried'
  BY <1>1, <1>2, <1>4 DEF OneProcess, OneRequest, CallsAreCarried
<1> QED BY <1>3, <1>4 DEF HostInv

\* Every callback keeps the invariant, and the run that is down stays as it is.
LEMMA HostInvNext == HostInv /\ [HostNext]_hostVars => HostInv'
<1> SUFFICES ASSUME HostInv, [HostNext]_hostVars PROVE HostInv'
  OBVIOUS
<1>1. ASSUME ~down, Call PROVE HostInv'
  BY <1>1, CallKeeps
<1>2. ASSUME ~down, Script PROVE HostInv'
  BY <1>2, ScriptKeeps
<1>3. ASSUME ~down, Close PROVE HostInv'
  BY <1>3, CloseKeeps
<1>4. ASSUME ~down, NEW p \in DOMAIN host.procs,
             Ready(p) \/ GiveUp(p) \/ StartError(p) \/ Carry(p) \/ OnLine(p) \/ Die(p) \/ Exit(p)
      PROVE  HostInv'
  <2>1. CASE Ready(p)
    BY <1>4, <2>1, ReadyKeeps
  <2>2. CASE GiveUp(p)
    BY <1>4, <2>2, GiveUpKeeps
  <2>3. CASE StartError(p)
    BY <1>4, <2>3, StartErrorKeeps
  <2>4. CASE Carry(p)
    BY <1>4, <2>4, CarryKeeps
  <2>5. CASE OnLine(p)
    BY <1>4, <2>5, OnLineKeeps
  <2>6. CASE Die(p)
    BY <1>4, <2>6, DieKeeps
  <2>7. CASE Exit(p)
    BY <1>4, <2>7, ExitKeeps
  <2> QED BY <1>4, <2>1, <2>2, <2>3, <2>4, <2>5, <2>6, <2>7
<1>5. ASSUME ~down, NEW r \in Calls, Timeout(r) PROVE HostInv'
  BY <1>5, TimeoutKeeps
<1>6. CASE UNCHANGED hostVars
  BY <1>6, HostStutters
<1>7. CASE HostNext
  BY <1>1, <1>2, <1>3, <1>4, <1>5, <1>7 DEF HostNext
<1> QED BY <1>6, <1>7

\* A call that waits has something to wait for, and one that is over was carried out: the
\* calls are among what was asked, what was asked is timed, and the rest is told by the
\* one process there is as long as no exit was heard late.
LEMMA HostInvServes == HostInv => HostServes
<1> SUFFICES ASSUME HostInv PROVE HostServes
  OBVIOUS
<1>1. /\ HostShapes /\ StartsAreSettled /\ RequestsAreTimed
      /\ ~late => OneProcess /\ OneRequest /\ CallsAreCarried
  BY DEF HostInv
<1>2. DOMAIN host.procs = 1..Len(host.procs) /\ host.procs \in Seq(Process)
      /\ host.queue \in Seq(Calls)
  BY <1>1, ShapesFacts
<1>3. ASSUME call.for = "answer"
      PROVE  /\ host.current \in host.timers
             /\ call.n = host.current \/ \E i \in DOMAIN host.queue : host.queue[i] = call.n
  <2>1. call.n \in Asked(host)
    BY <1>1, <1>3 DEF RequestsAreTimed
  <2>2. call.n = host.current \/ \E i \in DOMAIN host.queue : host.queue[i] = call.n
    BY <2>1 DEF Asked, Queued
  <2>3. host.current # None0
    <3>1. CASE host.queue = <<>>
      BY <2>1, <3>1 DEF Asked, Queued
    <3>2. CASE host.queue # <<>>
      BY <1>1, <3>2 DEF RequestsAreTimed
    <3> QED BY <3>1, <3>2
  <2> QED BY <1>1, <2>2, <2>3 DEF RequestsAreTimed
<1>4. ASSUME call.for = "start" PROVE \E p \in DOMAIN host.procs : ~host.procs[p].settled
  <2>1. host.procs # <<>> /\ ~host.procs[Len(host.procs)].settled
    BY <1>1, <1>4 DEF StartsAreSettled
  <2>2. Len(host.procs) \in 1..Len(host.procs)
    BY <1>2, <2>1
  <2> QED BY <1>2, <2>1, <2>2
<1>5. \A n \in Calls : (n < call.n \/ (n = call.n /\ call.for = "nothing")) => carried[n] # {} \/ late
  BY <1>1 DEF CallsAreCarried
<1>6. down => cut \/ late
  BY <1>1 DEF OneRequest
<1>7. host.ready => host.child # None0 \/ late
  BY <1>1 DEF OneProcess
<1> QED BY <1>3, <1>4, <1>5, <1>6, <1>7 DEF HostServes

\* The inductive invariant of the PowerShell host (host.js, grab.js, input.js).
THEOREM HostInvHolds == HostSpec => []HostInv
<1> QED BY HostInvInit, HostInvNext, PTL DEF HostSpec

\* host.js, grab.js, input.js: whatever processes die, start late or answer late, and
\* whatever timers go off, a call that waits is woken by a timer or by a start that is not
\* settled, and unless the exit of an old process is heard after the next was started every
\* call that is over was carried out, a host that is ready has a process, and the run goes
\* down only over a process that died with a request in its hands.
THEOREM HostCallsAreServed == HostSpec => []HostServes
<1> QED BY HostInvHolds, HostInvServes, PTL

===========================================================================
