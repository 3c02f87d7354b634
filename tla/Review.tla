------------------------------- MODULE Review -------------------------------
(***************************************************************************)
(* The review of captured sessions: the bot that writes a session's review *)
(* file, the review server that serves, overwrites and uploads it, the     *)
(* page that holds the operator's copy, and the pruning of the frames the  *)
(* flagged reads would be read again from.  A session is the day its run   *)
(* started on.  A game is captured once (the ledger sees to it).  An action*)
(* is the code between two awaits; the page is one tab.                    *)
(***************************************************************************)
EXTENDS Naturals

CONSTANTS
    LastDay,        \* bound: the days that are modelled
    MaxEdits,       \* bound: the operator's edits
    Games,
    Flagged,        \* the games whose reads carry a flag worth a look
    Pinned          \* the session the server was started for; 0: none

ASSUME ReviewAssumption ==
    LastDay \in Nat \ {0} /\ MaxEdits \in Nat /\ Flagged \subseteq Games /\ Pinned \in 0..LastDay

VARIABLES
    today,
    review,         \* the review file of each session; its name is 0: no file
    saved,          \* the day each review file was last written
    newest,         \* the session whose file was written last
    frames,         \* the day the frames of a game were kept; 0: none on disk
    bot,            \* the session of the run that is up; 0: none
    mem,            \* the run's own copy of its session
    page,           \* the session file the operator is looking at
    dirty,          \* the page has edits it knows it has not saved
    doing,          \* what the page's last click is still at
    posting,        \* a save on its way: its body and the file it goes to
    sending,        \* an upload on its way
    edits,          \* edits the operator has left (bounded)
    \* history
    disturbed,      \* something came between the page and its file
    sent,           \* the games that were on the site once
    mixed           \* a map was captured over the review of another

filesVars == <<review, saved, newest>>
pageVars == <<page, dirty, edits, doing, posting>>
sentVars == <<sending, sent>>
reviewVars == <<today, filesVars, frames, bot, mem, pageVars, sentVars, disturbed, mixed>>

Days == 1..LastDay
\* A map's entry: its status, and for a reviewed one whether the operator has put
\* corrections on it.
Entry == {"none", "unreviewed", "reviewed", "corrected", "excluded"}
SessionFile == [session : 0..LastDay, maps : [Games -> Entry]]

NoFile == [session |-> 0, maps |-> [g \in Games |-> "none"]]
NoPost == [to |-> 0, body |-> NoFile]
NoUpload == [of |-> 0, maps |-> NoFile.maps]

ReviewTypeOK ==
    /\ today \in Days /\ newest \in 0..LastDay /\ bot \in 0..LastDay
    /\ review \in [Days -> SessionFile] /\ saved \in [Days -> 0..LastDay]
    /\ frames \in [Games -> 0..LastDay]
    /\ mem \in [Games -> Entry] /\ page \in SessionFile
    /\ dirty \in BOOLEAN /\ disturbed \in BOOLEAN /\ mixed \in BOOLEAN
    /\ doing \in {"nothing", "save", "upload", "prune"}
    /\ posting \in [to : 0..LastDay, body : SessionFile]
    /\ sending \in [of : 0..LastDay, maps : [Games -> Entry]]
    /\ sent \subseteq Games /\ edits \in 0..MaxEdits

ReviewInit ==
    /\ today = 1 /\ newest = 0 /\ bot = 0
    /\ review = [d \in Days |-> NoFile] /\ saved = [d \in Days |-> 0]
    /\ frames = [g \in Games |-> 0]
    /\ mem = NoFile.maps /\ page = NoFile /\ dirty = FALSE
    /\ doing = "nothing" /\ posting = NoPost
    /\ sending = NoUpload /\ sent = {} /\ edits = MaxEdits
    /\ disturbed = FALSE /\ mixed = FALSE

\* The file a request is about, decided when the request arrives.
Current ==
    IF Pinned = 0 THEN newest
    ELSE IF review[Pinned].session # 0 THEN Pinned ELSE 0

Write(d, file) ==
    /\ review' = [review EXCEPT ![d] = file]
    /\ saved' = [saved EXCEPT ![d] = today]
    /\ newest' = d

DayPasses ==
    /\ today < LastDay /\ today' = today + 1
    /\ UNCHANGED <<filesVars, frames, bot, mem, pageVars, sentVars, disturbed, mixed>>

-----------------------------------------------------------------------------
\* The run: its session is named at its start and read back once.
RunStarts ==
    /\ bot = 0
    /\ bot' = today /\ mem' = review[today].maps
    /\ UNCHANGED <<today, filesVars, frames, pageVars, sentVars, disturbed, mixed>>

\* The flagged games of other sessions that never went up.
Waiting(d) ==
    {g \in Flagged \ sent : \E e \in Days \ {d} : review[e].maps[g] # "none"}

\* The entry is made from the resolved rounds, and the whole file is written
\* from memory.  A map with nothing to look at is reviewed already.
Captured(g) ==
    LET entry == IF g \in Flagged THEN "unreviewed" ELSE "reviewed"
    IN  /\ bot # 0 /\ frames[g] = 0
        /\ \A d \in Days : review[d].maps[g] = "none"
        /\ mem' = [mem EXCEPT ![g] = entry]
        /\ Write(bot, [session |-> bot, maps |-> mem'])
        /\ frames' = [frames EXCEPT ![g] = today]
        /\ disturbed' = (disturbed \/ page # NoFile)
        /\ mixed' = (mixed \/ page # NoFile \/ Waiting(bot) # {})
        /\ UNCHANGED <<today, bot, pageVars, sentVars>>

RunEnds ==
    /\ bot # 0 /\ bot' = 0 /\ mem' = NoFile.maps
    /\ UNCHANGED <<today, filesVars, frames, pageVars, sentVars, disturbed, mixed>>

-----------------------------------------------------------------------------
\* The page: it loads the file when it is opened and when a run's log ends, and
\* what it held is gone.  Nothing but a save clears its dirty mark.
PageLoads ==
    /\ Current # 0
    /\ page' = review[Current] /\ disturbed' = (posting # NoPost)
    /\ UNCHANGED <<today, filesVars, frames, bot, mem, dirty, edits, doing, posting, sentVars, mixed>>

PageCloses ==
    /\ page # NoFile /\ doing = "nothing"
    /\ page' = NoFile /\ dirty' = FALSE /\ disturbed' = FALSE
    /\ UNCHANGED <<today, filesVars, frames, bot, mem, edits, doing, posting, sentVars, mixed>>

Edit(g, entry) ==
    /\ page.maps[g] \notin {"none", entry} /\ entry # "none"
    /\ edits > 0 /\ edits' = edits - 1
    /\ page' = [page EXCEPT !.maps[g] = entry]
    /\ dirty' = TRUE
    /\ disturbed' = (disturbed \/ (doing # "nothing" /\ sending = NoUpload))
    /\ UNCHANGED <<today, filesVars, frames, bot, mem, doing, posting, sentVars, mixed>>

\* Mutant: the upload button does not save first.
ClickUnsaved(what) ==
    /\ doing = "nothing" /\ page # NoFile
    /\ what = "upload" => \A g \in Games : page.maps[g] # "unreviewed"
    /\ doing' = what
    /\ posting' = IF what = "save" THEN [to |-> Current, body |-> page] ELSE NoPost
    /\ UNCHANGED <<today, filesVars, frames, bot, mem, page, dirty, edits, sentVars, disturbed, mixed>>

\* The body is the page's copy at the click; the upload button saves first if
\* there is something to save.
Click(what) ==
    /\ doing = "nothing" /\ page # NoFile
    /\ what = "upload" => \A g \in Games : page.maps[g] # "unreviewed"
    /\ doing' = what
    /\ posting' = IF what = "save" \/ dirty THEN [to |-> Current, body |-> page]
                  ELSE NoPost
    /\ UNCHANGED <<today, filesVars, frames, bot, mem, page, dirty, edits, sentVars, disturbed, mixed>>

SaveDone == IF doing = "save" THEN "nothing" ELSE doing

SaveLands ==
    /\ posting # NoPost
    /\ Write(posting.to, posting.body)
    /\ posting' = NoPost /\ dirty' = FALSE /\ doing' = SaveDone
    /\ UNCHANGED <<today, frames, bot, mem, page, edits, sentVars, disturbed, mixed>>

\* The page says so, and an upload goes on all the same.
SaveFails ==
    /\ posting # NoPost
    /\ posting' = NoPost /\ doing' = SaveDone
    /\ disturbed' = TRUE
    /\ UNCHANGED <<today, filesVars, frames, bot, mem, page, dirty, edits, sentVars, mixed>>

-----------------------------------------------------------------------------
\* What is built for upload: the maps with their corrections, without those the
\* operator excluded.
Finalized(maps) ==
    [g \in Games |-> IF maps[g] = "excluded" THEN "none" ELSE maps[g]]

Uploading == doing = "upload" /\ posting = NoPost /\ sending = NoUpload

Settled(file) == \A g \in Games : file.maps[g] # "unreviewed"

\* The operator says no, or the server finds an unreviewed map in the file.
UploadRefused ==
    /\ Uploading
    /\ doing' = "nothing"
    /\ UNCHANGED <<today, filesVars, frames, bot, mem, page, dirty, edits, posting, sentVars, disturbed, mixed>>

UploadReads ==
    /\ Uploading
    /\ Settled(review[Current])
    /\ sending' = [of |-> Current, maps |-> Finalized(review[Current].maps)]
    /\ UNCHANGED <<today, filesVars, frames, bot, mem, pageVars, sent, disturbed, mixed>>

UploadFails ==
    /\ sending # NoUpload /\ doing = "upload"
    /\ sending' = NoUpload /\ doing' = "nothing"
    /\ UNCHANGED <<today, filesVars, frames, bot, mem, page, dirty, edits, posting, sent, disturbed, mixed>>

\* The worker has the file: it replaces what the contributor had there.
UploadLands ==
    /\ sending # NoUpload /\ doing = "upload"
    /\ sent' = sent \cup {g \in Games : sending.maps[g] # "none"}
    /\ doing' = "prune"
    /\ UNCHANGED <<today, filesVars, frames, bot, mem, page, dirty, edits, posting, sending, disturbed, mixed>>

-----------------------------------------------------------------------------
\* The pruning after an upload of session d.  A session whose file has no flag
\* wipes every frame.  Otherwise those kept between the day in a file's name and
\* its last write stay, for d and for the newest session; late is what the half
\* day of slack happens to include.
HasFlag(file) == \E g \in Flagged : file.maps[g] # "none"

InWindow(day, d, late) ==
    day \in review[d].session..saved[d] \/ (day = saved[d] + 1 /\ late)

\* Mutant: only the day in the name counts, not the days the session lasted.
KeptOfTheDay(d, late) ==
    IF HasFlag(review[d]) THEN {g \in Games : frames[g] = review[d].session} ELSE {}

Kept(d, late) ==
    IF HasFlag(review[d])
    THEN {g \in Games : \E e \in {d, newest} : InWindow(frames[g], e, late[g])}
    ELSE {}

Prune ==
    /\ doing = "prune"
    /\ \E late \in [Games -> BOOLEAN] :
          frames' = [g \in Games |-> IF g \in Kept(sending.of, late) THEN frames[g] ELSE 0]
    /\ sending' = NoUpload /\ doing' = "nothing"
    /\ UNCHANGED <<today, filesVars, bot, mem, page, dirty, edits, posting, sent, disturbed, mixed>>

ReviewNext ==
    \/ DayPasses
    \/ RunStarts \/ (\E g \in Games : Captured(g)) \/ RunEnds
    \/ PageLoads \/ PageCloses
    \/ (\E g \in Games, e \in Entry : Edit(g, e))
    \/ (\E what \in {"save", "upload"} : Click(what)) \/ SaveLands \/ SaveFails
    \/ UploadRefused \/ UploadReads \/ UploadFails \/ UploadLands \/ Prune

ReviewSpec == ReviewInit /\ [][ReviewNext]_reviewVars

-----------------------------------------------------------------------------
\* What goes up is what the operator has in front of him.  The server reads the
\* file again for it, so this takes a save that landed, nothing captured since the
\* page loaded, and no edit made while the click was still at work: each of those
\* sends something else, and nothing says so (review/page.html:745,
\* review/server.js:500).
UploadIsAsShown ==
    [][sending = NoUpload /\ sending' # NoUpload /\ ~disturbed =>
          sending'.maps = Finalized(page.maps)]_reviewVars

\* The frames a flagged map would be read again from are there until the map is on
\* the site (prune_frames.js:23), as long as one session is reviewed and uploaded
\* before the next one is captured: the upload of a clean session wipes the frames
\* of all the others.
FlaggedFramesKept ==
    ~mixed => \A d \in Days, g \in Flagged :
                 review[d].maps[g] # "none" /\ g \notin sent => frames[g] # 0
=============================================================================
