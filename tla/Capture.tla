------------------------------ MODULE Capture ------------------------------
(***************************************************************************)
(* Capturing one open replay: the replay is stopped, its controls and the  *)
(* events panel are raised, the bar is measured, the rounds are read off   *)
(* it, and the playhead is driven to every planned time.  The client drops *)
(* keys without a word, a dead key host has them sent a second time, and   *)
(* the playhead cannot always be seen.  Positions are seconds.             *)
(***************************************************************************)
EXTENDS Timeline

CONSTANTS
    Intervals,      \* what a press may be worth when the map opens
    ChosenInterval, \* what the options trip sets it to
    Structure,      \* the segments the bar shows with the panel open
    Opened,         \* where the replay stands when it has been stopped
    End,            \* its length
    SwapTimes,      \* when a hero is changed
    DeadTimes,      \* when a player is dead
    RateErrors      \* how far off the measured playback rate is, in percent
                    \* (not so far that one interval looks like another)

ASSUME CaptureAssumption ==
    /\ Intervals \subseteq INTERVALS /\ ChosenInterval \in INTERVALS
    /\ Opened \in Nat /\ End \in Nat /\ Opened <= End
    /\ SwapTimes \subseteq 0..End /\ DeadTimes \subseteq 0..End
    /\ RateErrors \subseteq -12..16

\* The bar is read from left to right.
ASSUME StructureAssumption ==
    /\ Structure \in Seq([play : BOOLEAN, from : Nat, to : Nat])
    /\ \A i \in DOMAIN Structure : Structure[i].from < Structure[i].to
    /\ \A i, j \in DOMAIN Structure : i < j => Structure[i].to <= Structure[j].from

VARIABLES
    phase,
    client,         \* the game: playing, media controls, events panel, interval, playhead
    scale,          \* what the bot makes of the bar: where it takes zero to be, what a press
                    \* moves the playhead by, and what it takes that for
    pos,            \* where the driver takes the playhead to be; -1: nowhere
    seek,           \* the seek that is under way
    plan, next,
    samples, kept,  \* the samples, and those whose frame is stored
    seen,           \* the rounds that have a sample
    recent          \* the two samples the next one is compared with; 0: none

captureVars == <<phase, client, scale, pos, seek, plan, next, samples, kept, seen, recent>>
sampleVars == <<plan, next, samples, kept, seen, recent>>

Nowhere == -1
NoSeek == [t |-> 0, at |-> Nowhere, left |-> 0]
NoScale == [zero |-> 0, is |-> 0, said |-> 0]
MaxCorrections == 3

CapturePhases == {"pause", "viewer", "options", "calibrate", "structure", "drive", "check", "sample",
           "done", "failed"}
Read == [comp : Nat, dead : BOOLEAN, low : BOOLEAN]

CaptureInit ==
    /\ phase = "pause"
    /\ client \in [playing : BOOLEAN, media : BOOLEAN, panel : {FALSE}, interval : Intervals,
                   where : {Opened}]
    /\ scale = NoScale /\ pos = Nowhere /\ seek = NoSeek
    /\ plan = <<>> /\ next = 1 /\ samples = <<>> /\ kept = {} /\ seen = {} /\ recent = <<0, 0>>

Fail == phase' = "failed" /\ UNCHANGED <<client, scale, pos, seek, sampleVars>>

\* Where n presses, each worth s, can leave the playhead: any of them may be dropped,
\* and all of them be sent again.
Clamp(x) == IF x < 0 THEN 0 ELSE IF x > End THEN End ELSE x
Pressed(from, n, s) == {Clamp(from + k * s) : k \in 0..n \cup {2 * n}}

\* A toggle does its work, is dropped, or is sent twice.
Toggled(b) == {~b, b}

-----------------------------------------------------------------------------
\* Two frames apart in time; one press if they differ, and another look.
EnsurePaused ==
    /\ phase = "pause"
    /\ \E playing \in (IF client.playing THEN Toggled(TRUE) ELSE {FALSE}) :
          IF playing THEN Fail
          ELSE /\ phase' = "viewer"
               /\ client' = [client EXCEPT !.playing = FALSE]
               /\ UNCHANGED <<scale, pos, seek, sampleVars>>

\* N, looked at for a while, N again if the controls are not seen; then K on a
\* panel that reads closed.  The controls may be up and not be seen.
OpenEventsViewer ==
    /\ phase = "viewer"
    /\ \E first \in Toggled(client.media) :
       \E sawFirst \in {first, FALSE} :
       \E media \in (IF sawFirst THEN {first} ELSE Toggled(first)) :
       \E saw \in {media, FALSE} :
       \E panel \in (IF client.panel \/ ~media THEN {client.panel} ELSE {TRUE, FALSE}) :
          IF ~(sawFirst \/ saw) \/ ~panel THEN Fail
          ELSE /\ client' = [client EXCEPT !.media = media, !.panel = panel]
               /\ phase' = "options"
               /\ UNCHANGED <<scale, pos, seek, sampleVars>>

\* The trip through the options menu, once a session, sets what a press is worth and
\* may shut the panel; one press to open it again.
SetInterval ==
    /\ phase = "options"
    /\ \E left \in BOOLEAN, media \in BOOLEAN :
       \E panel \in (IF left THEN {TRUE} ELSE {TRUE, FALSE}) :
          IF ~panel \/ ~media THEN Fail
          ELSE /\ client' = [client EXCEPT !.interval = ChosenInterval, !.media = media]
               /\ phase' = "calibrate"
               /\ UNCHANGED <<scale, pos, seek, sampleVars>>

NoOptionsTrip ==
    /\ phase = "options" /\ phase' = "calibrate"
    /\ UNCHANGED <<client, scale, pos, seek, sampleVars>>

\* Jump to the start, look, press forward once, look; what that press was worth is
\* measured against the rate the replay plays at on the first map of a session, and on
\* the others it is what the first map said, though the client may have been restarted
\* since and have gone back to another interval.
CalibrateBar ==
    /\ phase = "calibrate"
    /\ \E zero \in {0, client.where}, e \in RateErrors :
       \E one \in Pressed(zero, 1, client.interval) :
       \E said \in {stepSecondsFrom((one - zero) * (100 + e), 100)}
                    \cup {ChosenInterval} :
          IF said = 0 \/ one <= zero THEN Fail
          ELSE /\ scale' = [zero |-> zero, is |-> one - zero, said |-> said]
               /\ client' = [client EXCEPT !.where = one]
               /\ phase' = "structure" /\ pos' = Nowhere
               /\ UNCHANGED <<seek, sampleVars>>

ReadStructure ==
    /\ phase = "structure"
    /\ plan' = planGrid(Structure, scale.said)
    /\ next' = 1 /\ phase' = "drive"
    /\ UNCHANGED <<client, scale, pos, seek, samples, kept, seen, recent>>

-----------------------------------------------------------------------------
\* Seeking.  Keys count from where the driver takes the playhead to be; a drag goes
\* to the pixel of the time, and may miss.
KeysTo(from, t) ==
    LET forward == Rounded(t, scale.said)
        back == Rounded(from - t, scale.said)
        Restart == {Pressed(z, forward, client.interval) : z \in {0, client.where}}
    IN  CASE from = Nowhere         -> UNION Restart
          [] from = t               -> {client.where}
          [] from # Nowhere /\ t > from ->
                Pressed(client.where, Rounded(t - from, scale.said), client.interval)
          [] from > t -> IF back <= forward + 1 THEN Pressed(client.where, back, -client.interval)
                         ELSE UNION Restart

TrueTime(t) == scale.zero + (t * scale.is) \div scale.said

DragTo(t) == IF TrueTime(t) > End THEN {} ELSE {TrueTime(t), client.where}

Moves(from, t, forceKeys) == KeysTo(from, t) \cup IF forceKeys THEN {} ELSE DragTo(t)

\* What the playhead says, if it can be seen.
Positions(where) == {Nowhere, ((where - scale.zero) * scale.said) \div scale.is}

Move(t, from, left, forceKeys) ==
    \E where \in Moves(from, t, forceKeys) : \E at \in Positions(where) :
        /\ client' = [client EXCEPT !.where = where]
        /\ seek' = [t |-> t, at |-> at, left |-> left]

StartSeek ==
    /\ phase = "drive" /\ next <= Len(plan)
    /\ Move(plan[next], pos, MaxCorrections, FALSE)
    /\ phase' = "check"
    /\ UNCHANGED <<scale, pos, sampleVars>>

Off(at, t) == at # Nowhere /\ 2 * Abs(at - t) >= scale.said

Correct ==
    /\ phase = "check" /\ Off(seek.at, seek.t) /\ seek.left > 0
    /\ Move(seek.t, seek.at, seek.left - 1, seek.left = 1)
    /\ UNCHANGED <<phase, scale, pos, sampleVars>>

\* Mutant: the playhead is where it was sent.
LandTrusting ==
    /\ phase = "check" /\ (~Off(seek.at, seek.t) \/ seek.left = 0)
    /\ pos' = seek.t /\ phase' = "sample"
    /\ UNCHANGED <<client, scale, seek, sampleVars>>

\* The measurement wins; where there is none the playhead is taken to be there.
Land ==
    /\ phase = "check" /\ (~Off(seek.at, seek.t) \/ seek.left = 0)
    /\ pos' = (IF seek.at = Nowhere THEN seek.t ELSE seek.at)
    /\ phase' = "sample"
    /\ UNCHANGED <<client, scale, seek, sampleVars>>

-----------------------------------------------------------------------------
\* The round a time is sampled for: the one it lies in, or the one whose middle is
\* nearest.  Rounds are counted along the bar; 0 is none.
Mid(i) == Structure[i].from + Structure[i].to
RoundIndexOf(t) ==
    LET play == {i \in DOMAIN Structure : Structure[i].play}
        in == {i \in play : t >= Structure[i].from /\ t < Structure[i].to}
    IN  IF in # {} THEN CHOOSE i \in in : \A j \in in : i <= j
        ELSE IF play = {} THEN 0
        ELSE CHOOSE i \in play : \A j \in play :
                Abs(2 * t - Mid(i)) < Abs(2 * t - Mid(j))
                \/ (Abs(2 * t - Mid(i)) = Abs(2 * t - Mid(j)) /\ i <= j)

IsFirst(t) == RoundIndexOf(t) = 0 \/ RoundIndexOf(t) \notin seen

\* The frame shows the heroes of its time.  One that never settles is read low, and
\* may be read wrong.
CompAt(time) == Cardinality({s \in SwapTimes : s <= time})
Misread == 99
Reads(time) ==
    {r \in [comp : {CompAt(time), Misread}, dead : {time \in DeadTimes}, low : BOOLEAN] :
        r.comp = Misread => r.low}

\* A slot that has no hero has no score, which is less than any.
Doubtful(r) == r.low \/ r.dead

Differ(r, s) == r.comp # s.comp \/ r.dead # s.dead

ShouldKeep(r, first) ==
    LET prev == IF first THEN 0 ELSE recent[1]
        prevPrev == IF first THEN 0 ELSE recent[2]
    IN  \/ prev = 0
        \/ Differ(r, samples[prev].read) \/ Doubtful(r)
        \/ prevPrev # 0 /\ Differ(samples[prev].read, samples[prevPrev].read)

Missed ==
    /\ next' = next + 1 /\ phase' = "drive"
    /\ recent' = IF IsFirst(seek.t) THEN <<0, 0>> ELSE recent
    /\ seek' = NoSeek
    /\ UNCHANGED <<client, scale, pos, plan, samples, kept, seen>>

\* Mutant: a round counts as seen although its first sample was missed.
MissedButSeen ==
    /\ phase = "sample"
    /\ next' = next + 1 /\ phase' = "drive"
    /\ seen' = seen \cup {RoundIndexOf(seek.t)}
    /\ seek' = NoSeek
    /\ UNCHANGED <<client, scale, pos, plan, samples, kept, recent>>

\* The seek did not end where it should, or nothing but a loading screen came.
Miss == phase = "sample" /\ Missed

\* What the first map said of a press is not what one is worth any more.
Outdated == scale.said = ChosenInterval /\ client.interval # ChosenInterval

TakeSample ==
    /\ phase = "sample" /\ ~Off(pos, seek.t)
    /\ \E r \in Reads(client.where) :
          LET n == Len(samples) + 1
              first == IsFirst(seek.t)
          IN  /\ samples' = Append(samples,
                    [t |-> seek.t, read |-> r, round |-> RoundIndexOf(seek.t),
                     right |-> seek.at = Nowhere \/ scale.zero # 0 \/ scale.is # client.interval
                               \/ Outdated \/ 2 * Abs(client.where - seek.t) < scale.said])
              /\ kept' = kept \cup IF ShouldKeep(r, first) THEN {n} ELSE {}
              /\ recent' = <<n, IF first THEN 0 ELSE recent[1]>>
    /\ seen' = seen \cup {RoundIndexOf(seek.t)}
    /\ next' = next + 1 /\ phase' = "drive" /\ seek' = NoSeek
    /\ UNCHANGED <<client, scale, pos, plan>>

CaptureDone ==
    /\ phase = "drive" /\ next > Len(plan)
    /\ phase' = "done"
    /\ UNCHANGED <<client, scale, pos, seek, sampleVars>>

CaptureNext ==
    \/ EnsurePaused \/ OpenEventsViewer \/ SetInterval \/ NoOptionsTrip
    \/ CalibrateBar \/ ReadStructure
    \/ StartSeek \/ Correct \/ Land \/ Miss \/ TakeSample \/ CaptureDone

CaptureSpec == CaptureInit /\ [][CaptureNext]_captureVars

-----------------------------------------------------------------------------
\* A sample was taken at the time it carries, within half a step, whatever keys were
\* dropped or sent twice on the way and wherever a drag came down: the playhead was
\* seen there (driver.js:178).  Nothing says so if the key that jumps to the start was
\* dropped, if the one press that was measured was two, or if the step is an earlier map's
\* and the client has been restarted with another (run.js:886).
SamplesAreWhereTheySay == \A i \in DOMAIN samples : samples[i].right

\* Frames are only stored when the read changes, and the frames of a round still show
\* every line-up that was read in it (phases.js:332).
EveryCompHasAFrame ==
    \A i \in DOMAIN samples : \E j \in kept :
        j <= i /\ samples[j].round = samples[i].round
               /\ ~Differ(samples[j].read, samples[i].read)
=============================================================================
