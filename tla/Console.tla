------------------------------ MODULE Console ------------------------------
(***************************************************************************)
(* The replay bot's console: one phase at a time by hand, with waits tried *)
(* for that phase only, or the unattended loop as a child process.  A      *)
(* request runs up to its first await at once; a phase's end, the child's  *)
(* exit and the second interrupt of a forced stop come whenever they do.   *)
(***************************************************************************)
EXTENDS Integers

CONSTANTS
    Waits,          \* values of a wait, as a slider has them
    Default,        \* timing.js DEFAULTS
    MaxReplays      \* bound: replays the client is brought to show

ASSUME ConsoleAssumption ==
    Waits \subseteq Nat /\ 1 \in Waits /\ Default \in Waits \ {0} /\ MaxReplays \in Nat

VARIABLES
    waitIs,         \* the wait in memory, which every module reads
    override,       \* the override file
    busy,           \* the phase that runs, and the wait to put back after it
    session,        \* what is held across phases
    screen,         \* the replay that is open; 0: none
    loop,           \* the child: "none", "runs", or interrupted once or twice
    orphan,         \* the child of a console that is gone still finishes its map
    pauseFlag, forced,
    replays,        \* replays opened so far
    spent,          \* codes spent by hand since the console started
    tuned           \* history: the file was written while a phase had its own wait

consoleVars == <<waitIs, override, busy, session, screen, loop, orphan, pauseFlag, forced,
                 replays, spent, tuned>>
worldVars == <<override, loop, orphan, pauseFlag, forced, tuned>>

Absent == -1
Phases == {"look", "import", "leave", "calibrateBar", "structure", "seek", "sample"}
NoPhase == [phase |-> "none", back |-> Absent]
NoSession == [made |-> FALSE, ref |-> 0, sampling |-> FALSE]

ConsoleTypeOK ==
    /\ waitIs \in Waits /\ override \in Waits \cup {Absent}
    /\ busy \in [phase : Phases \cup {"none"}, back : Waits \cup {Absent}]
    /\ session \in [made : BOOLEAN, ref : 0..MaxReplays, sampling : BOOLEAN]
    /\ screen \in 0..MaxReplays /\ replays \in 0..MaxReplays /\ spent \in 0..MaxReplays
    /\ loop \in {"none", "runs", "interrupted", "killed"}
    /\ orphan \in BOOLEAN /\ pauseFlag \in BOOLEAN /\ forced \in 0..1 /\ tuned \in BOOLEAN

ConsoleInit ==
    /\ waitIs = Default /\ override = Absent /\ busy = NoPhase /\ session = NoSession
    /\ screen = 0 /\ loop = "none" /\ orphan = FALSE /\ pauseFlag = FALSE /\ forced = 0
    /\ replays = 0 /\ spent = 0 /\ tuned = FALSE

\* A count, a divisor or a speed is never saved as less than one.
clamp(w) == IF w < 1 THEN 1 ELSE w

reload == IF override = Absent THEN Default ELSE override

-----------------------------------------------------------------------------
\* A phase that names no waits leaves them as they are; one that names some has them
\* for itself.  Refused while the loop or another phase runs.
Run(p, over) ==
    /\ loop = "none" /\ busy = NoPhase
    /\ p \in {"structure", "seek", "sample"} => session.ref # 0
    /\ busy' = [phase |-> p, back |-> IF over = Absent THEN Absent ELSE waitIs]
    /\ waitIs' = IF over = Absent THEN waitIs ELSE over
    /\ session' = [session EXCEPT !.made = TRUE,
                                  !.sampling = (p = "sample") \/ (@ /\ p # "seek")]
    /\ UNCHANGED <<screen, replays, spent, worldVars>>

PutBack ==
    /\ busy' = NoPhase
    /\ waitIs' = IF busy.back = Absent THEN waitIs ELSE busy.back

\* Mutant: the waits are put back after a phase that succeeded.
PhaseThrowsAsIs ==
    /\ busy # NoPhase /\ busy' = NoPhase
    /\ UNCHANGED <<waitIs, session, screen, replays, spent, worldVars>>

PhaseThrows ==
    /\ busy # NoPhase /\ PutBack
    /\ UNCHANGED <<session, screen, replays, spent, worldVars>>

\* The code is gone once the chunk was played; the replay may still not come, or come
\* after the wait gave up.
Imports ==
    /\ busy.phase = "import" /\ replays < MaxReplays /\ PutBack
    /\ spent' = spent + 1 /\ replays' = replays + 1
    /\ screen' \in {screen, replays + 1}
    /\ UNCHANGED <<session, worldVars>>

Leaves ==
    /\ busy.phase = "leave" /\ PutBack
    /\ screen' = 0
    /\ UNCHANGED <<session, replays, spent, worldVars>>

Calibrates ==
    /\ busy.phase = "calibrateBar" /\ screen # 0 /\ PutBack
    /\ session' = [session EXCEPT !.ref = screen]
    /\ UNCHANGED <<screen, replays, spent, worldVars>>

PhaseReturns ==
    /\ busy.phase \in {"look", "structure", "seek", "sample"} /\ PutBack
    /\ session' = [session EXCEPT !.sampling = @ /\ busy.phase # "sample"]
    /\ UNCHANGED <<screen, replays, spent, worldVars>>

Reset ==
    /\ busy = NoPhase /\ session' = NoSession
    /\ UNCHANGED <<waitIs, busy, screen, replays, spent, worldVars>>

-----------------------------------------------------------------------------
\* The file is written, and what it now says is what is in memory, whoever put
\* something else there.
Saved(to) ==
    /\ override' = to /\ waitIs' = reload'
    /\ tuned' = (busy.back # Absent)
    /\ UNCHANGED <<busy, session, screen, loop, orphan, pauseFlag, forced, replays, spent>>

Save(w) == Saved(clamp(w))
ClearSaved == Saved(Absent)

-----------------------------------------------------------------------------
\* The loop is not started under a phase; its own process reads the file.
startLoop ==
    /\ loop = "none" /\ busy = NoPhase
    /\ loop' = "runs" /\ session' = NoSession /\ pauseFlag' = FALSE
    /\ UNCHANGED <<waitIs, override, busy, screen, orphan, forced, replays, spent, tuned>>

LoopDrives ==
    /\ loop # "none" \/ orphan
    /\ \/ screen' = 0 /\ UNCHANGED replays
       \/ replays < MaxReplays /\ replays' = replays + 1 /\ screen' = replays + 1
    /\ UNCHANGED <<waitIs, override, busy, session, loop, orphan, pauseFlag, forced, spent, tuned>>

LoopExits ==
    /\ \/ loop # "none" /\ loop' = "none" /\ UNCHANGED orphan
       \/ orphan /\ orphan' = FALSE /\ UNCHANGED loop
    /\ UNCHANGED <<waitIs, override, busy, session, screen, pauseFlag, forced, replays, spent, tuned>>

Interrupted == CASE loop = "none" -> "none" [] loop = "runs" -> "interrupted" [] OTHER -> "killed"

\* An interrupt lets the child finish its map, a second one ends it.
stopLoop(force) ==
    /\ loop # "none" /\ loop' = Interrupted
    /\ forced' = IF force THEN 1 ELSE forced
    /\ UNCHANGED <<waitIs, override, busy, session, screen, orphan, pauseFlag, replays, spent, tuned>>

SecondInterrupt ==
    /\ forced = 1 /\ forced' = 0 /\ loop' = Interrupted
    /\ UNCHANGED <<waitIs, override, busy, session, screen, orphan, pauseFlag, replays, spent, tuned>>

pauseOrResume(b) ==
    /\ pauseFlag # b /\ pauseFlag' = b
    /\ UNCHANGED <<waitIs, override, busy, session, screen, loop, orphan, forced, replays, spent, tuned>>

\* The console is ended and started again; the child is told, and finishes its map.
Restart ==
    /\ orphan' = (orphan \/ loop # "none") /\ loop' = "none" /\ forced' = 0
    /\ busy' = NoPhase /\ session' = NoSession /\ spent' = 0
    /\ waitIs' = reload /\ tuned' = FALSE
    /\ UNCHANGED <<override, screen, pauseFlag, replays>>

ConsoleNext ==
    \/ \E p \in Phases, over \in Waits \cup {Absent} : Run(p, over)
    \/ PhaseThrows \/ Imports \/ Leaves \/ Calibrates \/ PhaseReturns \/ Reset
    \/ \E w \in Waits : Save(w)
    \/ ClearSaved
    \/ startLoop \/ LoopDrives \/ LoopExits
    \/ \E b \in BOOLEAN : stopLoop(b) \/ pauseOrResume(b)
    \/ SecondInterrupt \/ Restart

ConsoleSpec == ConsoleInit /\ [][ConsoleNext]_consoleVars

-----------------------------------------------------------------------------
\* A phase tried with other waits leaves no trace of them, whether it returned or
\* threw: with no phase running, the waits in memory are those the file says, unless
\* the file was written under it (console/server.js:94-105, timing.js:163-197).  And a
\* phase and the loop of this console never drive the client together.
PhasesLeaveNoTrace ==
    /\ busy = NoPhase /\ ~tuned => waitIs = reload
    /\ busy # NoPhase => loop = "none"
=============================================================================
