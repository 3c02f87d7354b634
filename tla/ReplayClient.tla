---------------------------- MODULE ReplayClient ----------------------------
(***************************************************************************)
(* The Overwatch client as tools/replay_bot sees it.  The client is not    *)
(* part of the repository: what it does is taken from how run.js,          *)
(* clientstate.js and the recorded chunks use it.  The bot can neither     *)
(* ask the client a question nor get an answer from it: it looks at        *)
(* pictures (the probes below), presses ESC, and plays recorded clicks     *)
(* that mean something only on the screen they were recorded on.           *)
(***************************************************************************)
EXTENDS Naturals

CONSTANTS
    Games,     \* one element per "match_id:game_no", each with its own code
    None,      \* no game
    RingSize,  \* how many recent imports the client remembers (10)
    Faults     \* which of FaultKinds may happen

FaultKinds ==
    { "refuse",   \* the client rejects a code it could have imported
      "focus",    \* the client cannot be foregrounded: keys and clicks throw
      "capture",  \* the capture of an open replay throws
      "stuck",    \* a pressed ESC is dropped
      "misclick", \* a click of leave-replay misses: the replay stays open
      "late",     \* a replay draws after the bot stopped waiting for it
      "probe",    \* a frame grab fails, and the probe answers FALSE
      "crash",    \* the bot's process dies
      "torn" }    \* ... while it writes a file, which is left unreadable

ASSUME ClientAssumption ==
    /\ None \notin Games
    /\ RingSize \in Nat \ {0}
    /\ Faults \subseteq FaultKinds

VARIABLES
    screen,    \* what the client displays
    shown,     \* the game whose replay is loading or open, or None
    since      \* imports since each game's own; RingSize: not in the ring

clientVars == <<screen, shown, since>>

\* "home" is the replay history tab the import chunk was recorded on, "list"
\* the career-profile list that reads as `replay-history`, "escReplay" the ESC
\* menu over an open replay.
Screens == {"home", "list", "esc", "loading", "replay", "escReplay"}

ClientTypeOK ==
    /\ screen \in Screens
    /\ shown \in Games \cup {None}
    /\ shown = None <=> screen \in {"home", "list", "esc"}
    /\ since \in [Games -> 0..RingSize]

ClientInit ==
    /\ screen = "home"
    /\ shown = None
    /\ since = [g \in Games |-> RingSize]

InRing(g) == since[g] < RingSize

-----------------------------------------------------------------------------
(* The probes: a failed grab is caught and answered FALSE.                 *)

Reads(fact) == IF fact /\ "probe" \in Faults THEN BOOLEAN ELSE {fact}

InReplay == Reads(screen = "replay")
EscMenuUp == Reads(screen \in {"esc", "escReplay"})
ReplayHistoryUp == Reads(screen = "list")

-----------------------------------------------------------------------------
(* What the bot does to the client.                                        *)

AfterEsc ==
    CASE screen \in {"esc", "list"} -> "home"
      [] screen = "escReplay" -> "replay"
      [] screen = "home" -> "esc"
      [] screen = "replay" -> "escReplay"
      [] screen = "loading" -> "loading"

PressEsc ==
    /\ \/ screen' = AfterEsc
       \/ "stuck" \in Faults /\ screen' = screen
    /\ UNCHANGED <<shown, since>>

\* The leave-replay chunk, played while a replay is on screen.
LeaveReplay ==
    /\ \/ screen' = "home" /\ shown' = None
       \/ /\ "misclick" \in Faults
          /\ screen' \in {"escReplay", "replay"} /\ shown' = shown
    /\ UNCHANGED since

\* The open-import chunk.  On its own screen it submits the code, which the
\* client takes or rejects; a code still in the ring it always rejects (it asks
\* for a manual scroll-and-select).  Anywhere else the clicks are blind.
PlayImport(g) ==
    \/ /\ screen = "home" /\ ~ InRing(g)
       /\ screen' = "loading" /\ shown' = g
       /\ since' = [h \in Games |-> IF h = g THEN 0
                                    ELSE IF since[h] < RingSize THEN since[h] + 1
                                    ELSE RingSize]
    \/ /\ screen = "home" /\ (InRing(g) \/ "refuse" \in Faults)
       /\ screen' \in {"home", "list"}
       /\ UNCHANGED <<shown, since>>
    \/ /\ screen \in {"list", "esc"}
       /\ screen' \in {screen, "list"}
       /\ UNCHANGED <<shown, since>>
    \/ /\ screen \in {"loading", "replay", "escReplay"}
       /\ UNCHANGED clientVars

\* What the client does on its own: a loading replay is drawn or dropped.
ClientDraws ==
    /\ screen = "loading"
    /\ \/ screen' = "replay" /\ shown' = shown
       \/ "refuse" \in Faults /\ screen' = "home" /\ shown' = None
    /\ UNCHANGED since
=============================================================================
