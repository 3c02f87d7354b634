----------------------------- MODULE SyncCrawl -----------------------------
(***************************************************************************)
(* faceit_sync/sync.py: "fetch --matches-file" ingests the seeds, then     *)
(* "fetch" crawls every championship the database holds.  Without a key    *)
(* FACEIT lists matches only by team, so the crawl asks for the teams it   *)
(* knows, stores their matches, and goes on with the teams those name.     *)
(*                                                                         *)
(* FACEIT changes while the crawl runs, any call may fail after its        *)
(* retries, and the process may be killed between two transactions.        *)
(***************************************************************************)
EXTENDS Naturals, FiniteSets

CONSTANTS
    Championships, Playoffs,    \* ids, in their sort order; those of a playoff stage
    Related,                    \* championships that share the name but for the stage
    Teams,                      \* teams with a UUID: a bye is none
    Matches, Seeds,             \* FACEIT's matches; those of matches.txt
    ChampionshipOf, Rivals,     \* of a match: its championship, its teams
    InitialStatus,              \* of a match, when all begins
    Begun,                      \* what codes and age a finished one may have then
    Nothing,
    MaxEvents                   \* bound: changes on FACEIT, failed calls, killed processes

\* "unreported" is FINISHED without results; a cancelled match is still listed,
\* with a status the crawl does not take.
Statuses == {"unlisted", "scheduled", "unreported", "finished", "cancelled"}
\* Replay codes on none, some or all of the games.
Codes == {"none", "some", "all"}
\* Finished in the last 12 hours, in the last 14 days, or before.
Ages == {"fresh", "recent", "old"}

ASSUME SyncAssumption ==
    /\ Championships \subseteq Nat /\ Nothing \notin Championships
    /\ Playoffs \subseteq Championships /\ Seeds \subseteq Matches
    /\ Related \in [Championships -> SUBSET Championships]
    /\ \A c \in Championships : c \notin Related[c]
    /\ ChampionshipOf \in [Matches -> Championships]
    /\ Rivals \in [Matches -> SUBSET Teams]
    /\ InitialStatus \in [Matches -> Statuses]
    /\ \A m \in Seeds : InitialStatus[m] # "unlisted"
    /\ Begun \subseteq Codes \X Ages
    /\ MaxEvents \in Nat

VARIABLES
    status, codes, age,         \* FACEIT's matches
    stored,                     \* the database
    phase,                      \* which of the two commands runs
    todo,                       \* matches found and not ingested yet
    backfill,                   \* SyncEngine._backfill
    cids, cur, extra,           \* championships left, the one crawled, its siblings' teams
    processed, batch, seen,     \* teams asked for and to ask for; matches met
    quiet,                      \* history: no match changed status since the crawl began
    done, missed,               \* history: championships finished, calls that failed
    events                      \* how often FACEIT changed or something failed

faceitVars == <<status, codes, age>>
crawlVars == <<cids, cur, extra, processed, batch, seen>>
syncHistory == <<quiet, done, missed>>
syncVars == <<faceitVars, stored, phase, todo, backfill, crawlVars, syncHistory, events>>

Row == [kind : {"absent", "fixture", "finished"}, codes : Codes]
Absent == [kind |-> "absent", codes |-> "none"]

SyncTypeOK ==
    /\ status \in [Matches -> Statuses] /\ codes \in [Matches -> Codes]
    /\ age \in [Matches -> Ages] /\ stored \in [Matches -> Row]
    /\ phase \in {"off", "seed", "crawl"}
    /\ todo \subseteq Matches /\ (backfill = Nothing \/ backfill \subseteq Matches)
    /\ cids \subseteq Championships /\ cur \in cids \cup {Nothing}
    /\ cur # Nothing => phase = "crawl"
    /\ extra \subseteq Teams /\ processed \subseteq Teams /\ batch \subseteq Teams \ processed
    /\ seen \subseteq Matches /\ (phase = "crawl" => todo \subseteq seen)
    /\ quiet \in BOOLEAN /\ done \subseteq Championships
    /\ missed \subseteq Championships \X (Matches \cup Teams)
    /\ events \in 0..MaxEvents

-----------------------------------------------------------------------------
(* FACEIT.                                                                 *)

Event == events < MaxEvents /\ events' = events + 1

\* A match moves on; the list of a team shows it at once.
Moves(m, from, to) ==
    /\ status[m] = from /\ Event
    /\ status' = [status EXCEPT ![m] = to]
    /\ quiet' = FALSE
    /\ UNCHANGED <<codes, age, stored, phase, todo, backfill, crawlVars, done, missed>>

StatusChange(m) ==
    \/ Moves(m, "unlisted", "scheduled")
    \/ Moves(m, "scheduled", "cancelled")
    \/ Moves(m, "scheduled", "unreported")
    \/ \E from \in {"scheduled", "unreported"} : Moves(m, from, "finished")

\* More of the games of a match get their codes.
CodesAppear(m) ==
    /\ status[m] = "finished" /\ Event
    /\ \E c \in Codes \ {"none"} : c # codes[m] /\ codes[m] # "all" /\ codes' = [codes EXCEPT ![m] = c]
    /\ UNCHANGED <<status, age, stored, phase, todo, backfill, crawlVars, syncHistory>>

TimePasses(m) ==
    /\ status[m] = "finished" /\ Event
    /\ \/ age[m] = "fresh" /\ age' = [age EXCEPT ![m] = "recent"]
       \/ age[m] = "recent" /\ age' = [age EXCEPT ![m] = "old"]
    /\ UNCHANGED <<status, codes, stored, phase, todo, backfill, crawlVars, syncHistory>>

-----------------------------------------------------------------------------
(* The database.                                                           *)

HeldMatches == {m \in Matches : stored[m].kind # "absent"}
StoredChampionships == {ChampionshipOf[m] : m \in HeldMatches}

\* known_team_ids: the teams of a championship's stored matches.
KnownTeams(c) == UNION {Rivals[m] : m \in {x \in HeldMatches : ChampionshipOf[x] = c}}

\* matches_needing_backfill: a partial gap for two weeks, no code at all for
\* twelve hours.  Mutant: no second look at a partial gap.
NeedingBackfillFresh ==
    {m \in Matches : stored[m].kind = "finished" /\ stored[m].codes = "none" /\ age[m] = "fresh"}

NeedingBackfill ==
    {m \in Matches :
        /\ stored[m].kind = "finished"
        /\ \/ stored[m].codes = "some" /\ age[m] # "old"
           \/ stored[m].codes = "none" /\ age[m] = "fresh"}

Backfill == IF backfill = Nothing THEN NeedingBackfill ELSE backfill

\* _skip_stored; the set is asked for once in a run, by the first finished match.
\* Mutant: whatever is stored is skipped.
SkippedOnceStored(m) == stored[m].kind # "absent" /\ m \notin Backfill
Skipped(m) == stored[m].kind = "finished" /\ m \notin Backfill
AskedBackfill(m) == IF stored[m].kind = "finished" THEN Backfill ELSE backfill

\* ingest_match: a finished match in full, a scheduled one as a fixture; anything
\* else leaves what is stored.
RowOf(m) ==
    CASE status[m] = "finished" -> [kind |-> "finished", codes |-> codes[m]]
      [] status[m] = "scheduled" -> [kind |-> "fixture", codes |-> "none"]
      [] OTHER -> stored[m]

\* A request that failed for good, after its retries.
Failure == Event

\* _ingest_and_tally, one transaction; the matches of a list come in any order.
Ingest(m) ==
    /\ m \in todo
    /\ todo' = todo \ {m} /\ backfill' = AskedBackfill(m)
    /\ stored' = IF Skipped(m) THEN stored ELSE [stored EXCEPT ![m] = RowOf(m)]
    /\ UNCHANGED <<faceitVars, phase, crawlVars, syncHistory, events>>

\* An error of a match is counted, and the run goes on.
IngestFails(m) ==
    /\ m \in todo /\ ~ Skipped(m) /\ Failure
    /\ todo' = todo \ {m} /\ backfill' = AskedBackfill(m)
    /\ missed' = missed \cup {<<ChampionshipOf[m], m>>}
    /\ UNCHANGED <<faceitVars, stored, phase, crawlVars, quiet, done>>

-----------------------------------------------------------------------------
(* The two commands.                                                       *)

SyncInit ==
    /\ status = InitialStatus /\ stored = [m \in Matches |-> Absent]
    /\ \E b \in Begun :
         /\ codes = [m \in Matches |-> IF status[m] = "finished" THEN b[1] ELSE "none"]
         /\ age = [m \in Matches |-> IF status[m] = "finished" THEN b[2] ELSE "fresh"]
    /\ phase = "off" /\ todo = {} /\ backfill = Nothing
    /\ cids = {} /\ cur = Nothing /\ extra = {} /\ processed = {} /\ batch = {} /\ seen = {}
    /\ quiet = FALSE /\ done = {} /\ missed = {}
    /\ events = 0

NoChampionship == cur' = Nothing /\ extra' = {} /\ processed' = {} /\ batch' = {} /\ seen' = {}

\* run_matches, with the committed list.
FetchSeeds ==
    /\ phase = "off"
    /\ phase' = "seed" /\ todo' = Seeds /\ backfill' = Nothing
    /\ UNCHANGED <<faceitVars, stored, crawlVars, syncHistory, events>>

\* run_all; without a division stored there is nothing to do.
FetchAll ==
    /\ phase = "seed" /\ todo = {}
    /\ phase' = (IF StoredChampionships = {} THEN "off" ELSE "crawl")
    /\ cids' = StoredChampionships /\ backfill' = Nothing
    /\ quiet' = TRUE /\ done' = {} /\ missed' = {}
    /\ UNCHANGED <<faceitVars, stored, todo, cur, extra, processed, batch, seen, events>>

\* Mutant: the order of the ids alone.
FirstById(c) == c \in cids /\ \A d \in cids : c <= d

\* Regular seasons before playoffs.
First(c) ==
    /\ c \in cids /\ (c \in Playoffs => cids \subseteq Playoffs)
    /\ \A d \in cids : d < c => c \notin Playoffs /\ d \in Playoffs

\* _related_division_teams.
RelatedTeams(c) == IF c \in Playoffs THEN UNION {KnownTeams(r) : r \in Related[c]} ELSE {}

BeginRun(c) ==
    /\ phase = "crawl" /\ cur = Nothing /\ First(c)
    /\ KnownTeams(c) \cup RelatedTeams(c) # {}
    /\ cur' = c /\ extra' = RelatedTeams(c)
    /\ UNCHANGED <<faceitVars, stored, phase, todo, backfill, cids, processed, batch, seen,
                   syncHistory, events>>

\* EnumerationError ends run_all, and the championships behind it wait.
NoSeedTeams(c) ==
    /\ phase = "crawl" /\ cur = Nothing /\ First(c)
    /\ KnownTeams(c) \cup RelatedTeams(c) = {}
    /\ phase' = "off" /\ cids' = {} /\ backfill' = Nothing
    /\ UNCHANGED <<faceitVars, stored, todo, cur, extra, processed, batch, seen, syncHistory,
                   events>>

NextTeams == (KnownTeams(cur) \cup extra) \ processed

\* The teams known by now that were not asked for: the next round of the loop.
NextRound ==
    /\ cur # Nothing /\ todo = {} /\ batch = {} /\ NextTeams # {}
    /\ batch' = NextTeams
    /\ UNCHANGED <<faceitVars, stored, phase, todo, backfill, cids, cur, extra, processed, seen,
                   syncHistory, events>>

\* iter_team_championship_matches, less what the crawl does not take.
Listed(c, t) ==
    {m \in Matches : /\ ChampionshipOf[m] = c /\ t \in Rivals[m]
                     /\ status[m] \in {"scheduled", "unreported", "finished"}}

EnumerateTeam(t) ==
    /\ t \in batch /\ todo = {}
    /\ batch' = batch \ {t} /\ processed' = processed \cup {t}
    /\ todo' = Listed(cur, t) \ seen /\ seen' = seen \cup Listed(cur, t)
    /\ UNCHANGED <<faceitVars, stored, phase, backfill, cids, cur, extra, syncHistory, events>>

\* A team's error is counted; the team is not asked for again in this run.
EnumerateFails(t) ==
    /\ t \in batch /\ todo = {} /\ Failure
    /\ batch' = batch \ {t} /\ processed' = processed \cup {t}
    /\ missed' = missed \cup {<<cur, t>>}
    /\ UNCHANGED <<faceitVars, stored, phase, todo, backfill, cids, cur, extra, seen, quiet, done>>

\* No team is left.
EndRun ==
    /\ cur # Nothing /\ todo = {} /\ batch = {} /\ NextTeams = {}
    /\ cids' = cids \ {cur} /\ done' = done \cup {cur} /\ NoChampionship
    /\ UNCHANGED <<faceitVars, stored, phase, todo, backfill, quiet, missed, events>>

EndFetch ==
    /\ phase = "crawl" /\ cids = {}
    /\ phase' = "off" /\ backfill' = Nothing
    /\ UNCHANGED <<faceitVars, stored, todo, crawlVars, syncHistory, events>>

\* The process dies; what it committed stays.
Killed ==
    /\ phase # "off" /\ Failure
    /\ phase' = "off" /\ todo' = {} /\ cids' = {} /\ backfill' = Nothing /\ NoChampionship
    /\ UNCHANGED <<faceitVars, stored, syncHistory>>

Crawl ==
    \/ \E m \in Matches : Ingest(m)
    \/ FetchAll
    \/ \E c \in Championships : BeginRun(c) \/ NoSeedTeams(c)
    \/ NextRound
    \/ \E t \in Teams : EnumerateTeam(t)
    \/ EndRun
    \/ EndFetch

SyncNext ==
    \/ \E m \in Matches : StatusChange(m) \/ CodesAppear(m) \/ TimePasses(m) \/ IngestFails(m)
    \/ \E t \in Teams : EnumerateFails(t)
    \/ FetchSeeds
    \/ Crawl
    \/ Killed

SyncSpec == SyncInit /\ [][SyncNext]_syncVars

\* The workflow runs both commands every night.
SyncFairSpec == SyncSpec /\ WF_syncVars(Crawl) /\ WF_syncVars(FetchSeeds)

-----------------------------------------------------------------------------
\* What FACEIT shows of a match is in the database.
UpToDate(m) ==
    /\ status[m] = "scheduled" => stored[m].kind # "absent"
    /\ status[m] = "finished" => stored[m].kind = "finished"

\* The teams of a playoff: its own and its division's qualifiers.
Entrants(c) ==
    KnownTeams(c) \cup (IF c \in Playoffs THEN UNION {KnownTeams(r) : r \in Related[c] \ Playoffs}
                        ELSE {})

\* A match a crawl could have found: some entrant's list held it, and no call
\* for either failed.
Reached(c, m) ==
    /\ ChampionshipOf[m] = c /\ <<c, m>> \notin missed
    /\ \E t \in Rivals[m] : t \in Entrants(c) /\ <<c, t>> \notin missed

\* Every match in reach of what is known when a championship is through has been
\* stored, whatever failed beside it (sync.py:837, "until the team graph is
\* exhausted. In a connected schedule this reaches every team and match from any
\* single seed").
CrawlIsComplete ==
    phase = "crawl" /\ quiet => \A c \in done, m \in Matches : Reached(c, m) => UpToDate(m)

\* Once FACEIT is quiet and calls succeed, nothing in reach stays out, and no
\* fixture stays one (ARCHITECTURE.md:243, "upgraded to a full ingest once it
\* reaches FINISHED").
CatchesUp ==
    <>[](\A c \in StoredChampionships, m \in Matches :
            ChampionshipOf[m] = c /\ Rivals[m] \cap Entrants(c) # {} => UpToDate(m))

\* A code that appears in time is found: for two weeks after the match when it has
\* some stored, for twelve hours when it has none.
CodesArrive ==
    []<>(\A m \in HeldMatches :
            stored[m].kind = "finished" /\ codes[m] # stored[m].codes
                => \/ stored[m].codes = "some" /\ age[m] = "old"
                   \/ stored[m].codes = "none" /\ age[m] # "fresh")

\* "a just-ingested match - stored within the last 12 hours, where codes may
\* genuinely not be up yet" (ARCHITECTURE.md:234) is one of those asked for again:
\* a match that has just been stored without a code is due for a second look.
JustStoredIsDue ==
    [][\A m \in Matches :
          stored[m].kind # "finished" /\ stored'[m] = [kind |-> "finished", codes |-> "none"]
              => m \in NeedingBackfill']_stored
=============================================================================
