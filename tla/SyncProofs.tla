----------------------------- MODULE SyncProofs -----------------------------
(***************************************************************************)
(* What a crawl has found when it is through, for any schedule, any        *)
(* changes on FACEIT and any failures.                                     *)
(***************************************************************************)
EXTENDS SyncCrawl, TLAPS

\* FACEIT never takes a result back, and only a result is stored as finished.
FinishedStays == \A m \in Matches : stored[m].kind = "finished" => status[m] = "finished"

\* Between two championships nothing is left of the last.
NothingLeft == cur = Nothing => batch = {} /\ processed = {} /\ seen = {}

\* What is met while a championship is crawled belongs to it.
SeenHere == cur # Nothing => \A m \in seen : ChampionshipOf[m] = cur

\* A championship is crawled once, and no regular season after a playoff.
InOrder ==
    phase = "crawl" =>
        /\ done \cap cids = {}
        /\ \A c \in done \cup {cur} : c \in Playoffs => cids \subseteq Playoffs

\* CrawlIsComplete speaks of finished championships.  In the one under way each
\* match met waits, failed or is stored; each team asked for failed or had its
\* list met; and the division's teams are among the extra ones.
UnderWay ==
    quiet /\ cur # Nothing =>
        /\ \A m \in seen : m \in todo \/ <<cur, m>> \in missed \/ UpToDate(m)
        /\ \A t \in processed : <<cur, t>> \in missed \/ Listed(cur, t) \subseteq seen
        /\ Entrants(cur) \subseteq KnownTeams(cur) \cup extra

CrawlInv == SyncTypeOK /\ FinishedStays /\ NothingLeft /\ SeenHere /\ InOrder /\ UnderWay
            /\ CrawlIsComplete

-----------------------------------------------------------------------------
(* The database.                                                           *)

LEMMA KnownAreTeams == \A c : KnownTeams(c) \subseteq Teams
  BY SyncAssumption DEF KnownTeams, HeldMatches

LEMMA RowOfTyped ==
    ASSUME SyncTypeOK, NEW m \in Matches
    PROVE  RowOf(m) \in Row
  BY DEF SyncTypeOK, RowOf, Row, Codes

\* A match that was ingested is up to date, whatever became of it.
LEMMA IngestBringsUpToDate ==
    ASSUME SyncTypeOK, FinishedStays, NEW m \in Matches, Ingest(m)
    PROVE  /\ UpToDate(m)'
           /\ \A x \in Matches : x # m => stored'[x] = stored[x]
           /\ stored' \in [Matches -> Row] /\ FinishedStays'
<1>1. UNCHANGED status
  BY DEF Ingest, faceitVars
<1>2. CASE Skipped(m)
  BY <1>1, <1>2 DEF Ingest, Skipped, FinishedStays, UpToDate, SyncTypeOK
<1>3. CASE ~ Skipped(m)
  <2>1. stored' = [stored EXCEPT ![m] = RowOf(m)]
    BY <1>3 DEF Ingest
  <2>2. stored'[m] = RowOf(m) /\ \A x \in Matches : x # m => stored'[x] = stored[x]
    BY <2>1 DEF SyncTypeOK
  <2>3. status[m] = "finished" => RowOf(m).kind = "finished"
    BY DEF RowOf
  <2>4. status[m] = "scheduled" => RowOf(m).kind = "fixture"
    BY DEF RowOf
  <2>5. status[m] # "finished" => RowOf(m).kind # "finished" \/ RowOf(m) = stored[m]
    BY DEF RowOf
  <2>6. stored' \in [Matches -> Row]
    BY <2>1, RowOfTyped DEF SyncTypeOK
  <2> QED BY <1>1, <2>2, <2>3, <2>4, <2>5, <2>6 DEF FinishedStays, UpToDate
<1> QED BY <1>2, <1>3

\* Storing a match tells nothing new of other championships.
LEMMA KnownElsewhere ==
    ASSUME NEW m \in Matches, \A x \in Matches : x # m => stored'[x] = stored[x],
           NEW c, c # ChampionshipOf[m]
    PROVE  KnownTeams(c)' = KnownTeams(c)
<1>1. \A x \in Matches : ChampionshipOf[x] = c => stored'[x] = stored[x]
  OBVIOUS
<1>2. {x \in HeldMatches' : ChampionshipOf[x] = c} = {x \in HeldMatches : ChampionshipOf[x] = c}
  BY <1>1 DEF HeldMatches
<1> QED BY <1>2 DEF KnownTeams

\* With the same database the same is known.
LEMMA SameKnown ==
    ASSUME UNCHANGED stored
    PROVE  /\ \A c : KnownTeams(c)' = KnownTeams(c)
           /\ \A c : Entrants(c)' = Entrants(c)
           /\ StoredChampionships' = StoredChampionships
  BY DEF KnownTeams, Entrants, HeldMatches, StoredChampionships
-----------------------------------------------------------------------------
(* The crawl.                                                              *)

LEMMA InitCrawlInv == SyncInit => CrawlInv
<1> SUFFICES ASSUME SyncInit PROVE CrawlInv
  OBVIOUS
<1>1. \A m \in Matches : stored[m] = Absent
  BY DEF SyncInit
<1>2. SyncTypeOK
  <2>1. stored \in [Matches -> Row] /\ codes \in [Matches -> Codes] /\ age \in [Matches -> Ages]
    <3>1. stored \in [Matches -> Row]
      BY DEF SyncInit, Absent, Row, Codes
    <3>2. PICK b \in Codes \X Ages :
            /\ codes = [m \in Matches |-> IF status[m] = "finished" THEN b[1] ELSE "none"]
            /\ age = [m \in Matches |-> IF status[m] = "finished" THEN b[2] ELSE "fresh"]
      BY SyncAssumption DEF SyncInit
    <3>3. b[1] \in Codes /\ b[2] \in Ages /\ "none" \in Codes /\ "fresh" \in Ages
      BY <3>2 DEF Codes, Ages
    <3> QED BY <3>1, <3>2, <3>3
  <2>2. status \in [Matches -> Statuses] /\ quiet \in BOOLEAN
    BY SyncAssumption DEF SyncInit
  <2>3. events \in 0..MaxEvents
    BY SyncAssumption DEF SyncInit
  <2> QED BY <2>1, <2>2, <2>3 DEF SyncInit, SyncTypeOK
<1>3. FinishedStays
  BY <1>1 DEF FinishedStays, Absent
<1> QED
  BY <1>2, <1>3 DEF SyncInit, CrawlInv, NothingLeft, SeenHere, InOrder, UnderWay, CrawlIsComplete

\* FACEIT's side: a change of status ends the quiet, the others touch nothing a
\* crawl relies on.
LEMMA FaceitKeeps ==
    ASSUME CrawlInv, NEW m \in Matches, StatusChange(m) \/ CodesAppear(m) \/ TimePasses(m)
    PROVE  CrawlInv'
<1>c. UNCHANGED <<stored, phase, todo, backfill, crawlVars, done, missed>>
  BY DEF StatusChange, Moves, CodesAppear, TimePasses, syncHistory
<1>d. events' \in 0..MaxEvents
  BY SyncAssumption DEF StatusChange, Moves, CodesAppear, TimePasses, Event, CrawlInv, SyncTypeOK
<1>e. NothingLeft' /\ SeenHere' /\ InOrder'
  BY <1>c DEF CrawlInv, NothingLeft, SeenHere, InOrder, crawlVars
<1>1. CASE StatusChange(m)
  <2>1. PICK from \in Statuses \ {"finished"}, to \in Statuses : Moves(m, from, to)
    BY <1>1 DEF StatusChange, Statuses
  <2>2. status[m] = from /\ status' = [status EXCEPT ![m] = to] /\ quiet' = FALSE
        /\ UNCHANGED <<codes, age>>
    BY <2>1 DEF Moves
  <2>3. SyncTypeOK'
    <3>1. quiet' \in BOOLEAN
      BY <2>2, Zenon
    <3> QED BY <1>c, <1>d, <2>2, <3>1 DEF CrawlInv, SyncTypeOK, crawlVars
  <2>4. FinishedStays'
    BY <1>c, <2>2 DEF CrawlInv, FinishedStays, SyncTypeOK
  <2>5. UnderWay' /\ CrawlIsComplete'
    BY <2>2 DEF UnderWay, CrawlIsComplete
  <2> QED BY <1>e, <2>3, <2>4, <2>5 DEF CrawlInv
<1>2. CASE CodesAppear(m) \/ TimePasses(m)
  <2>1. UNCHANGED <<status, quiet>>
    BY <1>2 DEF CodesAppear, TimePasses, syncHistory
  <2>2. codes' \in [Matches -> Codes] /\ age' \in [Matches -> Ages]
    BY <1>2 DEF CodesAppear, TimePasses, CrawlInv, SyncTypeOK, Codes, Ages
  <2>3. SyncTypeOK'
    BY <1>c, <1>d, <2>1, <2>2 DEF CrawlInv, SyncTypeOK, crawlVars
  <2>4. FinishedStays' /\ \A x : UpToDate(x)' = UpToDate(x)
    BY <1>c, <2>1 DEF CrawlInv, FinishedStays, UpToDate
  <2>5. /\ \A c, t : Listed(c, t)' = Listed(c, t)
        /\ \A c : KnownTeams(c)' = KnownTeams(c) /\ Entrants(c)' = Entrants(c)
    BY <1>c, <2>1, SameKnown DEF Listed
  <2>6. \A c, x : Reached(c, x)' = Reached(c, x)
    BY <1>c, <2>5 DEF Reached
  <2>7. UnderWay' /\ CrawlIsComplete'
    BY <1>c, <2>1, <2>4, <2>5, <2>6 DEF CrawlInv, UnderWay, CrawlIsComplete, crawlVars
  <2> QED BY <1>e, <2>3, <2>4, <2>7 DEF CrawlInv
<1> QED BY <1>1, <1>2

\* Ingesting a match adds to the teams of its own championship only.
LEMMA IngestKeeps ==
    ASSUME CrawlInv, NEW m \in Matches, Ingest(m)
    PROVE  CrawlInv'
<1>t. SyncTypeOK /\ FinishedStays /\ NothingLeft /\ SeenHere /\ InOrder /\ UnderWay /\ CrawlIsComplete
  BY DEF CrawlInv
<1>1. /\ m \in todo /\ todo' = todo \ {m} /\ backfill' = AskedBackfill(m)
      /\ UNCHANGED <<faceitVars, phase, crawlVars, syncHistory, events>>
  BY DEF Ingest
<1>2. /\ UpToDate(m)'
      /\ \A x \in Matches : x # m => stored'[x] = stored[x]
      /\ stored' \in [Matches -> Row] /\ FinishedStays'
  BY <1>t, IngestBringsUpToDate
<1>3. SyncTypeOK'
  <2>1. backfill' = Nothing \/ backfill' \subseteq Matches
    BY <1>1, <1>t DEF AskedBackfill, Backfill, NeedingBackfill, SyncTypeOK
  <2> QED BY <1>1, <1>2, <1>t, <2>1 DEF SyncTypeOK, faceitVars, crawlVars, syncHistory
<1>4. NothingLeft' /\ SeenHere' /\ InOrder'
  BY <1>1, <1>t DEF NothingLeft, SeenHere, InOrder, crawlVars, syncHistory
<1>5. \A x \in Matches : x = m \/ UpToDate(x)' = UpToDate(x)
  BY <1>1, <1>2 DEF UpToDate, faceitVars
<1>6. \A c, t : Listed(c, t)' = Listed(c, t)
  BY <1>1 DEF Listed, faceitVars
<1>7. phase = "crawl" => cur # Nothing /\ ChampionshipOf[m] = cur /\ cur \in cids
  BY <1>1, <1>t DEF SyncTypeOK, NothingLeft, SeenHere
<1>8. \A c : c # ChampionshipOf[m] => KnownTeams(c)' = KnownTeams(c)
  BY <1>2, KnownElsewhere
<1>9. \A c : KnownTeams(c) \subseteq KnownTeams(c)'
  <2>1. HeldMatches \subseteq HeldMatches'
    BY <1>2 DEF HeldMatches, Ingest, RowOf
  <2> QED BY <2>1 DEF KnownTeams
<1>10. UnderWay'
  <2>1. SUFFICES ASSUME quiet', cur' # Nothing PROVE UnderWay'
    BY DEF UnderWay
  <2>2. cur = ChampionshipOf[m] /\ phase = "crawl"
    BY <1>1, <1>7, <1>t, <2>1 DEF SyncTypeOK, crawlVars
  <2>3. \A x \in seen' : x \in todo' \/ <<cur, x>> \in missed' \/ UpToDate(x)'
    BY <1>1, <1>2, <1>5, <1>t, <2>1 DEF UnderWay, crawlVars, syncHistory, SyncTypeOK
  <2>4. Entrants(cur)' \subseteq KnownTeams(cur)' \cup extra'
    <3>1. \A r \in Related[cur] : KnownTeams(r)' = KnownTeams(r)
      BY <1>7, <1>8, <1>t, <2>2, SyncAssumption DEF SyncTypeOK
    <3>2. Entrants(cur) \subseteq KnownTeams(cur) \cup extra
      BY <1>1, <1>t, <2>1 DEF UnderWay, crawlVars, syncHistory
    <3> QED BY <1>1, <1>9, <3>1, <3>2 DEF Entrants, crawlVars
  <2> QED BY <1>1, <1>6, <1>t, <2>1, <2>3, <2>4 DEF UnderWay, crawlVars, syncHistory
<1>11. CrawlIsComplete'
  <2>1. SUFFICES ASSUME phase' = "crawl", quiet', NEW c \in done', NEW x \in Matches,
                        Reached(c, x)'
                 PROVE  UpToDate(x)'
    BY DEF CrawlIsComplete
  <2>2. c # cur /\ c \in done /\ phase = "crawl" /\ quiet
    BY <1>1, <1>7, <1>t, <2>1 DEF InOrder, crawlVars, syncHistory
  <2>3. \A r \in Related[c] \ Playoffs : c \in Playoffs => KnownTeams(r)' = KnownTeams(r)
    BY <1>7, <1>8, <1>t, <2>2 DEF InOrder
  <2>4. KnownTeams(c)' = KnownTeams(c)
    BY <1>7, <1>8, <2>2
  <2>5. Entrants(c)' = Entrants(c)
    BY <2>3, <2>4 DEF Entrants
  <2>6. Reached(c, x)
    BY <1>1, <2>1, <2>5 DEF Reached, syncHistory
  <2>7. x # m
    BY <1>7, <2>2, <2>6 DEF Reached
  <2> QED BY <1>5, <1>t, <2>2, <2>6, <2>7 DEF CrawlIsComplete
<1> QED BY <1>2, <1>3, <1>4, <1>10, <1>11 DEF CrawlInv
\* The steps that store nothing, while FACEIT stands still.
LEMMA CommandKeeps ==
    ASSUME CrawlInv, UNCHANGED <<faceitVars, stored>>,
           \/ \E m \in Matches : IngestFails(m)
           \/ \E t \in Teams : EnumerateTeam(t) \/ EnumerateFails(t)
           \/ \E c \in Championships : BeginRun(c) \/ NoSeedTeams(c)
           \/ FetchSeeds \/ FetchAll \/ NextRound \/ EndRun \/ EndFetch \/ Killed
    PROVE  CrawlInv'
<1>t. SyncTypeOK /\ FinishedStays /\ NothingLeft /\ SeenHere /\ InOrder /\ UnderWay /\ CrawlIsComplete
  BY DEF CrawlInv
<1>a. /\ \A x : UpToDate(x)' = UpToDate(x)
      /\ \A c, t : Listed(c, t)' = Listed(c, t)
      /\ \A c : KnownTeams(c)' = KnownTeams(c) /\ Entrants(c)' = Entrants(c)
  BY SameKnown DEF UpToDate, Listed, faceitVars
<1>b. FinishedStays' /\ status' \in [Matches -> Statuses] /\ codes' \in [Matches -> Codes]
      /\ age' \in [Matches -> Ages] /\ stored' \in [Matches -> Row]
  BY <1>t DEF FinishedStays, SyncTypeOK, faceitVars
<1>c. ASSUME Failure PROVE events' \in 0..MaxEvents
  BY <1>c, <1>t, SyncAssumption DEF Failure, Event, SyncTypeOK
<1>d. \A c, t : Listed(c, t) \subseteq Matches
  BY DEF Listed
<1>e. cur # Nothing => cur \in Championships /\ phase = "crawl"
  BY <1>t DEF SyncTypeOK
<1>n. Nothing \notin Championships
  BY SyncAssumption
\* A call that failed only adds to what the property leaves out.
<1>f. ASSUME missed \subseteq missed', UNCHANGED <<phase, quiet, done>>
      PROVE  CrawlIsComplete'
  BY <1>a, <1>f, <1>t DEF CrawlIsComplete, Reached
<1>1. ASSUME NEW m \in Matches, IngestFails(m) PROVE CrawlInv'
  <2>1. /\ m \in todo /\ todo' = todo \ {m} /\ backfill' = AskedBackfill(m)
        /\ missed' = missed \cup {<<ChampionshipOf[m], m>>} /\ Failure
        /\ UNCHANGED <<phase, crawlVars, quiet, done>>
    BY <1>1 DEF IngestFails
  <2>2. backfill' = Nothing \/ backfill' \subseteq Matches
    BY <2>1, <1>t DEF AskedBackfill, Backfill, NeedingBackfill, SyncTypeOK
  <2>3. <<ChampionshipOf[m], m>> \in Championships \X (Matches \cup Teams)
    BY SyncAssumption
  <2>4. SyncTypeOK'
    BY <1>b, <1>c, <1>t, <2>1, <2>2, <2>3 DEF SyncTypeOK, crawlVars
  <2>5. NothingLeft' /\ SeenHere' /\ InOrder'
    BY <2>1, <1>t DEF NothingLeft, SeenHere, InOrder, crawlVars
  <2>6. cur # Nothing => ChampionshipOf[m] = cur
    BY <1>e, <1>t, <2>1 DEF SeenHere, SyncTypeOK
  <2>7. UnderWay'
    BY <1>a, <1>t, <2>1, <2>6 DEF UnderWay, crawlVars
  <2> QED BY <1>b, <1>f, <2>1, <2>4, <2>5, <2>7 DEF CrawlInv
<1>2. ASSUME NEW t \in Teams, EnumerateTeam(t) PROVE CrawlInv'
  <2>1. /\ t \in batch /\ todo = {} /\ batch' = batch \ {t} /\ processed' = processed \cup {t}
        /\ todo' = Listed(cur, t) \ seen /\ seen' = seen \cup Listed(cur, t)
        /\ UNCHANGED <<phase, backfill, cids, cur, extra, syncHistory, events>>
    BY <1>2 DEF EnumerateTeam
  <2>2. cur # Nothing
    BY <1>t, <2>1 DEF NothingLeft
  <2>3. SyncTypeOK'
    BY <1>b, <1>d, <1>t, <2>1, <2>2 DEF SyncTypeOK, syncHistory
  <2>4. NothingLeft' /\ SeenHere' /\ InOrder'
    BY <1>t, <2>1, <2>2 DEF NothingLeft, SeenHere, InOrder, Listed, syncHistory
  <2>5. UnderWay'
    BY <1>a, <1>t, <2>1 DEF UnderWay, syncHistory
  <2> QED BY <1>b, <1>f, <2>1, <2>3, <2>4, <2>5 DEF CrawlInv, syncHistory
<1>3. ASSUME NEW t \in Teams, EnumerateFails(t) PROVE CrawlInv'
  <2>1. /\ t \in batch /\ todo = {} /\ batch' = batch \ {t} /\ processed' = processed \cup {t}
        /\ missed' = missed \cup {<<cur, t>>} /\ Failure
        /\ UNCHANGED <<phase, todo, backfill, cids, cur, extra, seen, quiet, done>>
    BY <1>3 DEF EnumerateFails
  <2>2. cur # Nothing /\ <<cur, t>> \in Championships \X (Matches \cup Teams)
    BY <1>e, <1>t, <2>1 DEF NothingLeft
  <2>3. SyncTypeOK'
    BY <1>b, <1>c, <1>t, <2>1, <2>2 DEF SyncTypeOK
  <2>4. NothingLeft' /\ SeenHere' /\ InOrder'
    BY <1>t, <2>1, <2>2 DEF NothingLeft, SeenHere, InOrder
  <2>5. UnderWay'
    BY <1>a, <1>t, <2>1 DEF UnderWay
  <2> QED BY <1>b, <1>f, <2>1, <2>3, <2>4, <2>5 DEF CrawlInv
<1>4. ASSUME NEW c \in Championships, BeginRun(c) PROVE CrawlInv'
  <2>1. /\ phase = "crawl" /\ cur = Nothing /\ First(c) /\ cur' = c /\ extra' = RelatedTeams(c)
        /\ UNCHANGED <<phase, todo, backfill, cids, processed, batch, seen, syncHistory, events>>
    BY <1>4 DEF BeginRun
  <2>2. extra' \subseteq Teams /\ c \in cids /\ (c \in Playoffs => cids \subseteq Playoffs)
    BY <2>1, KnownAreTeams DEF RelatedTeams, First
  <2>3. SyncTypeOK'
    BY <1>b, <1>t, <2>1, <2>2 DEF SyncTypeOK, syncHistory
  <2>4. NothingLeft' /\ SeenHere' /\ InOrder'
    BY <1>n, <1>t, <2>1, <2>2 DEF NothingLeft, SeenHere, InOrder, syncHistory
  <2>5. Entrants(c) \subseteq KnownTeams(c) \cup RelatedTeams(c)
    BY DEF Entrants, RelatedTeams
  <2>6. UnderWay'
    BY <1>a, <1>t, <2>1, <2>5 DEF UnderWay, NothingLeft
  <2> QED BY <1>b, <1>f, <2>1, <2>3, <2>4, <2>6 DEF CrawlInv, syncHistory
<1>5. CASE NextRound
  <2>1. /\ cur # Nothing /\ batch' = NextTeams
        /\ UNCHANGED <<phase, todo, backfill, cids, cur, extra, processed, seen, syncHistory, events>>
    BY <1>5 DEF NextRound
  <2>2. batch' \subseteq Teams \ processed
    BY <1>t, <2>1, KnownAreTeams DEF NextTeams, SyncTypeOK
  <2>3. SyncTypeOK'
    BY <1>b, <1>t, <2>1, <2>2 DEF SyncTypeOK, syncHistory
  <2>4. NothingLeft' /\ SeenHere' /\ InOrder' /\ UnderWay'
    BY <1>a, <1>t, <2>1 DEF NothingLeft, SeenHere, InOrder, UnderWay, syncHistory
  <2> QED BY <1>b, <1>f, <2>1, <2>3, <2>4 DEF CrawlInv, syncHistory
\* With no team left to ask, what an entrant's list held was met.
<1>6. CASE EndRun
  <2>1. /\ cur # Nothing /\ todo = {} /\ batch = {} /\ NextTeams = {}
        /\ cids' = cids \ {cur} /\ done' = done \cup {cur} /\ cur' = Nothing
        /\ extra' = {} /\ processed' = {} /\ batch' = {} /\ seen' = {}
        /\ UNCHANGED <<phase, todo, backfill, quiet, missed, events>>
    BY <1>6 DEF EndRun, NoChampionship
  <2>2. SyncTypeOK'
    BY <1>b, <1>e, <1>t, <2>1 DEF SyncTypeOK
  <2>3. NothingLeft' /\ SeenHere' /\ UnderWay'
    BY <2>1 DEF NothingLeft, SeenHere, UnderWay
  <2>4. InOrder'
    BY <1>e, <1>n, <1>t, <2>1, SyncAssumption DEF InOrder
  <2>5. ASSUME quiet, NEW x \in Matches, Reached(cur, x) PROVE UpToDate(x)
    <3>1. PICK t \in Rivals[x] : t \in Entrants(cur) /\ <<cur, t>> \notin missed
      BY <2>5 DEF Reached
    <3>2. t \in processed
      BY <1>t, <2>1, <2>5, <3>1 DEF UnderWay, NextTeams
    <3>3. Listed(cur, t) \subseteq seen
      BY <1>t, <2>1, <2>5, <3>1, <3>2 DEF UnderWay
    <3>4. CASE x \in Listed(cur, t)
      BY <1>t, <2>1, <2>5, <3>3, <3>4 DEF UnderWay, Reached
    <3>5. CASE x \notin Listed(cur, t)
      BY <2>5, <3>1, <3>5 DEF Listed, Reached, UpToDate
    <3> QED BY <3>4, <3>5
  <2>6. CrawlIsComplete'
    BY <1>a, <1>t, <2>1, <2>5 DEF CrawlIsComplete, Reached
  <2> QED BY <1>b, <2>2, <2>3, <2>4, <2>6 DEF CrawlInv
<1>7. CASE FetchSeeds
  <2>1. phase = "off" /\ phase' = "seed" /\ todo' = Seeds /\ backfill' = Nothing
        /\ UNCHANGED <<crawlVars, syncHistory, events>>
    BY <1>7 DEF FetchSeeds
  <2>2. cur = Nothing
    BY <1>t, <2>1 DEF SyncTypeOK
  <2>3. SyncTypeOK'
    BY <1>b, <1>t, <2>1, <2>2, SyncAssumption DEF SyncTypeOK, crawlVars, syncHistory
  <2> QED
    BY <1>b, <1>t, <2>1, <2>2, <2>3 DEF CrawlInv, NothingLeft, SeenHere, InOrder, UnderWay,
       CrawlIsComplete, crawlVars
<1>8. CASE FetchAll
  <2>1. /\ phase = "seed" /\ todo = {} /\ phase' \in {"off", "crawl"}
        /\ cids' = StoredChampionships /\ backfill' = Nothing
        /\ quiet' \in BOOLEAN /\ done' = {} /\ missed' = {}
        /\ UNCHANGED <<todo, cur, extra, processed, batch, seen, events>>
    BY <1>8 DEF FetchAll
  <2>2. StoredChampionships \subseteq Championships
    BY SyncAssumption DEF StoredChampionships, HeldMatches
  <2>3. cur = Nothing
    BY <1>t, <2>1 DEF SyncTypeOK
  <2>4. SyncTypeOK'
    BY <1>b, <1>t, <2>1, <2>2, <2>3 DEF SyncTypeOK
  <2>5. InOrder'
    BY <1>n, <2>1, <2>3, SyncAssumption DEF InOrder
  <2> QED
    BY <1>b, <1>t, <2>1, <2>3, <2>4, <2>5 DEF CrawlInv, NothingLeft, SeenHere, UnderWay,
       CrawlIsComplete
\* The ways a command stops.
<1>9. ASSUME NEW c \in Championships, NoSeedTeams(c) PROVE CrawlInv'
  <2>1. phase' = "off" /\ cids' = {} /\ backfill' = Nothing /\ cur = Nothing
        /\ UNCHANGED <<todo, cur, extra, processed, batch, seen, syncHistory, events>>
    BY <1>9 DEF NoSeedTeams
  <2>2. SyncTypeOK'
    BY <1>b, <1>t, <2>1 DEF SyncTypeOK, syncHistory
  <2> QED
    BY <1>b, <1>t, <2>1, <2>2 DEF CrawlInv, NothingLeft, SeenHere, InOrder, UnderWay, CrawlIsComplete
<1>10. CASE Killed
  <2>1. /\ phase' = "off" /\ todo' = {} /\ cids' = {} /\ backfill' = Nothing /\ Failure
        /\ cur' = Nothing /\ extra' = {} /\ processed' = {} /\ batch' = {} /\ seen' = {}
        /\ UNCHANGED syncHistory
    BY <1>10 DEF Killed, NoChampionship
  <2>2. SyncTypeOK'
    BY <1>b, <1>c, <1>t, <2>1 DEF SyncTypeOK, syncHistory
  <2> QED
    BY <1>b, <2>1, <2>2 DEF CrawlInv, NothingLeft, SeenHere, InOrder, UnderWay, CrawlIsComplete
<1>11. CASE EndFetch
  <2>1. phase' = "off" /\ backfill' = Nothing /\ cur = Nothing
        /\ UNCHANGED <<todo, crawlVars, syncHistory, events>>
    BY <1>11, <1>t DEF EndFetch, SyncTypeOK
  <2>2. SyncTypeOK'
    BY <1>b, <1>t, <2>1 DEF SyncTypeOK, crawlVars, syncHistory
  <2> QED
    BY <1>b, <1>t, <2>1, <2>2 DEF CrawlInv, NothingLeft, SeenHere, InOrder, UnderWay,
       CrawlIsComplete, crawlVars
<1> QED BY <1>1, <1>2, <1>3, <1>4, <1>5, <1>6, <1>7, <1>8, <1>9, <1>10, <1>11

LEMMA NextCrawlInv == CrawlInv /\ [SyncNext]_syncVars => CrawlInv'
<1> SUFFICES ASSUME CrawlInv, [SyncNext]_syncVars PROVE CrawlInv'
  OBVIOUS
<1>1. ASSUME NEW m \in Matches, StatusChange(m) \/ CodesAppear(m) \/ TimePasses(m) PROVE CrawlInv'
  BY <1>1, FaceitKeeps
<1>2. ASSUME NEW m \in Matches, Ingest(m) PROVE CrawlInv'
  BY <1>2, IngestKeeps
<1>3. ASSUME NEW m \in Matches, IngestFails(m) PROVE CrawlInv'
  BY <1>3, CommandKeeps DEF IngestFails
<1>4. ASSUME NEW t \in Teams, EnumerateTeam(t) \/ EnumerateFails(t) PROVE CrawlInv'
  BY <1>4, CommandKeeps DEF EnumerateTeam, EnumerateFails
<1>5. ASSUME NEW c \in Championships, BeginRun(c) \/ NoSeedTeams(c) PROVE CrawlInv'
  BY <1>5, CommandKeeps DEF BeginRun, NoSeedTeams
<1>6. ASSUME FetchSeeds \/ FetchAll \/ NextRound \/ EndRun \/ EndFetch \/ Killed PROVE CrawlInv'
  BY <1>6, CommandKeeps DEF FetchSeeds, FetchAll, NextRound, EndRun, EndFetch, Killed
<1>7. CASE UNCHANGED syncVars
  <2>1. UNCHANGED <<faceitVars, stored, phase, todo, backfill, crawlVars, syncHistory, events>>
    BY <1>7 DEF syncVars
  <2>2. /\ \A x : UpToDate(x)' = UpToDate(x)
        /\ \A c, t : Listed(c, t)' = Listed(c, t)
        /\ \A c : KnownTeams(c)' = KnownTeams(c) /\ Entrants(c)' = Entrants(c)
    BY <2>1, SameKnown DEF UpToDate, Listed, faceitVars
  <2>3. SyncTypeOK' /\ FinishedStays' /\ NothingLeft' /\ SeenHere' /\ InOrder'
    BY <2>1 DEF CrawlInv, SyncTypeOK, FinishedStays, NothingLeft, SeenHere, InOrder, faceitVars,
       crawlVars, syncHistory
  <2>4. UnderWay' /\ CrawlIsComplete'
    BY <2>1, <2>2 DEF CrawlInv, UnderWay, CrawlIsComplete, Reached, crawlVars, syncHistory
  <2> QED BY <2>3, <2>4 DEF CrawlInv
<1> QED BY <1>1, <1>2, <1>3, <1>4, <1>5, <1>6, <1>7 DEF SyncNext, Crawl

\* The crawl keeps its types, and asks no team twice.
THEOREM TypeCorrect == SyncSpec => []SyncTypeOK
<1>1. CrawlInv => SyncTypeOK
  BY DEF CrawlInv
<1> QED BY <1>1, InitCrawlInv, NextCrawlInv, PTL DEF SyncSpec

\* Whatever the schedule, the seeds and the failures, a championship that is
\* through holds every match its crawl could reach.
THEOREM CrawlReachesAll == SyncSpec => []CrawlIsComplete
<1>1. CrawlInv => CrawlIsComplete
  BY DEF CrawlInv
<1> QED BY <1>1, InitCrawlInv, NextCrawlInv, PTL DEF SyncSpec
=============================================================================
