------------------------------ MODULE MCParts ------------------------------
(***************************************************************************)
(* Instances for TLC of the parts that stand alone.  A behaviour is one of *)
(* one part: the others stay in their first state.  The parts that are     *)
(* functions of their input have no steps; their inputs are the initial    *)
(* values of `sample`.                                                     *)
(***************************************************************************)
EXTENDS Refresh, Upload, Review, Capture, Console, Draft, Bracket, Scrims, Host, League, Scout, Sheet, Ratings, TLC

CONSTANT Parts      \* the parts to check
VARIABLES part, sample

R == INSTANCE Resolve
A == INSTANCE Attribute
B == INSTANCE Boards
Q == INSTANCE Queues
T == INSTANCE Recorder
W == INSTANCE Reprocess
F == INSTANCE Feed

-----------------------------------------------------------------------------
(* The constants of the parts                                               *)

Visitors == {"r1", "r2", "r3"}

\* What a player sees of one map: two breaks, a short first round and a second one.
TwoRounds ==
    <<[play |-> FALSE, from |-> 0, to |-> 45], [play |-> TRUE, from |-> 45, to |-> 100],
      [play |-> FALSE, from |-> 100, to |-> 130], [play |-> TRUE, from |-> 130, to |-> 190]>>
Late == 160..185
Errors == {-10, 0, 10}

Pool == <<"Control", "Control", "Escort", "Hybrid", "Push", "Flashpoint", "Escort">>
Roster == <<"Tank", "Damage", "Damage", "Support">>
Entrants == <<"x", "y", "z">>
Ban(t, h, n) == [team |-> t, hero |-> h, order |-> n]
Played3 ==
    {[f1 |-> "x", f2 |-> "y", at |-> 1, gno |-> 1, map |-> 1, picker |-> "x",
      bans |-> {Ban("x", 1, 1), Ban("y", 2, 2)}],
     [f1 |-> "x", f2 |-> "y", at |-> 1, gno |-> 2, map |-> 3, picker |-> "y",
      bans |-> {Ban("y", 3, 1), Ban("x", 4, 2)}],
     [f1 |-> "z", f2 |-> "y", at |-> 2, gno |-> 1, map |-> 2, picker |-> "nobody",
      bans |-> {Ban("z", 2, 1), Ban("y", 1, 2)}]}
ToTwoOrThree == {2, 3}
AllOrOne == {0, 1}

\* Eight places, six teams: the upper bracket, then the lower one, then the final.
From(g, r, x, y) == [group |-> g, round |-> r, from |-> <<x, y>>]
SeedNo(n) == [by |-> "seed", n |-> n]
WonBy(m) == [by |-> "winner", n |-> m]
LostBy(m) == [by |-> "loser", n |-> m]
Eight ==
    <<From(1, 1, SeedNo(1), SeedNo(8)), From(1, 1, SeedNo(4), SeedNo(5)),
      From(1, 1, SeedNo(2), SeedNo(7)), From(1, 1, SeedNo(3), SeedNo(6)),
      From(1, 2, WonBy(1), WonBy(2)), From(1, 2, WonBy(3), WonBy(4)),
      From(1, 3, WonBy(5), WonBy(6)),
      From(2, 1, LostBy(1), LostBy(2)), From(2, 1, LostBy(3), LostBy(4)),
      From(2, 2, LostBy(6), WonBy(8)), From(2, 2, LostBy(5), WonBy(9)),
      From(2, 3, WonBy(10), WonBy(11)), From(2, 4, LostBy(7), WonBy(12)),
      From(1, 4, WonBy(7), WonBy(13))>>

Squads == "t1" :> {"a1", "a2", "a3", "a4"} @@ "t2" :> {"b1", "b2", "b3"}
Five == {{"a1", "a2", "a3", "s1", "s2"}, {"a1", "a2", "s1", "s2", "s3"},
         {"a1", "b1", "b2", "b3", "s1"}, {"a1", "s3", "b1", "b2", "s1"}}
OnTheHud == {<<{"u1", "u2", "u3"}, f>> : f \in Five} \cup {<<f, {"u1", "u2"}>> : f \in Five}

TwoIn == <<"Control", "Escort", "Escort">>

Seats == <<"Tank", "Tank", "Hitscan", "Hitscan", "Hitscan", "MainSupport", "FlexSupport">>

\* About how often a lead of so many tenths wins: the slope of the curve at even.
Even == [d \in -2000..2000 |-> IF d >= 0 THEN 500 + (1439 * d) \div 10000
                                         ELSE 500 - (1439 * (-d)) \div 10000]
SeatNames == <<"Hitscan", "FlexDPS">>

-----------------------------------------------------------------------------
(* The inputs of the functions                                              *)

Ticked == [runs : [1..4 -> {6, 7, 9}], first : BOOLEAN, flip : 1..36, minRun : {3}]

Fix(kind, at, now) == <<[kind |-> kind, at |-> at, now |-> now]>>
Fixes == {<<>>, Fix("segment", 10, 2), Fix("segment", 30, 0), Fix("segment", 30, 3),
          Fix("segment", 10, 0), Fix("hero", 10, 2), Fix("player", 10, 15)}
SecondLooks ==
  LET Again(strips, gallery) ==
        [reads : [1..3 -> {0, 1, 2, R!ABSENT, R!UNSELECTED}], again : [1..3 -> {0, 1, 2}], saved : strips,
         gallery : gallery]
  IN Again({{1}, {2, 3}}, {FALSE}) \cup Again({{1, 2}, {1, 3}, {1, 2, 3}}, {TRUE})
Reattributions ==
  LET Operators(corrected, attributed, other, status) ==
        [corrected : {corrected}, attributed : {attributed}, other : {other}, status : {status},
         lineups : {{"a", "b"}, {"a"}}, was : [{"a", "b"} -> {{}, {2}, 1..5}], stored : BOOLEAN,
         now : [{"a", "b"} -> {{}, {2, 4}, 1..5}], framed : {{"a", "b"}, {"b"}},
         flipped : BOOLEAN, unseen : {{}, {3}}]
  IN Operators(FALSE, TRUE, FALSE, "unreviewed") \cup Operators(TRUE, TRUE, FALSE, "unreviewed")
     \cup Operators(FALSE, TRUE, TRUE, "unreviewed") \cup Operators(FALSE, TRUE, FALSE, "excluded")
     \cup Operators(FALSE, FALSE, FALSE, "unreviewed")
ReadsOfASlot == [reads : [1..5 -> {1, 2, R!ABSENT, R!DEAD}], cs : Fixes]

Leavings == [leaver : 1..5, from : {2, 3}, legible : [1..5 -> {0, 50, 100}], flipped : BOOLEAN]

Columns == {<<k, d, x, n, 2 * x, u>> : k \in {0, 1, 7}, d \in {0, 7}, x \in {0, 4}, n \in {0, 1}, u \in {0, 1, 9}}
BoardRows == {r \in B!DrawnRows(Columns) : B!Drawable(r)}

GameOf(club) == [region : {"NA", "EMEA"}, club : {club}, day : 0..3, coded : BOOLEAN,
                 captured : BOOLEAN]
Feeds == [wipe : {0, 2}, regional : {<<>>, "NA" :> 1, "NA" :> 3},
          games : {{g, h} : g \in GameOf("a"), h \in GameOf("b")}]

\* Two games of a match and one of another region, of divisions and teams whose names
\* contain each other.
CodeOf(no, region, tier, teams, day) ==
  [code |-> no, key |-> no, region |-> region, division |-> {region, tier}, teams |-> teams, day |-> day]
Ledgers == UNION {[K -> [status : {"failed", "captured"}, fails : {1, 3}]] : K \in SUBSET {1, 3}}
Backlogs ==
  [codes : {<<CodeOf(1, "EMEA", "Master", {{"Red"}, {"Red", "Two"}}, a),
              CodeOf(2, "EMEA", "Master", {{"Red"}, {"Two"}}, a),
              CodeOf(3, "NA", "Master", {{"Two"}, {"Blue"}}, b)>> : a \in 1..3, b \in 1..3},
   attempts : Ledgers, wipe : {1}, regional : {<<>>, "NA" :> 2},
   asked : {[divisions |-> {{"NA"}, {"Master"}, {"EMEA", "Open"}}, teams |-> {{"Red"}, {"Two"}}]}]

Replay(c, patch, secs, valid, key) ==
  [code |-> c, ours |-> c # "q", valid |-> valid, secs |-> secs, patch |-> patch, key |-> key]
FirstPages ==
  {<<Replay("c1", 2, a, v, k), Replay("q", 2, 300, TRUE, 10)>> :
     a \in {0, 100, 300}, v \in BOOLEAN, k \in {-1, 0, 10}}
NextPages ==
  {<<Replay("c2", p, 300, TRUE, k), Replay("c3", 1, 300, TRUE, 10)>> : p \in {1, 2}, k \in {-1, 8}}
Sites == [pages : {<<f, n>> : f \in FirstPages, n \in NextPages} \cup
                  {<<f, <<>>, <<Replay("c4", 1, 300, TRUE, 9)>>>> : f \in FirstPages},
          want : {1, 2}, gradeable : BOOLEAN, ledger : {{}, {"c1"}}, seen : {{}, {"c2"}}, out : {{}, {"c3"}}]

Lineups == {"p" :> "x" @@ "q" :> "y", "p" :> "y" @@ "q" :> "x", "q" :> "x" @@ "r" :> "y"}
Opening == [no : {1}, map : {0, 2}, winner : {"x"}, side : Lineups, hero : {<<>>}]
Second == [no : {2}, map : {1, 2, 3}, winner : {"x", "y"}, side : Lineups, hero : {<<>>, "q" :> "Ana"}]
MatchesOf(id, cids, firsts, states) ==
    {[id |-> id, cid |-> c, f1 |-> "x", f2 |-> "y", playoff |-> b, finished |-> f, games |-> {g, h}] :
        c \in cids, b \in BOOLEAN, f \in states, g \in firsts, h \in Second}
\* A match that is under way has maps already, which no page counts.
LiveOrOver(ms) == {m \in ms : m.finished \/ \A g \in m.games : g.winner = "x" /\ g.hero = <<>>}
Seasons ==
    {{m, n} : m \in LiveOrOver(MatchesOf(1, {1}, {g \in Opening : g.side["q"] = "y"}, BOOLEAN)),
              n \in {k \in MatchesOf(2, {1, 2}, {g \in Opening : g.map = 2 /\ g.side["q"] = "x"}, {TRUE}) :
                        \A g \in k.games : g.no = 2 => g.map # 1 /\ "r" \notin DOMAIN g.side}}

\* A captured match of x and y, and one of x and z, for whom one of y's players is now.
SeenOn == {<<>>, "p" :> "Ana" @@ "q" :> "Ana", "p" :> "Ana" @@ "r" :> "Ana" @@ "q" :> "Juno", "q" :> "Juno"}
OneGame(no, maps, winners, other) ==
  [no : {no}, map : maps, winner : winners, side : {"p" :> "x" @@ "r" :> "x" @@ "q" :> other}, hero : SeenOn]
AMatch(id, cid, other, playoff, finished, games) ==
  [id |-> id, cid |-> cid, f1 |-> "x", f2 |-> other, playoff |-> playoff, finished |-> finished, games |-> games]
LeagueSeasons ==
  [season : {{AMatch(1, 1, "y", FALSE, TRUE, {g, h}), AMatch(2, c, "z", b, f, IF f THEN {k} ELSE {})} :
               g \in OneGame(1, {1, 2}, {"x", "y", "nobody"}, "y"), h \in OneGame(2, {0, 3}, {"y"}, "y"),
               c \in {1, 2}, b \in BOOLEAN, f \in BOOLEAN, k \in OneGame(1, {2}, {"x", "z"}, "z")},
   view : {{1}, {2}, {1, 2}}, floor : {2}, asked : {"q"}]

\* Games of a match: who bans which of two heroes and a third first, whose map it is.
Drafted(map, picker, winner, one, two, opened) ==
  [map |-> map, picker |-> picker, winner |-> winner, code |-> winner = "x",
   bans |-> {Ban("x", one, IF picker = "x" THEN 1 ELSE 2), Ban("y", two, IF picker = "x" THEN 2 ELSE 1)},
   open |-> IF opened = {} THEN <<>> ELSE "x" :> opened]
Drafts ==
  {Drafted(1, "x", "x", 1, 2, {"o1", "o2"}), Drafted(1, "x", "y", 1, 3, {"o1", "o3"}),
   Drafted(2, "y", "x", 2, 1, {"o2", "o3"}), Drafted(2, "y", "y", 3, 1, {}),
   Drafted(3, "x", "x", 1, 2, {})}
Numbered(no, g) == [no |-> no] @@ g
Fixture(id, playoff, one, two) ==
  [id |-> id, at |-> id, f1 |-> "x", f2 |-> "y", playoff |-> playoff, winner |-> one.winner,
   games |-> {Numbered(1, one), Numbered(2, two)}]
Sheets == {{Fixture(1, FALSE, g, h), Fixture(2, b, k, l)} : g, h, k, l \in Drafts, b \in BOOLEAN}

Faced == [open : {{1, 3, 4, 6, 7}, {2, 3, 4, 6, 7}, {1, 3, 4, 5, 6}, {1, 2, 5, 6, 7}},
          vs : {{1, 3}, {1, 5, 6}, {1, 2}}, won : {TRUE}]
Pools == UNION {[D -> {2, 4}] : D \in SUBSET {1, 3, 4, 5}}
PlansOf(games) == [games : games, plan : {{1}, {1, 2, 3}, {1, 3, 5, 6}}, scouts : {<<>>}]
PoolsOf(pools) == [games : {<<[open |-> {1, 3, 4, 6, 7}, vs |-> {1, 3}, won |-> TRUE]>>}, plan : {{}},
                   scouts : {"x" :> [rounds |-> 4, pool |-> a] @@ "y" :> [rounds |-> 8, pool |-> b] :
                               a, b \in pools}]
Scouted == PlansOf([1..3 -> Faced]) \cup PlansOf({<<f, f, g, h>> : f, g, h \in Faced}) \cup PoolsOf(Pools)

\* Five players of a division: what FACEIT says of each, and who is captured on what.
Lines == {NoStats} \cup {[games |-> g, dmg |-> v, heal |-> 2, mit |-> 4 - v, kd |-> k] :
                           g \in {4, 5}, v \in {1, 4}, k \in {NoValue, 2}}
Full(v) == [games |-> 5, dmg |-> v, heal |-> 2, mit |-> 4 - v, kd |-> 2]
OnRoster(i, line, hero, role) ==
  [nick |-> i, team |-> IF i <= 2 THEN "x" ELSE "y", role |-> role, maps |-> line.games, current |-> i # 3,
   elo |-> IF i = 1 THEN NoValue ELSE 1500 + i, stats |-> line,
   heroes |-> IF hero = 0 THEN <<>> ELSE hero :> 3]
Divisions5 ==
  {[i \in 1..5 |-> OnRoster(i, IF i <= 2 THEN one[i] ELSE two[i - 2], IF i <= n THEN 1 ELSE h,
                              IF i = 1 THEN role ELSE "Damage")] :
     one \in Lines \X {l \in Lines : l.games # 4 \/ l = [Full(4) EXCEPT !.games = 4]},
     role \in {"Damage", "Support", NoRole}, n \in {0, 4, 5}, h \in {0, 2},
     two \in {<<Full(1), Full(3), Full(4)>>, <<Full(1), Full(1), Full(1)>>, <<Full(3), Full(3), Full(4)>>}}
Merged == [1..3 -> {NoStats} \cup [games : {1, 5}, elims : {0, 10, 17}, deaths : {0, 7}, dmg : {3, 40}]]
MatchAt(at, f1, f2) ==
  [at : {at}, f1 : {f1}, f2 : {f2}, walkover : BOOLEAN, winner : {f1, f2, "nobody"},
   games : {<<f1>>, <<f1, f2, "nobody", f2>>}]
Ladders == {{m, n, k} : m \in MatchAt(1, "x", "y"), n \in MatchAt(2, "y", "z"), k \in MatchAt(3, "z", "x")}
Axis(num, den, n) == [raw |-> <<num, den>>, n |-> n]
NoAxis == [raw |-> NoSample, n |-> 0]
SideOf(num, n) ==
  [mapwr |-> IF n = 0 THEN NoAxis ELSE Axis(num, 10, n), pool |-> Axis(num, 1, n), banpress |-> Axis(num, 5, n),
   pick |-> Axis(num, 12, n), eff |-> IF n < 6 THEN NoAxis ELSE Axis(10 * (num - 5), 1, n - 4),
   families |-> IF n < 3 THEN NoAxis ELSE Axis(num, 1, n), heropool |-> Axis(2 * num, 1, 4 * n),
   swaps |-> Axis(num, 4, n)]
Compared == {[a |-> SideOf(i, m), b |-> SideOf(j, n), poolCap |-> k, names |-> names] :
               i, j \in {0, 3, 5, 10}, m, n \in {0, 2, 5, 7}, k \in {0, 8},
               names \in {<<"x", "y">>, <<"z", "x", "y">>}}

Samples(p) ==
    CASE p = "timeline"  -> Ticked
      [] p = "resolve"   -> ReadsOfASlot
      [] p = "reprocess" -> SecondLooks
      [] p = "renamed"   -> Reattributions
      [] p = "attribute" -> Leavings
      [] p = "rows"      -> BoardRows
      [] p = "boards"    -> B!ScrimMaps
      [] p = "queues"    -> Feeds
      [] p = "feed"      -> Backlogs
      [] p = "scrape"    -> Sites
      [] p = "fresh"     -> [1..5 -> F!RefreshEvents]
      [] p = "season"    -> Seasons
      [] p = "league"    -> LeagueSeasons
      [] p = "recorder"  -> T!Recordings(3)
      [] p = "plays"     -> T!Plays
      [] p = "import"    -> T!Imports(3)
      [] p = "sheet"     -> Sheets
      [] p = "scout"     -> Scouted
      [] p = "players"   -> Divisions5
      [] p = "merged"    -> Merged
      [] p = "elo"       -> Ladders
      [] p = "compare"   -> Compared

\* What the functions are given is what they may be given.
ASSUME SamplesAssumption ==
    /\ \A s \in Feeds : Q!IsFeed(s, {"NA", "EMEA"}, {"a", "b"})
    /\ \A s \in Backlogs : F!IsBacklog(s)
    /\ \A s \in Sites : F!IsSite(s)
    /\ \A s \in Seasons : IsSeason(s)
    /\ \A x \in LeagueSeasons : IsLeague(x)
    /\ \A s \in Scouted : IsScouted(s)
    /\ \A s \in Sheets : AreDrafts(s)
    /\ \A s \in Divisions5 : IsDivision(s)
    /\ \A s \in Merged : \A i \in DOMAIN s : IsLine(s[i])
    /\ \A s \in Ladders : IsLadder(s)
    /\ \A s \in Compared : IsComparison(s)

Functions ==
    {"timeline", "resolve", "reprocess", "renamed", "attribute", "rows", "boards", "queues", "feed",
     "scrape", "fresh", "season", "league", "recorder", "plays", "import", "sheet", "scout",
     "players", "merged", "elo", "compare"}
Moving == {"refresh", "upload", "review", "capture", "console", "draft", "bracket", "scrims", "host"}

ASSUME PartsAssumption == Parts \subseteq Functions \cup Moving

-----------------------------------------------------------------------------
Still(p, v) == IF part = p THEN TRUE ELSE UNCHANGED v

PartsInit ==
    /\ part \in Parts
    /\ \/ part \in Functions /\ sample \in Samples(part)
       \/ part \in Moving /\ sample = <<>>
    /\ Init /\ UploadInit /\ ReviewInit /\ CaptureInit /\ ConsoleInit /\ DraftInit /\ BracketInit
    /\ ScrimsInit /\ HostInit
    /\ part # "host" => ~host.disabled
    /\ part # "capture" => ~client.playing /\ ~client.media /\ client.interval = 30

PartsNext ==
    /\ \/ part = "refresh" /\ Next
       \/ part = "upload"  /\ UploadNext
       \/ part = "review"  /\ ReviewNext
       \/ part = "capture" /\ CaptureNext
       \/ part = "console" /\ ConsoleNext
       \/ part = "draft"   /\ DraftNext
       \/ part = "bracket" /\ BracketNext
       \/ part = "scrims"  /\ ScrimsNext
       \/ part = "host"    /\ HostNext
    /\ Still("refresh", vars) /\ Still("upload", uploadVars) /\ Still("review", reviewVars)
    /\ Still("capture", captureVars) /\ Still("console", consoleVars) /\ Still("draft", draftVars)
    /\ Still("bracket", rows) /\ Still("scrims", scrimVars) /\ Still("host", hostVars)
    /\ UNCHANGED <<part, sample>>

PartsSpec ==
    PartsInit /\ [][PartsNext]_<<part, sample, vars, uploadVars, reviewVars, captureVars,
                                 consoleVars, draftVars, rows, scrimVars, hostVars>>

-----------------------------------------------------------------------------
(* The properties of the functions, said of the samples                     *)

\* timeline.js, resolve.js, emit.js, assign.js, attribute.js, reprocess_*.js: a pixel
\* read wrong makes no round, what is uploaded is what two reads in a row confirmed, a
\* leaver hands no heroes to other players; a second look at the heroes of a map loses
\* nothing, and one at its names only what is known no more.
ShippedIsConfirmed ==
    /\ part = "timeline" => TicksMakeNoRound(sample)
    /\ part = "resolve" => R!ShippedIsConfirmed(sample)
    /\ part = "attribute" => A!AttributionSurvivesLeaver(sample)
    /\ part = "reprocess" => W!NothingIsLost(sample)
    /\ part = "renamed" => W!OperatorsWordStands(sample)

\* scoreboard.js, boardreads.js: a number changes its column only where a column was lost
\* and a separator came out as a bar before it, and what is said of a player in a round is
\* what that player did in it.
BoardReadsAreTrue ==
    /\ part = "rows" => B!ColumnsStay(sample)
    /\ part = "boards" => B!DeltasAreTrue(sample)

\* pure.js, queue.js, session.js, server.js, scrape_codes.js: every page means the same
\* codes, and the bot is given what the operator was shown.
QueuesAgree ==
    /\ part = "queues" => Q!QueuesAgree(sample)
    /\ part = "feed" => F!RunsWhatIsShown(sample)
    /\ part = "scrape" => F!OffersAreFresh(sample)
    /\ part = "fresh" => F!FeedIsAsTold(sample)

\* pure.js, app.js: one season is counted alike on every page.
SeasonAgrees ==
    /\ part = "season" => PagesAgree(sample)
    /\ part = "league" => MatchesAreFound(sample) /\ TablesAgree(sample)

\* app.js renderScoutBody: the panels of a sheet do not contradict each other, and what
\* is drawn from captures follows from games.
SheetAddsUp ==
    /\ part = "sheet" => PanelsAgree(sample)
    /\ part = "scout" => CapturesSpeakTrue(sample)

\* app.js:248: the field a team's bans are compared with is that of "the team ban counts it
\* is the baseline FOR", not one "that never played the bracket"; app.js:1615: on the glance
\* card it lines up "with the shown counts".  So every ban the card shows is in it.
GlanceLinesUp ==
    part = "sheet" =>
      \A m \in sample : \A t \in {m.f1, m.f2} : \A v \in 1..(Cardinality(sample) + 1) :
        UNION GlanceShows(aggregate(scoutMatches(sample, t, v), t).games, t) \subseteq DOMAIN LeagueBans(sample)

\* pure.js, app.js: players and teams are measured alike on every page.
RatingsAreFair ==
    /\ part = "players" => PlayersAreFair(sample)
    /\ part = "merged" => MergeIsFair(sample)
    /\ part = "elo" => EloIsMoved(sample)
    /\ part = "compare" => CompareIsEven(sample)

\* recorder.js: a chunk does what the recording did, with the code at hand, and
\* is reported as played when all of it was sent; run.js importWithDiagnosis:
\* an answer of the vision model loses no replay that came up.
PlayedAsRecorded ==
    /\ part = "recorder" => T!PlayedAsRecorded(sample)
    /\ part = "plays" => T!PlayedIsSent(sample)
    /\ part = "import" => T!ImportIsFair(sample)

-----------------------------------------------------------------------------
(* The two properties whose evaluation is long, said of their own part      *)

\* app.js renderSim: every line of the tree is a draft the league allows.
DraftsAreLegal == part = "draft" => DraftIsLegal

\* pure.js playoffPlacements, app.js renderPlayoffs: a place the table shows stands, in
\* the end every team has one, and the bracket shows every match in its column.
PlacementsStand == [][part = "bracket" => PlacesKept /\ (BracketIsShown)']_rows
=============================================================================
