------------------------------- MODULE Season ------------------------------
(***************************************************************************)
(* What the dashboard's pages count (pure.js, app.js): one season of       *)
(* matches, read for a team's sheet (aggregate over leagueMatches), for    *)
(* the record a player is measured against (teamRecords), and for a        *)
(* player's own page (playerSeason), in every division the player was in.  *)
(*                                                                         *)
(* A sample is a set of matches [id, cid, f1, f2, playoff, finished,       *)
(* games], a game [no, map, winner, side, hero]: the map, 0 where none was *)
(* played; the team that won; who played for which team; and the heroes    *)
(* that captures saw them on.  CategoryOf is a map's mode.  Matches end  *)
(* in the order of their ids.                                              *)
(***************************************************************************)
EXTENDS Integers, Sequences, FiniteSets, FiniteSetsExt, Functions

CONSTANT CategoryOf

Unplayed == 0

\* What the export makes of a season: matches and maps told apart by their numbers, two
\* teams with a roster each on every map that was played, and captures of the rostered.
IsGame(m, g) ==
  /\ g.no \in Int /\ g.winner \in {m.f1, m.f2, "nobody"} /\ IsFiniteSet(DOMAIN g.side)
  /\ g.map # Unplayed => g.map \in DOMAIN CategoryOf /\ {g.side[p] : p \in DOMAIN g.side} = {m.f1, m.f2}
  /\ DOMAIN g.hero \subseteq DOMAIN g.side /\ \A p \in DOMAIN g.hero : g.hero[p] # "unseen"
IsSeason(s) ==
  /\ IsFiniteSet(s) /\ \A m, l \in s : m.id = l.id => m = l
  /\ \A m \in s : /\ m.id \in Int /\ m.f1 # m.f2 /\ IsFiniteSet(m.games)
                  /\ \A g \in m.games : IsGame(m, g) /\ \A h \in m.games : g.no = h.no => g = h

\* What a division has played: the regular season's list, which holds
\* finished matches only, and what is over of the bracket.
MatchesAlone(s, cid) == {m \in s : m.cid = cid /\ ~m.playoff /\ m.finished}
leagueMatches(s, cid) == {m \in s : m.cid = cid /\ m.finished}

Divisions(s) == {m.cid : m \in s}
MapGames(ms) == UNION {{[m |-> m, g |-> g] : g \in {h \in m.games : h.map # Unplayed}} : m \in ms}
TeamsIn(r) == {r.g.side[p] : p \in DOMAIN r.g.side}

\* Games and wins: a set of rows, and those of them that were won.
Tally(rows, won) == [games |-> Cardinality(rows), wins |-> Cardinality(rows \cap won)]
WonRows(rows, team) == {r \in rows : r.g.winner = team}

-----------------------------------------------------------------------------
(* A team's sheet *)

\* aggregate: games and wins by map, from the factions.
mapStats(ms, team, map) ==
  LET rows == {r \in MapGames(ms) : team \in {r.m.f1, r.m.f2} /\ r.g.map = map} IN
  Tally(rows, WonRows(rows, team))

\* A combined view has the lists of its divisions one after the other.
scoutData(s, view, team, map) == mapStats(UNION {leagueMatches(s, c) : c \in view}, team, map)

-----------------------------------------------------------------------------
(* A player's page *)

\* Every game a roster names the player in, with the team it was for.
playerGames(s, nick) ==
  UNION {{[cid |-> c, team |-> r.g.side[nick], id |-> r.m.id, no |-> r.g.no, map |-> r.g.map,
           won |-> r.g.winner = r.g.side[nick],
           hero |-> IF nick \in DOMAIN r.g.hero THEN r.g.hero[nick] ELSE "unseen"]
            : r \in {q \in MapGames(leagueMatches(s, c)) : nick \in DOMAIN q.g.side}}
          : c \in Divisions(s)}

\* A team's record by map, or by mode, in a division, whoever played.
teamRecords(s, cid, team, key, k) ==
  LET rows == {r \in MapGames(leagueMatches(s, cid)) : team \in TeamsIn(r) /\ key[r.g.map] = k} IN
  Tally(rows, WonRows(rows, team))

\* The spells of a player: one for each team of a division, and the one the player is in,
\* the first of those that saw the last match.
playerSpells(games) ==
  LET Of(x) == {g \in games : g.cid = x.cid /\ g.team = x.team} IN
  {[cid |-> x.cid, team |-> x.team, games |-> Cardinality(Of(x)),
    first |-> Min({g.id : g \in Of(x)}), last |-> Max({g.id : g \in Of(x)})] : x \in games}

currentSpell(spells) ==
  LET latest == {x \in spells : \A y \in spells : x.last >= y.last} IN
  CHOOSE x \in latest : \A y \in latest : x.first <= y.first

SumOver(S, f) == MapThenSumSet(LAMBDA x : f[x], S)

\* The player's record by a key, beside the records of the teams it was
\* made in.
RecordOf(s, games, key) ==
  LET rows == {key[g.map] : g \in games}
      mine(k) == {g \in games : key[g.map] = k}
      at(k) == {<<g.cid, g.team>> : g \in mine(k)}
      theirs(k, p) == teamRecords(s, p[1], p[2], key, k)
  IN [k \in rows |->
        [games |-> Cardinality(mine(k)), wins |-> Cardinality({g \in mine(k) : g.won}),
         teamGames |-> SumOver(at(k), [p \in at(k) |-> theirs(k, p).games]),
         teamWins |-> SumOver(at(k), [p \in at(k) |-> theirs(k, p).wins])]]
playerMapRecord(s, nick, key) == RecordOf(s, playerGames(s, nick), key)

\* The heroes a player was seen on, with the games on each.
playerHeroPool(s, nick) ==
  LET games == playerGames(s, nick) IN
  [h \in {g.hero : g \in games} \ {"unseen"} |->
     Tally({g \in games : g.hero = h}, {g \in games : g.won})]

\* A record by mode is kept by CategoryOf, one by map by the map itself.
MapKey == [map \in DOMAIN CategoryOf |-> map]

\* The rates of so few games are not told.
PLAYER_MIN == [mode |-> 5, map |-> 5, hero |-> 3]
NoRate == -1
playerRate(wins, games, floor) == IF games >= floor THEN (200 * wins + games) \div (2 * games) ELSE NoRate

\* The newest match first, and the maps of a match in their order.
NewerMap(x, y) == x.id > y.id \/ (x.id = y.id /\ x.no < y.no)
Sorted(games) ==
  [n \in 1..Cardinality(games) |-> CHOOSE x \in games : Cardinality({y \in games : NewerMap(y, x)}) = n - 1]

playerSeason(s, nick) ==
  LET games == playerGames(s, nick) IN
  [games |-> Sorted(games),
   spells |-> playerSpells(games), modes |-> playerMapRecord(s, nick, CategoryOf),
   maps |-> playerMapRecord(s, nick, MapKey), heroes |-> playerHeroPool(s, nick)]

\* The page: what the tiles tell of all the maps, the timeline of whoever moved, the
\* rates and the last ten maps; a page of no games is one of dashes.
Recent(list) == SubSeq(list, 1, Min({10, Len(list)}))
NoCurrentTeam == "no current team"
PageOf(p) ==
  LET total == SumOver(DOMAIN p.maps, [k \in DOMAIN p.maps |-> p.maps[k].games])
      wins == SumOver(DOMAIN p.maps, [k \in DOMAIN p.maps |-> p.maps[k].wins])
      Rates(rows, floor) == [k \in DOMAIN rows |-> playerRate(rows[k].wins, rows[k].games, floor)]
  IN [total |-> total, wins |-> wins, rate |-> playerRate(wins, total, 1),
      team |-> IF p.spells = {} THEN NoCurrentTeam ELSE currentSpell(p.spells).team,
      timeline |-> IF Cardinality(p.spells) > 1 THEN p.spells ELSE {},
      modes |-> Rates(p.modes, PLAYER_MIN.mode), maps |-> Rates(p.maps, PLAYER_MIN.map),
      heroes |-> Rates(p.heroes, PLAYER_MIN.hero), recent |-> Recent(p.games)]
renderPlayer(s, nick) == PageOf(playerSeason(s, nick))

-----------------------------------------------------------------------------

\* The page tells one story: the tile of all maps is all of them, and its wins those of
\* the maps; the team it says the player is in is the one of the newest map, and the
\* timeline, where there is one, ends with it; the newest maps are on it.
PageAgrees(s, nick, named) ==
  \A page \in {renderPlayer(s, nick)}, games \in {playerGames(s, nick)} :
     /\ page.total = Cardinality(named) /\ page.wins = Cardinality({g \in games : g.won})
     /\ named = {} => page.rate = NoRate /\ page.recent = <<>> /\ page.team = NoCurrentTeam
     /\ named # {} => \E g \in games : g.id = page.recent[1].id /\ g.team = page.team
     /\ \A x \in page.timeline : x.first <= x.last /\ x.last <= page.recent[1].id
     /\ \A g \in games \ Range(page.recent) :
          Len(page.recent) = 10 /\ \A r \in Range(page.recent) : r.id >= g.id

\* One season, counted alike on every page.  A player's record by mode, by
\* map and by spell adds up to the games the rosters name the player in,
\* playoffs included; beside each row stands the record of the teams it was
\* played for, which holds the player's own games and wins; and the sheet of
\* a team agrees with the record its players are measured against.
PagesAgree(s) ==
  LET nicks == UNION {UNION {DOMAIN g.side : g \in m.games} : m \in s}
      teams == {m.f1 : m \in s} \cup {m.f2 : m \in s}
      Named(n) == UNION {{<<m.id, g.no>> : g \in {h \in m.games : h.map # Unplayed /\ n \in DOMAIN h.side}}
                           : m \in {l \in s : l.finished}}
      Sums(n, rec) == SumOver(DOMAIN rec, [k \in DOMAIN rec |-> rec[k].games]) = Cardinality(Named(n))
      Inside(rec) == \A k \in DOMAIN rec : /\ rec[k].games <= rec[k].teamGames
                                           /\ rec[k].wins <= rec[k].teamWins
                                           /\ rec[k].games - rec[k].wins <= rec[k].teamGames - rec[k].teamWins
  IN /\ \A n \in nicks :
          /\ PageAgrees(s, n, Named(n))
          /\ \A by \in {"mode", "map"} :
               \A rec \in {playerMapRecord(s, n, IF by = "mode" THEN CategoryOf ELSE MapKey)} :
                 Sums(n, rec) /\ Inside(rec)
          /\ \A spells \in {playerSpells(playerGames(s, n))} :
               SumOver(spells, [x \in spells |-> x.games]) = Cardinality(Named(n))
          /\ \A heroes \in {playerHeroPool(s, n)} :
               \A h \in DOMAIN heroes : heroes[h].wins <= heroes[h].games
                                      /\ heroes[h].games <= Cardinality(Named(n))
     /\ \A t \in teams, mp \in DOMAIN CategoryOf :
          LET sheet == scoutData(s, Divisions(s), t, mp) IN
          /\ sheet.games = SumOver(Divisions(s), [c \in Divisions(s) |-> teamRecords(s, c, t, MapKey, mp).games])
          /\ sheet.wins = SumOver(Divisions(s), [c \in Divisions(s) |-> teamRecords(s, c, t, MapKey, mp).wins])
=============================================================================
