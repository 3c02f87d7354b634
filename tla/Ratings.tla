------------------------------ MODULE Ratings ------------------------------
(***************************************************************************)
(* How the dashboard ranks players and teams (pure.js efficiencyRatings,   *)
(* rankPlayers, mergePlayerStats, powerRankings, compareAxes; app.js       *)
(* renderPlayers, renderPlayer, renderCompare).                            *)
(*                                                                         *)
(* A division is a sequence of roster rows [nick, team, role, maps, elo,   *)
(* stats, heroes]: stats are the averages of FACEIT, or NoStats; heroes    *)
(* the rounds of each hero the player was captured on.  Ratings are in     *)
(* hundredths, elo points in tenths, and a lead of more than Far is taken  *)
(* for one of Far: bounds of the model on the precision of the code's      *)
(* floating point.                                                         *)
(***************************************************************************)
EXTENDS Season

CONSTANTS SeatOf,       \* hero -> seat
          Far,
          Expected      \* how often a team so many tenths of elo ahead wins, in thousandths

\* One of the two wins.
ASSUME RatingsAssumption ==
  /\ Far \in Nat /\ Expected \in [-Far..Far -> 0..1000]
  /\ \A d \in -Far..Far : Expected[-d] = 1000 - Expected[d]

NoStats == [games |-> 0]
NoValue == -100000
NoSample == <<>>
NoRole == "NoRole"

Roles == {"Tank", "Damage", "Support"}
ROLE_SEATS == [r \in Roles |-> CASE r = "Tank" -> {"Tank"} [] r = "Damage" -> {"Hitscan", "FlexDPS"}
                                 [] r = "Support" -> {"MainSupport", "FlexSupport"}]
FirstSeat == [r \in Roles |-> CASE r = "Tank" -> "Tank" [] r = "Damage" -> "Hitscan" [] r = "Support" -> "MainSupport"]
KEYS == {"dmg", "heal", "mit", "kd"}
RateKeys == KEYS \cup {"eff"}
LB_MIN_GAMES == 5
EFF_GROUP_MIN == 4

\* What the export makes of a division.
IsRow(p) ==
  /\ p.role \in Roles \cup {NoRole} /\ p.nick \in Int /\ p.current \in BOOLEAN /\ p.elo \in Int /\ p.maps \in Int
  /\ IsFiniteSet(DOMAIN p.heroes) /\ \A h \in DOMAIN p.heroes : p.heroes[h] \in Int
  /\ p.stats.games \in Nat /\ (p.stats # NoStats => \A k \in KEYS : p.stats[k] \in Int)
IsDivision(rows) == rows \in Seq(Range(rows)) /\ \A i \in DOMAIN rows : IsRow(rows[i])

-----------------------------------------------------------------------------
(* The peer group of a player *)

\* The most played seat of those the role allows; nobody uncaptured has one.
seatOfPlayer(p) ==
  LET played(s) == SumOver({h \in DOMAIN p.heroes : SeatOf[h] = s}, p.heroes)
      seats == {s \in ROLE_SEATS[p.role] : \E h \in DOMAIN p.heroes : SeatOf[h] = s}
  IN IF p.role = NoRole \/ p.heroes = <<>> THEN NoRole
     ELSE IF seats = {} THEN FirstSeat[p.role]
     ELSE CHOOSE s \in seats : \A r \in seats : played(s) >= played(r)

effGroupOf(p) == IF seatOfPlayer(p) = NoRole THEN p.role ELSE seatOfPlayer(p)

\* The captures of the teams of the view, by team and nick.
playerCaptures(row, inView) == IF inView THEN row ELSE [row EXCEPT !.heroes = <<>>]

-----------------------------------------------------------------------------
(* Efficiency *)

Sampled(p) == p.stats.games >= LB_MIN_GAMES
Root(n) == CHOOSE r \in 0..n : r * r <= n /\ (r + 1) * (r + 1) > n

\* Against the mean of those the stat is known of, in standard deviations.
effZ(rows, ids, k) ==
  LET told == {i \in ids : rows[i].stats[k] # NoValue}
      n == Cardinality(told)
      of == [i \in told |-> rows[i].stats[k]]
      sum == SumOver(told, of)
      spread == n * SumOver(told, [i \in told |-> of[i] * of[i]]) - sum * sum
  IN [i \in IF spread = 0 THEN {} ELSE told |->
        (1000 * (n * of[i] - sum)) \div Root(100 * spread)]

\* Every player against the group: four of five maps or more, or nobody is rated.
RatedIn(rows, maps, least) ==
  LET sampled == {i \in DOMAIN rows : rows[i].stats.games >= maps /\ rows[i].stats # NoStats}
      Mean(i, group, peers, z, comps) ==
        [group |-> group, peers |-> peers, comps |-> comps,
         eff |-> IF comps = {} THEN NoValue
                 ELSE SumOver(comps, [k \in comps |-> z[k][i]]) \div Cardinality(comps)]
      Stats(i, group, peers, z) == Mean(i, group, peers, z, {k \in DOMAIN z : i \in DOMAIN z[k]})
      Against(i, group, peers) ==
        Stats(i, group, peers, IF i \in sampled /\ Cardinality(peers) >= least
                               THEN [k \in KEYS |-> effZ(rows, peers, k)] ELSE <<>>)
      InGroups(group) ==
        [i \in DOMAIN rows |->
           Against(i, group[i], {j \in sampled : group[j] = group[i] /\ group[i] # NoRole})]
  IN InGroups([i \in DOMAIN rows |-> effGroupOf(rows[i])])

\* Mutant: rates players of any sample.
AnyoneRated(rows) == RatedIn(rows, 0, EFF_GROUP_MIN)
efficiencyRatings(rows) == RatedIn(rows, LB_MIN_GAMES, EFF_GROUP_MIN)

\* The player page: the cohort of the player's division, seats as the division in view
\* knows them; the player's first row.
playerEffFor(rows, nick, inView) ==
  LET effs == efficiencyRatings([i \in DOMAIN rows |-> playerCaptures(rows[i], inView)])
      i == Min({j \in DOMAIN rows : rows[j].nick = nick})
  IN effs[i].eff

\* The compare page does not seat anyone.
compareRoster(rows) == efficiencyRatings([i \in DOMAIN rows |-> [rows[i] EXCEPT !.heroes = <<>>]])
teamEffSummary(rows, effs, team) ==
  LET rated == {i \in DOMAIN rows : rows[i].team = team /\ effs[i].eff # NoValue} IN
  [n |-> Cardinality(rated),
   mean |-> IF rated = {} THEN NoValue
            ELSE SumOver(rated, [i \in rated |-> effs[i].eff]) \div Cardinality(rated)]

-----------------------------------------------------------------------------
(* The two tables of players *)

Value(p, eff, key) ==
  CASE key = "eff" -> eff
    [] key = "elo" -> p.elo
    [] key = "maps" -> p.maps
    [] key \in KEYS -> IF p.stats = NoStats THEN NoValue ELSE p.stats[key]

\* Greatest first, unknown last, then by nick, then as they were.
Ahead(rows, value, i, j) ==
  \/ value[j] = NoValue /\ value[i] # NoValue
  \/ value[j] # NoValue /\ value[i] # NoValue /\ value[i] > value[j]
  \/ value[i] = value[j] /\ rows[i].nick < rows[j].nick
  \/ value[i] = value[j] /\ rows[i].nick = rows[j].nick /\ i < j
ByValue(ids, value, rows) ==
  [n \in 1..Cardinality(ids) |->
     CHOOSE i \in ids : Cardinality({j \in ids : Ahead(rows, value, j, i)}) = n - 1]

\* The leaderboard leaves out whom a rate column has too few maps of.
rankPlayers(rows, effs, key, role) ==
  LET ids == {i \in DOMAIN rows : /\ role \in {"All", rows[i].role}
                                  /\ key \in RateKeys => rows[i].stats = NoStats \/ Sampled(rows[i])}
  IN ByValue(ids, [i \in ids |-> Value(rows[i], effs[i].eff, key)], rows)

\* By role: the players of a seat, those with too few maps at the foot.
drawRole(rows, effs, key, seat) ==
  LET ids == {i \in DOMAIN rows : rows[i].role # NoRole /\ seatOfPlayer(rows[i]) = seat}
  IN ByValue(ids, [i \in ids |-> IF key \in KEYS /\ ~Sampled(rows[i]) THEN NoValue
                                 ELSE Value(rows[i], effs[i].eff, key)], rows)

unseated(rows) == {i \in DOMAIN rows : rows[i].role # NoRole /\ seatOfPlayer(rows[i]) = NoRole}

\* By team: who plays for it now, then who also played.
drawTeam(rows, team) ==
  LET ids == {i \in DOMAIN rows : rows[i].team = team}
      First(i, j) == IF rows[i].current = rows[j].current THEN i < j ELSE rows[i].current
  IN [n \in 1..Cardinality(ids) |-> CHOOSE i \in ids : Cardinality({j \in ids : First(j, i)}) = n - 1]

\* The tab as its controls stand, which each keep their place when another view is drawn.
Tab(rows, effs, ui) ==
  CASE ui.view = "team" -> [t \in {rows[i].team : i \in DOMAIN rows} |-> drawTeam(rows, t)]
    [] ui.view = "role" -> [table |-> drawRole(rows, effs, ui.roleSort, ui.seat), foot |-> unseated(rows)]
    [] ui.view = "rank" -> rankPlayers(rows, effs, ui.sort, ui.role)
renderPlayers(rows, ui) == Tab(rows, efficiencyRatings(rows), ui)

-----------------------------------------------------------------------------
(* A player of two teams *)

\* Averages weighted by the maps behind them, k/d from the totals.
Nearest(n, d) == (2 * n + d) \div (2 * d)
mergePlayerStats(stats) ==
  LET ok == {i \in DOMAIN stats : stats[i].games > 0}
      Whole(of) == SumOver(ok, [i \in ok |-> of[i] * stats[i].games])
      games == SumOver(ok, [i \in ok |-> stats[i].games])
      elims == Whole([i \in ok |-> stats[i].elims])
      deaths == Whole([i \in ok |-> stats[i].deaths])
  IN IF ok = {} THEN NoStats
     ELSE [games |-> games, dmg |-> Nearest(Whole([i \in ok |-> stats[i].dmg]), games),
           elims |-> Nearest(10 * elims, games), deaths |-> Nearest(10 * deaths, games),
           kd |-> IF deaths > 0 THEN Nearest(100 * elims, deaths) ELSE NoValue]

-----------------------------------------------------------------------------
(* Teams: a set of matches [at, f1, f2, walkover, winner, games], a game its winner; at  *)
(* is the place of a match among those in the order they ended.                        *)

SERIES_ELO_K == 32
MAP_ELO_K == 12
ELO_START == 15000
POWER_MIN_N == 5

IsLadder(ms) ==
  /\ IsFiniteSet(ms) /\ \A m, l \in ms : m.at = l.at => m = l
  /\ \A m \in ms : m.at \in Int /\ m.f1 # m.f2 /\ m.walkover \in BOOLEAN /\ m.games \in Seq(Range(m.games))

Tenths(x) == IF x >= 0 THEN x \div 100 ELSE -((-x) \div 100)
Lead(d) == Max({-Far, Min({Far, d})})
eloNext(ra, rb, scoreA, k) == ra + Tenths(k * (1000 * scoreA - Expected[Lead(ra - rb)]))

Both(pair, scoreA, k) == <<eloNext(pair[1], pair[2], scoreA, k), eloNext(pair[2], pair[1], 1 - scoreA, k)>>

Score(m, winner) == IF winner = m.f1 THEN 1 ELSE 0

\* The maps of a match, one after the other; a walkover is a series, and no map.
OverMaps(pair, m) ==
  LET upTo[n \in 0..Len(m.games)] ==
        IF n = 0 THEN pair
        ELSE IF m.games[n] \in {m.f1, m.f2} THEN Both(upTo[n - 1], Score(m, m.games[n]), MAP_ELO_K)
        ELSE upTo[n - 1]
  IN IF m.walkover THEN pair ELSE upTo[Len(m.games)]

PlayedOut(r, m) ==
  LET decided == m.winner \in {m.f1, m.f2}
      n == IF decided THEN 1 ELSE 0
      maps == OverMaps(<<r[m.f1].mapRating, r[m.f2].mapRating>>, m)
      series == IF decided THEN Both(<<r[m.f1].rating, r[m.f2].rating>>, Score(m, m.winner), SERIES_ELO_K)
                ELSE <<r[m.f1].rating, r[m.f2].rating>>
  IN [r EXCEPT ![m.f1] = [rating |-> series[1], mapRating |-> maps[1], n |-> @.n + n],
               ![m.f2] = [rating |-> series[2], mapRating |-> maps[2], n |-> @.n + n]]

\* In the order they were played.
ByTime(ms) == [n \in 1..Cardinality(ms) |-> CHOOSE m \in ms : Cardinality({l \in ms : l.at < m.at}) = n - 1]
Unrated(ms) == [t \in UNION {{m.f1, m.f2} : m \in ms} |-> [rating |-> ELO_START, mapRating |-> ELO_START, n |-> 0]]
powerRankings(ms) ==
  LET ordered == ByTime(ms)
      upTo[n \in 0..Len(ordered)] == IF n = 0 THEN Unrated(ms) ELSE PlayedOut(upTo[n - 1], ordered[n])
  IN upTo[Len(ordered)]

Ranked(ratings) == {t \in DOMAIN ratings : ratings[t].n > 0}
Provisional(ratings) == {t \in Ranked(ratings) : ratings[t].n < POWER_MIN_N}

\* The compare page.  A team is what its matches and its captures give the eight axes:
\* a fraction, or NoSample, and the sample behind it.
COMPARE_CAPS == [mapwr |-> 1, pool |-> 10, banpress |-> 2, pick |-> 1, eff |-> 50, families |-> 12,
                 heropool |-> 15, swaps |-> 3]
COMPARE_FLOORS == [mapwr |-> 5, pool |-> 5, banpress |-> 5, pick |-> 5, eff |-> 3, families |-> 3,
                   heropool |-> 20, swaps |-> 3]

Cap(id, poolCap) == IF id = "pool" /\ poolCap > 0 THEN poolCap ELSE COMPARE_CAPS[id]
AxisEnd(id, side, poolCap) ==
  LET val == (100 * side.raw[1]) \div (side.raw[2] * Cap(id, poolCap)) IN
  IF side.raw = NoSample THEN [val |-> NoValue, ok |-> FALSE]
  ELSE [val |-> IF id = "eff" THEN Max({0, Min({100, 50 + val \div 2})}) ELSE Min({val, 100}),
        ok |-> side.n >= COMPARE_FLOORS[id]]

compareAxes(teamA, teamB, poolCap) ==
  [id \in {k \in DOMAIN COMPARE_CAPS : teamA[k].raw # NoSample \/ teamB[k].raw # NoSample} |->
     [a |-> AxisEnd(id, teamA[id], poolCap), b |-> AxisEnd(id, teamB[id], poolCap)]]

\* Which two teams: those of the link, or the first of the division; and the controls.
Another(names, t) == names[Min({i \in DOMAIN names : names[i] # t})]
OpenedOn(names, pair) ==
  LET a == IF pair[1] \in Range(names) THEN pair[1] ELSE names[1]
  IN <<a, IF pair[2] \in Range(names) THEN pair[2] ELSE Another(names, a)>>
CompareClicks(names, pair) ==
  {<<v, IF pair[2] = v THEN Another(names, v) ELSE pair[2]>> : v \in Range(names)}
    \cup {<<IF pair[1] = v THEN Another(names, v) ELSE pair[1], v>> : v \in Range(names)}
    \cup {<<pair[2], pair[1]>>}

-----------------------------------------------------------------------------

Controls(view, key, role, seat) == [view |-> view, sort |-> key, role |-> role, roleSort |-> key, seat |-> seat]
\* Who stands before whom.
Before(list) == {<<list[p[1]], list[p[2]]>> : p \in {q \in (DOMAIN list) \X (DOMAIN list) : q[1] < q[2]}}

\* No view loses anybody or shows anybody twice: the teams hold every row, the seats and
\* the foot every player with a role, and the leaderboards by role the one of all.
EverybodyOnce(rows) ==
  LET Seats == UNION {ROLE_SEATS[r] : r \in Roles} IN
  /\ \A cards \in {renderPlayers(rows, Controls("team", "eff", "All", "Tank"))} :
       /\ \A t \in DOMAIN cards : IsInjective(cards[t])
       /\ SumOver(DOMAIN cards, [t \in DOMAIN cards |-> Len(cards[t])]) = Len(rows)
  /\ \A seated \in {[s \in Seats |-> renderPlayers(rows, Controls("role", "dmg", "All", s))]} :
       \A i \in DOMAIN rows :
         Cardinality({s \in Seats : i \in Range(seated[s].table)}) + (IF i \in seated["Tank"].foot THEN 1 ELSE 0)
           = IF rows[i].role = NoRole THEN 0 ELSE 1
  /\ \A ranks \in {[r \in Roles \cup {"All"} |-> renderPlayers(rows, Controls("rank", "elo", r, "Tank"))]} :
       /\ Len(ranks["All"]) = Len(rows) /\ IsInjective(ranks["All"])
       /\ \A r \in Roles : /\ Range(ranks[r]) = {i \in DOMAIN rows : rows[i].role = r} /\ IsInjective(ranks[r])
                           /\ Before(ranks[r]) \subseteq Before(ranks["All"])

\* Whoever is rated has the maps, and three such peers; a rating says better or worse
\* than peers, so not everybody of a group is above average; being no better than a peer
\* in any stat never rates a player higher; and the page of a player gives the rating
\* the table of the players' own division does.
RatedAmongPeers(rows, effs) ==
  LET Rated == {i \in DOMAIN rows : effs[i].eff # NoValue}
      NoBetter(i, j) == \A k \in effs[i].comps : rows[i].stats[k] <= rows[j].stats[k]
  IN /\ \A i \in Rated : Sampled(rows[i]) /\ Cardinality(effs[i].peers) >= 4
     /\ \A i \in Rated : \E j \in effs[i].peers : j \notin Rated \/ effs[j].eff <= 0
     /\ \A i, j \in Rated :
          effs[i].group = effs[j].group /\ effs[i].comps = effs[j].comps /\ NoBetter(i, j)
            => effs[i].eff <= effs[j].eff
     /\ \A i \in DOMAIN rows : (\A j \in DOMAIN rows : rows[j].nick = rows[i].nick => i <= j)
                                 => playerEffFor(rows, rows[i].nick, TRUE) = effs[i].eff

\* The two tables never disagree on who is ahead, nor put a sample below the floor above
\* a real one.
TablesConcur(rows, effs) ==
  \A key \in RateKeys, seat \in UNION {ROLE_SEATS[r] : r \in Roles} :
    \A ranks \in {rankPlayers(rows, effs, key, "All")}, inSeat \in {drawRole(rows, effs, key, seat)} :
      LET Known == {i \in DOMAIN rows : Sampled(rows[i]) /\ Value(rows[i], effs[i].eff, key) # NoValue}
          InSeat == {i \in Known : seatOfPlayer(rows[i]) = seat}
      IN /\ Range(inSeat) \cap Known = InSeat /\ InSeat \subseteq Range(ranks)
         /\ Before(inSeat) \cap (Known \X Known) = Before(ranks) \cap (InSeat \X InSeat)
         /\ \A a, b \in DOMAIN inSeat : a < b /\ inSeat[b] \in Known => inSeat[a] \in Known

PlayersAreFair(rows) ==
  /\ \A effs \in {efficiencyRatings(rows)} : RatedAmongPeers(rows, effs) /\ TablesConcur(rows, effs)
  /\ EverybodyOnce(rows)

\* A merged row lies between its parts, and in whichever order they are merged.
IsLine(l) == l.games \in Nat /\ (l.games > 0 => l.dmg \in Nat /\ l.elims \in Nat /\ l.deaths \in Nat)
MergeIsFair(stats) ==
  LET whole == mergePlayerStats(stats)
      some == {i \in DOMAIN stats : stats[i].games > 0}
      kds == {Nearest(100 * stats[i].elims, stats[i].deaths) : i \in {j \in some : stats[j].deaths > 0}}
  IN some # {} =>
       /\ whole.dmg \in Min({stats[i].dmg : i \in some})..Max({stats[i].dmg : i \in some})
       /\ (\A i \in some : stats[i].deaths > 0) => whole.kd \in Min(kds)..Max(kds)
       /\ \A to \in Bijection(DOMAIN stats, DOMAIN stats) :
            mergePlayerStats([i \in DOMAIN stats |-> stats[to[i]]]) = whole

\* Elo points only change hands, of the series and of the maps; a team of walkovers has
\* no map rating of its own; nobody unbeaten is rated below a team that never won.
EloIsMoved(ms) ==
  LET r == powerRankings(ms)
      teams == DOMAIN r
      lost(t) == {m \in ms : t \in {m.f1, m.f2} /\ m.winner # t}
      won(t) == {m \in ms : m.winner = t}
  IN /\ SumOver(teams, [t \in teams |-> r[t].rating]) = ELO_START * Cardinality(teams)
     /\ SumOver(teams, [t \in teams |-> r[t].mapRating]) = ELO_START * Cardinality(teams)
     /\ \A t \in teams : (\A m \in ms : t \in {m.f1, m.f2} => m.walkover) => r[t].mapRating = ELO_START
     /\ \A t, u \in Ranked(r) : lost(t) = {} /\ won(u) = {} => r[t].rating >= r[u].rating

\* A comparison: what each side has of each axis, and the teams of the division.
IsSide(side) ==
  \A id \in DOMAIN COMPARE_CAPS :
    /\ side[id].n \in Nat
    /\ side[id].raw = NoSample \/ /\ side[id].raw \in Int \X Nat /\ side[id].raw[2] > 0
                                  /\ id # "eff" => side[id].raw[1] >= 0
IsComparison(c) ==
  /\ IsSide(c.a) /\ IsSide(c.b) /\ c.poolCap \in Nat
  /\ c.names \in Seq(Range(c.names)) /\ \E s, t \in Range(c.names) : s # t

\* Two teams are compared alike: either way around, the greater drawn no smaller, and
\* dimmed below the floor; and the page opened on a pair of the division, or on teams
\* it does not have, compares two teams and keeps to it whatever is clicked: unless the
\* link has the division's first team after one it does not have, which is set against
\* itself.
CompareIsEven(c) ==
  LET axes == compareAxes(c.a, c.b, c.poolCap)
      Greater(x, y) == x.raw[1] * y.raw[2] >= y.raw[1] * x.raw[2]
      Two(pair) == pair[1] # pair[2] /\ {pair[1], pair[2]} \subseteq Range(c.names)
      Links == {p \in (Range(c.names) \cup {"gone"}) \X (Range(c.names) \cup {"gone"}) :
                  p[2] # (IF p[1] \in Range(c.names) THEN p[1] ELSE c.names[1])}
  IN /\ compareAxes(c.b, c.a, c.poolCap) = [id \in DOMAIN axes |-> [a |-> axes[id].b, b |-> axes[id].a]]
     /\ \A id \in DOMAIN axes :
          /\ axes[id].a.val # NoValue => axes[id].a.val \in 0..100
          /\ axes[id].a.val # NoValue /\ axes[id].b.val # NoValue /\ Greater(c.a[id], c.b[id])
               => axes[id].a.val >= axes[id].b.val
     /\ \A pair \in Links :
          LET first == OpenedOn(c.names, pair)
              second == CompareClicks(c.names, first)
          IN Two(first) /\ \A p \in second : Two(p) /\ \A q \in CompareClicks(c.names, p) : Two(q)
=============================================================================
