------------------------------- MODULE Sheet -------------------------------
(***************************************************************************)
(* The sheet of a team (app.js renderScoutBody, renderPrepBody): what its  *)
(* drafts say of it.  aggregate counts them over the matches of the chosen *)
(* window; the panels read that count, and two of them (the glance card    *)
(* and the ban tendencies) compare with a field, each with its own.        *)
(*                                                                         *)
(* A sample is a set of matches [id, at, f1, f2, playoff, winner, games],  *)
(* a game [no, map, picker, winner, bans, code, open]: the map, 0 where    *)
(* none was played; the bans [team, hero, order]; whether it has a replay  *)
(* code; and the opening of every team it was captured for.  A count is    *)
(* kept as its evidence, the games it was counted from.                    *)
(***************************************************************************)
EXTENDS Season

AllOfThem == 0

\* What the export makes of drafts: matches of two teams, a team's told apart by when they
\* were, and of each team one ban at most on a map.
IsDraft(m, g) ==
  /\ IsFiniteSet(g.bans)
  /\ \A b \in g.bans : b.team \in {m.f1, m.f2} /\ b.order \in Int /\ \A c \in g.bans : b.team = c.team => b = c
AreDrafts(ms) ==
  /\ IsFiniteSet(ms) /\ \A m, l \in ms : m.at = l.at /\ {m.f1, m.f2} \cap {l.f1, l.f2} # {} => m = l
  /\ \A m \in ms : /\ m.at \in Int /\ m.f1 # m.f2 /\ IsFiniteSet(m.games)
                   /\ \A g \in m.games : IsDraft(m, g)

TheirMatches(ms, t) == {m \in ms : t \in {m.f1, m.f2}}

-----------------------------------------------------------------------------
(* The window *)

\* The control's value: clamped, and no limit from the last match on.
makeRecency(v, total, sliderMax) ==
  LET n == Min({Max({v, 1}), sliderMax}) IN IF n >= total THEN AllOfThem ELSE n

\* The newest n matches of a team, its finished playoff matches with them.
LastMatches(ms, t, n) ==
  {m \in TheirMatches(ms, t) : n = AllOfThem \/ Cardinality({k \in TheirMatches(ms, t) : k.at > m.at}) < n}

\* The control reaches back fifteen matches, or as far as the team goes.
scoutMatches(ms, t, v) ==
  LET total == Cardinality(TheirMatches(ms, t)) IN LastMatches(ms, t, makeRecency(v, total, Max({15, total})))

-----------------------------------------------------------------------------
(* The count *)

OwnBans(r, t) == {b \in r.g.bans : b.team = t}
\* The ban of a team: its first one in draft order.
DraftBan(r, t) == {b \in OwnBans(r, t) : \A c \in OwnBans(r, t) : b.order <= c.order}
Banned(rows, t) == UNION {{b.hero : b \in DraftBan(r, t)} : r \in rows}
\* Evidence by key.
By(keys, rows, keysOf) == [k \in keys |-> {r \in rows : k \in keysOf[r]}]

aggregate(ms, t) ==
  LET rows == MapGames(TheirMatches(ms, t))
      picked == {r \in rows : r.g.picker = t}
      first == {r \in rows : \E b \in DraftBan(r, t) : b.order = 1}
      MapOf == [r \in rows |-> {r.g.map}]
      BanOf == [r \in rows |-> {b.hero : b \in DraftBan(r, t)}]
      \* The opponent banned first, and this was the reply to it.
      RepliedTo == [r \in rows |-> {c.hero : c \in {c \in r.g.bans : /\ c.team # t /\ c.order = 1
                                                                     /\ \E b \in DraftBan(r, t) : b.order = 2}}]
      OpenedWith == [r \in rows |-> IF t \in DOMAIN r.g.open THEN {b.hero : b \in OwnBans(r, t)} ELSE {}]
      Keys(keysOf) == UNION {keysOf[r] : r \in rows}
      Maps(some) == {r.g.map : r \in some}
  IN [games |-> rows,
      won |-> {r \in rows : r.g.winner = t},
      results |-> {[id |-> m.id, won |-> m.winner = t] : m \in TheirMatches(ms, t)},
      mapStats |-> By(Maps(rows), rows, MapOf),
      mapsPicked |-> By(Maps(picked), picked, MapOf),
      bans |-> By(Banned(rows, t), rows, BanOf),
      first |-> first,
      firstBans |-> By(Banned(first, t), first, BanOf),
      perMapPick |-> By(Maps(picked), {r \in picked : DraftBan(r, t) # {}}, MapOf),
      pickFirstBan |-> By(Maps(picked \cap first), picked \cap first, MapOf),
      counter |-> By(Keys(RepliedTo), rows, RepliedTo),
      banOpen |-> By(Keys(OpenedWith), rows, OpenedWith),
      replays |-> {r \in rows : r.g.code}]

Count(evidence) == [k \in DOMAIN evidence |-> Cardinality(evidence[k])]
Total(counts) == SumOver(DOMAIN counts, counts)

\* What a list of the n greatest may hold, whichever way ties fall.
Tops(counts, n) ==
  {S \in kSubset(Min({n, Cardinality(DOMAIN counts)}), DOMAIN counts) :
     \A k \in S, l \in DOMAIN counts \ S : counts[k] >= counts[l]}

-----------------------------------------------------------------------------
(* The panels that read it *)

pctOf(wins, games) == IF games = 0 THEN 0 ELSE (200 * wins + games) \div (2 * games)

\* The head of the sheet: the newest results, the maps of the window, and how many of
\* all their maps were captured, which no window cuts.
SheetHead(ms, shown, t, a) ==
  [form |-> {m \in shown : Cardinality({k \in shown : k.at > m.at}) < 7},
   maps |-> Cardinality(a.games), gwins |-> Cardinality(a.won),
   scouted |-> Cardinality({r \in MapGames(TheirMatches(ms, t)) : t \in DOMAIN r.g.open}),
   allMaps |-> Cardinality(MapGames(TheirMatches(ms, t)))]

\* One map of the sheet: its games with their result, whose pick it was and the code,
\* and the bans made on it.
MapHistory(shown, t, mp) == {r \in MapGames(shown) : r.g.map = mp}
MapRecord(shown, t, mp) ==
  [games |-> MapHistory(shown, t, mp), wins |-> WonRows(MapHistory(shown, t, mp), t)]
BansHere(shown, t, mp) ==
  [h \in UNION {{b.hero : b \in OwnBans(r, t)} : r \in MapHistory(shown, t, mp)} |->
     Cardinality({r \in MapHistory(shown, t, mp) : h \in {b.hero : b \in OwnBans(r, t)}})]

WORST_MIN_GAMES == 2
WORST_MARGIN == 10
worstMaps(a, t) ==
  LET maps == {mp \in DOMAIN a.mapStats : Cardinality(a.mapStats[mp]) >= WORST_MIN_GAMES}
      games == [mp \in maps |-> Cardinality(a.mapStats[mp])]
      wr == [mp \in maps |-> pctOf(Cardinality(WonRows(a.mapStats[mp], t)), games[mp])]
      weight == Total([mp \in maps |-> wr[mp] * games[mp]])
      baseline == (2 * weight + Total(games)) \div (2 * Total(games))
      weak == {mp \in maps : wr[mp] <= baseline - WORST_MARGIN}
  IN IF maps = {} THEN {} ELSE UNION Tops([mp \in weak |-> -wr[mp]], 4)

\* What they open with when they ban a hero: what most of the openings share.
WhatTheyOpen(a, t, hero) ==
  LET games == a.banOpen[hero]
      seen(h) == Cardinality({r \in games : h \in r.g.open[t]})
  IN IF Cardinality(games) < 2 THEN {}
     ELSE {h \in UNION {r.g.open[t] : r \in games} : 10 * seen(h) >= 6 * Cardinality(games)}

\* The maps they both pick and open the ban on, and the one worth telling.
SignatureSetups(a) == DOMAIN a.pickFirstBan
ToldSetup(a) == UNION Tops([mp \in {k \in SignatureSetups(a) : Cardinality(a.pickFirstBan[k]) >= 2}
                             |-> Cardinality(a.pickFirstBan[mp])], 1)

\* The prep sheet: bans to expect, picks to expect.
ExpectedBans(a) == Tops(Count(a.bans), 4)
ExpectedPicks(a) == Tops(Count(a.mapsPicked), 4)

-----------------------------------------------------------------------------
(* The panels that count again *)

\* The glance card: every ban of theirs, their most common opener among the four.
GlanceBans(rows, t) ==
  [h \in UNION {{b.hero : b \in OwnBans(r, t)} : r \in rows} |->
     SumOver(rows, [r \in rows |-> Cardinality({b \in OwnBans(r, t) : b.hero = h})])]

Openers(rows, t) ==
  LET drafts == {r \in rows : OwnBans(r, t) # {}}
      first == [h \in Banned(drafts, t) |-> Cardinality({r \in drafts : \E b \in DraftBan(r, t) : b.hero = h})]
  IN {h \in UNION Tops(first, 1) : Cardinality(drafts) >= 3 /\ first[h] >= 2}

GlanceShows(rows, t) ==
  LET four == Tops(GlanceBans(rows, t), 4)
      opener == Openers(rows, t)
      With(o, S) == IF o \in S THEN {S}
                    ELSE {{o} \cup T : T \in {U \in Tops(GlanceBans(rows, t), 3) : U \subseteq S}}
  IN IF opener = {} THEN four ELSE UNION {With(p[1], p[2]) : p \in opener \X four}

\* Mutant: the field is the regular season, as it was before the team reads took in
\* the playoffs.
BaseOfTheGroup(ms, firstOnly) ==
  LET bans == {x \in MapGames({m \in ms : ~m.playoff}) \X UNION {r.g.bans : r \in MapGames(ms)} :
                 x[2] \in x[1].g.bans /\ (firstOnly => x[2].order = 1)}
  IN [h \in {x[2].hero : x \in bans} |-> Cardinality({x \in bans : x[2].hero = h})]

\* The bans of the field by hero: the same matches the team's are counted in.
divBanBaseFrom(ms, firstOnly) ==
  LET bans == {x \in MapGames(ms) \X UNION {r.g.bans : r \in MapGames(ms)} :
                 x[2] \in x[1].g.bans /\ (firstOnly => x[2].order = 1)}
  IN [h \in {x[2].hero : x \in bans} |-> Cardinality({x \in bans : x[2].hero = h})]

\* The glance card's own field: the bans of the regular season, while the team's own are of
\* its playoff matches too.
LeagueBans(ms) == divBanBaseFrom({m \in ms : ~m.playoff}, FALSE)

\* A ban the card calls a signature of the team if it shows it: its share of the team's
\* bans is 1.6 times its share of the league's, and a twentieth above it.
IsSignature(bans, league, h) ==
  LET all == Total(bans)
      theirs == IF h \in DOMAIN league THEN league[h] ELSE 0
      ofAll == IF Total(league) = 0 THEN 1 ELSE Total(league)
  IN /\ bans[h] >= 2
     /\ 10 * (bans[h] * ofAll) >= 16 * (theirs * all)
     /\ 20 * (bans[h] * ofAll - theirs * all) >= all * ofAll

\* A team's share of a hero against the field's.
banLiftRows(counts, base, least) ==
  LET lift(h) == [n |-> counts[h] * Total(base), d |-> base[h] * Total(counts)] IN
  [h \in {k \in DOMAIN counts : counts[k] >= least} |->
     CASE h \notin DOMAIN base -> "new"
       [] h \in DOMAIN base -> LET l == lift(h) IN
            IF 2 * l.n >= 3 * l.d THEN "more than most"
            ELSE IF 10 * l.n <= 6 * l.d THEN "less than most" ELSE "typical"]

Tendency(ms, t, a) == banLiftRows(Count(a.bans), divBanBaseFrom(ms, FALSE), 2)
FirstTendency(ms, t, a) == banLiftRows(Count(a.firstBans), divBanBaseFrom(ms, TRUE), 2)

-----------------------------------------------------------------------------

\* One sheet does not contradict itself.  Every window is as long as it says; the three
\* tallies of a team's bans are the same, and what the glance card shows is what the prep
\* sheet expects; the maps add up to the games; a first ban is no reply, and a setup is
\* both a pick and a first ban; a map to target is one they do worse on than on another;
\* and the heroes they open with after a ban were together in a game.
SheetAgrees(ms, t, v) ==
  LET shown == scoutMatches(ms, t, v)
      a == aggregate(shown, t)
      Better(mp, mq) ==
        Cardinality(WonRows(a.mapStats[mp], t)) * Cardinality(a.mapStats[mq])
          < Cardinality(WonRows(a.mapStats[mq], t)) * Cardinality(a.mapStats[mp])
      BansOn(mp, h) == LET here == BansHere(shown, t, mp) IN IF h \in DOMAIN here THEN here[h] ELSE 0
  IN /\ Cardinality(shown) = Min({v, Cardinality(TheirMatches(ms, t))})
     /\ GlanceBans(a.games, t) = Count(a.bans)
     /\ GlanceShows(a.games, t) \subseteq ExpectedBans(a)
     /\ SheetHead(ms, shown, t, a).scouted <= SheetHead(ms, shown, t, a).allMaps
     /\ \A mp \in DOMAIN a.mapStats :
          LET here == MapRecord(shown, t, mp) IN here.games = a.mapStats[mp] /\ here.wins = a.mapStats[mp] \cap a.won
     /\ \A h \in DOMAIN a.bans :
          Cardinality(a.bans[h]) = SumOver(DOMAIN a.mapStats, [mp \in DOMAIN a.mapStats |-> BansOn(mp, h)])
     /\ \A o \in DOMAIN a.counter : a.counter[o] \cap a.first = {}
     /\ \A mp \in ToldSetup(a) : a.pickFirstBan[mp] \subseteq a.mapsPicked[mp] \cap a.first
     /\ \A mp \in worstMaps(a, t) : \E mq \in DOMAIN a.mapStats : Better(mp, mq)
     /\ \A ban \in DOMAIN a.banOpen : \A h, k \in WhatTheyOpen(a, t, ban) :
          \E r \in a.banOpen[ban] : {h, k} \subseteq r.g.open[t]

\* The field of a team's ban tendencies holds every ban of the team, those of the playoffs
\* too, so that no hero is banned more than most by every team.  The glance card's field
\* holds those of the regular season: a ban it knows nothing of was made in the playoffs
\* only, and while there were none, what the card calls a signature is banned more than
\* most.
FieldIsFair(ms) ==
  LET teams == UNION {{m.f1, m.f2} : m \in ms}
      a == [t \in teams |-> aggregate(TheirMatches(ms, t), t)]
      most == [t \in teams |-> Tendency(ms, t, a[t])]
      first == [t \in teams |-> FirstTendency(ms, t, a[t])]
      league == LeagueBans(ms)
      card == [t \in teams |-> GlanceBans(a[t].games, t)]
      ByAll(labels) == \E h \in UNION {DOMAIN labels[t] : t \in teams} : \A t \in teams :
                          h \in DOMAIN labels[t] /\ labels[t][h] = "more than most"
  IN /\ ~ByAll(most) /\ ~ByAll(first)
     /\ \A t \in teams :
          /\ \A h \in DOMAIN most[t] : most[t][h] # "new"
          /\ \A h \in DOMAIN first[t] : first[t][h] # "new"
          /\ \A h \in DOMAIN card[t] \ DOMAIN league : \A r \in a[t].bans[h] : r.m.playoff
          /\ (\A m \in ms : ~m.playoff)
             => \A h \in DOMAIN card[t] : IsSignature(card[t], league, h)
                  => h \in DOMAIN most[t] /\ most[t][h] = "more than most"

\* The panels of a season's sheets do not contradict each other, in any window.
PanelsAgree(ms) ==
  /\ \A m \in ms : \A t \in {m.f1, m.f2} : \A v \in 1..(Cardinality(ms) + 1) : SheetAgrees(ms, t, v)
  /\ FieldIsFair(ms)
=============================================================================
