------------------------------- MODULE League ------------------------------
(***************************************************************************)
(* The pages about a whole division (app.js renderMeta, renderMatches,     *)
(* renderOverview): hero win rates, the most played comps, the map pool,   *)
(* the lists of played and coming matches and the search in them.  They    *)
(* read the same season through three lists: the regular season, all that  *)
(* was played, and the captures, which know teams but no divisions.        *)
(*                                                                         *)
(* A sample is a season and what is asked of it: [season, view, floor,     *)
(* asked], the last a player.                                              *)
(***************************************************************************)
EXTENDS Season, Sequences

\* A view of several divisions has their lists one after the other.
Regular(x) == UNION {MatchesAlone(x.season, c) : c \in x.view}
MATCHES_ALL(x) == UNION {leagueMatches(x.season, c) : c \in x.view}
Bracket(x) == {m \in x.season : m.cid \in x.view /\ m.playoff}
Upcoming(x) == {m \in x.season : m.cid \in x.view /\ ~m.playoff /\ ~m.finished}
TeamNames(x) == UNION {{m.f1, m.f2} : m \in {n \in x.season : n.cid \in x.view}}

-----------------------------------------------------------------------------
(* The captures, by map and team (owdb_pergame) and by team (owdb_comps)    *)

HeroesOf(g, team) == {g.hero[p] : p \in {q \in DOMAIN g.hero : g.side[q] = team}}
MapsCaptured(s) == {r \in MapGames({m \in s : m.finished}) : r.g.hero # <<>>}
CapturesOf(s, team) == {r \in MapsCaptured(s) : HeroesOf(r.g, team) # {}}

\* The maps a team has comps for, whatever division they were played in.
capturedMaps(x) == [t \in TeamNames(x) |-> Cardinality(CapturesOf(x.season, t))]
teamsScouted(x) == {t \in TeamNames(x) : CapturesOf(x.season, t) # {}}

-----------------------------------------------------------------------------
(* League meta                                                              *)

\* The maps of the regular season that have a winner: what was captured on
\* them is evidence.
winnerOf(x) == {r \in MapGames(Regular(x)) : r.g.winner # "nobody"}

\* Each map counts once for each team that a hero was on.
lineupsOf(x) ==
  UNION {{[key |-> <<r.m.id, r.g.no>>, team |-> t, heroes |-> HeroesOf(r.g, t), won |-> r.g.winner = t] :
            t \in {u \in TeamsIn(r) : HeroesOf(r.g, u) # {}}} : r \in winnerOf(x)}
heroWinRates(x, floor) ==
  LET lineups == lineupsOf(x)
      tally == [h \in UNION {l.heroes : l \in lineups} |->
                  LET on == {l \in lineups : h \in l.heroes} IN
                  [maps |-> Cardinality(on), wins |-> Cardinality({l \in on : l.won})]]
  IN [h \in {i \in DOMAIN tally : tally[i].maps >= floor} |-> tally[h]]

\* Every comp of the view's teams, whoever played it.
mostPlayedComps(x) ==
  LET comps(t) == {HeroesOf(r.g, t) : r \in CapturesOf(x.season, t)}
      of(t, c) == {r \in CapturesOf(x.season, t) : HeroesOf(r.g, t) = c}
      won(t, c) == {r \in of(t, c) : r.g.winner = t}
      count(f) == SumOver(TeamNames(x), f)
  IN [c \in UNION {comps(t) : t \in TeamNames(x)} |->
        [maps |-> count([t \in TeamNames(x) |-> Cardinality(of(t, c))]),
         wins |-> count([t \in TeamNames(x) |-> Cardinality(won(t, c))]),
         teams |-> {t \in TeamNames(x) : c \in comps(t)},
         keys |-> UNION {{<<r.m.id, r.g.no>> : r \in of(t, c)} : t \in TeamNames(x)}]]

\* Plays of each map, by mode.
mapPool(x) ==
  LET plays(mp) == {r \in MapGames(Regular(x)) : r.g.map = mp}
      pool == {r.g.map : r \in MapGames(Regular(x))}
  IN [cat \in {CategoryOf[mp] : mp \in pool} |->
        [mp \in {q \in pool : CategoryOf[q] = cat} |-> Cardinality(plays(mp))]]

-----------------------------------------------------------------------------
(* Matches                                                                  *)

\* All that a match's card is found by: its teams, the players of its games
\* and the heroes of its captures (and its maps and bans, left out here).
hay(m) ==
  {m.f1, m.f2} \cup (UNION {DOMAIN g.side : g \in m.games})
    \cup (UNION {{g.hero[p] : p \in DOMAIN g.hero} : g \in m.games})
\* Nothing typed in finds all.
NoQuery == ""
drawPlayed(x, q) == {m \in MATCHES_ALL(x) : q = NoQuery \/ q \in hay(m)}
drawUpcoming(x, q) == {m \in Upcoming(x) : q = NoQuery \/ q \in {m.f1, m.f2}}
drawPlayoffs(x) == IF Cardinality(x.view) = 1 THEN Bracket(x) ELSE {}

\* What a search can be typed in for: teams by names that no player and no hero has.
IsLeague(x) ==
  /\ IsSeason(x.season) /\ NoQuery \notin TeamNames(x)
  /\ \A m \in x.season : \A g \in m.games : TeamNames(x) \cap (DOMAIN g.side \cup Range(g.hero)) = {}

\* What opens where nothing was opened yet.
defaultMatchesMode(x) == IF Bracket(x) # {} THEN "playoffs" ELSE "played"
renderMatches(x, mode, q) ==
  CASE mode = "playoffs" -> drawPlayoffs(x) [] mode = "upcoming" -> drawUpcoming(x, q)
    [] OTHER -> drawPlayed(x, q)

-----------------------------------------------------------------------------

Shown(x) == renderMatches(x, "played", NoQuery) \cup renderMatches(x, "upcoming", NoQuery)
              \cup renderMatches(x, "playoffs", NoQuery)

\* No match of the view is on none of its lists (a combined view leaves out
\* the bracket that is still to play), none is on two but those of the
\* bracket, and the tab that opens by itself is empty only where all are.  A
\* search for a team or a player finds every match their pages count.
MatchesAreFound(x) ==
  LET all == {m \in x.season : m.cid \in x.view}
      played == renderMatches(x, "played", NoQuery)
      Teams(t) == {m \in MATCHES_ALL(x) : t \in {m.f1, m.f2}}
  IN /\ Shown(x) = {m \in all : m.finished \/ ~m.playoff \/ Cardinality(x.view) = 1}
     /\ played \cap renderMatches(x, "upcoming", NoQuery) = {}
     /\ Regular(x) \subseteq played
     /\ Cardinality(x.view) = 1 /\ renderMatches(x, defaultMatchesMode(x), NoQuery) = {}
          => Shown(x) \subseteq Upcoming(x)
     /\ \A t \in TeamNames(x) : renderMatches(x, "played", t) = Teams(t)
     /\ \A g \in playerGames(x.season, x.asked) :
          g.cid \in x.view => \E m \in renderMatches(x, "played", x.asked) : m.id = g.id

\* The tables of a division agree with each other and with the players'.  The
\* comps of the view add up to the captured maps of the tile, each counted
\* for the two teams; a hero's maps in the win rates are among those of the
\* comps it is in, and, where all that is captured is of the regular season
\* of the view and has a winner, are those of its players; a mirrored hero wins once and
\* loses once.  The plays of the pool are the maps of the regular season.
TablesAgree(x) ==
  LET comps == mostPlayedComps(x)
      with(h) == {c \in DOMAIN comps : h \in c}
      rates == heroWinRates(x, 1)
      pool == mapPool(x)
      nicks == UNION {UNION {DOMAIN g.side : g \in m.games} : m \in x.season}
      alone == \A r \in MapsCaptured(x.season) : ~r.m.playoff /\ r.m.cid \in x.view /\ r.g.winner # "nobody"
      pools == [n \in nicks |-> playerHeroPool(x.season, n)]
      by(h) == {n \in nicks : h \in DOMAIN pools[n]}
      once == \A r \in MapsCaptured(x.season) : \A p, q \in DOMAIN r.g.hero :
                r.g.hero[p] = r.g.hero[q] => p = q \/ r.g.side[p] # r.g.side[q]
      mirrored(h) == {r \in winnerOf(x) : \A t \in {r.m.f1, r.m.f2} : h \in HeroesOf(r.g, t)}
  IN /\ SumOver(DOMAIN comps, [c \in DOMAIN comps |-> comps[c].maps])
          = SumOver(TeamNames(x), capturedMaps(x))
     /\ UNION {comps[c].teams : c \in DOMAIN comps} = teamsScouted(x)
     /\ \A c \in DOMAIN comps : /\ comps[c].wins <= comps[c].maps
                                /\ comps[c].maps <= 2 * Cardinality(comps[c].keys)
     /\ \A h \in DOMAIN rates :
          /\ rates[h].maps <= SumOver(with(h), [c \in with(h) |-> comps[c].maps])
          /\ rates[h].wins <= SumOver(with(h), [c \in with(h) |-> comps[c].wins])
          /\ rates[h].wins >= Cardinality(mirrored(h))
          /\ rates[h].maps - rates[h].wins >= Cardinality(mirrored(h))
          /\ alone /\ once =>
               rates[h] = [maps |-> SumOver(by(h), [n \in by(h) |-> pools[n][h].games]),
                           wins |-> SumOver(by(h), [n \in by(h) |-> pools[n][h].wins])]
     /\ \A h \in DOMAIN heroWinRates(x, x.floor) : rates[h].maps >= x.floor
     /\ SumOver(DOMAIN pool, [cat \in DOMAIN pool |-> SumOver(DOMAIN pool[cat], pool[cat])])
          = Cardinality(MapGames(Regular(x)))
=============================================================================
