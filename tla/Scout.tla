------------------------------- MODULE Scout -------------------------------
(***************************************************************************)
(* What captured games say of a team (app.js renderScoutBody): the comp    *)
(* they run on a map, the heroes that are always there, the games they     *)
(* played against a comp like ours, and what a ban would cost them.        *)
(*                                                                         *)
(* A sample gives every captured team its scout: [rounds, pool], the       *)
(* rounds captured and the rounds a hero was played in; and one team its   *)
(* matchups, newest first, each [open, vs, won], with the swaps seen and   *)
(* the comp we plan.  Seat places a hero on a team.                        *)
(***************************************************************************)
EXTENDS Integers, Sequences, FiniteSets, FiniteSetsExt

CONSTANT Seat           \* hero -> "Tank", "Hitscan", "FlexDPS", "MainSupport", "FlexSupport"

-----------------------------------------------------------------------------
(* The comp of a map *)

tankOf(heroes) == {h \in heroes : Seat[h] = "Tank"}

sameCompJS(a, b) ==
  LET shared == Cardinality(a \cap b) IN
  shared >= 4 \/ (shared = 3 /\ tankOf(a) # {} /\ tankOf(a) = tankOf(b))

\* The games gather around the newest that is not gathered yet: the anchor of each game.
Anchors(games) ==
  LET at[i \in DOMAIN games] ==
        LET before == {j \in 1..(i - 1) : at[j] = j /\ sameCompJS(games[j].open, games[i].open)}
        IN IF before = {} THEN i ELSE Min(before)
  IN at

\* The largest cluster, of those the one with the newest anchor.
modalComp(games) ==
  LET at == Anchors(games)
      cluster(i) == {j \in DOMAIN games : at[j] = i}
      size(i) == Cardinality(cluster(i))
      best == CHOOSE i \in DOMAIN games : \A j \in DOMAIN games :
                size(i) > size(j) \/ (size(i) = size(j) /\ i <= j)
  IN [heroes |-> games[best].open, of |-> cluster(best),
      wins |-> {j \in cluster(best) : games[j].won}]

\* In three games of a map or more: the heroes of most of them.
AlwaysHere(games) ==
  LET seen(h) == Cardinality({i \in DOMAIN games : h \in games[i].open}) IN
  {h \in UNION {games[i].open : i \in DOMAIN games} :
     Len(games) >= 3 /\ 10 * seen(h) >= 6 * Len(games)}

\* What changed from the opening to the comp they settled on.
compDelta(from, to) == [out |-> from \ to, in |-> to \ from]

-----------------------------------------------------------------------------
(* Counter-scout *)

\* Heroes of nearly every lineup they faced tell nothing.
Ubiquitous(games) ==
  {h \in UNION {games[i].vs : i \in DOMAIN games} :
     /\ Len(games) >= 4
     /\ 10 * Cardinality({i \in DOMAIN games : h \in games[i].vs}) >= 9 * Len(games)}

\* The games against most of our heroes, or against fewer, or against one.
CounterScout(games, plan) ==
  LET signal == plan \ Ubiquitous(games)
      overlap(i) == Cardinality(signal \cap games[i].vs)
      Similar(need) == {i \in DOMAIN games : overlap(i) >= need}
      tiers == {n \in 1..Min({Cardinality(signal), 3}) : Similar(n) # {}}
      need == IF tiers = {} THEN 0 ELSE Max(tiers)
      similar == IF tiers = {} THEN {} ELSE Similar(need)
  IN [signal |-> signal, need |-> need, games |-> similar,
      solid |-> need >= 3 /\ Cardinality(similar) >= 3,
      wins |-> {i \in similar : games[i].won}]

SwapsAgainst(swaps, signal) == {s \in swaps : s.vs \cap signal # {}}

\* A click on a hero of the list, on one that is planned, or on clear.
Planned(plan, heroes) == {{}} \cup {plan \ {h} : h \in plan}
                              \cup {plan \cup {h} : h \in IF Cardinality(plan) < 5 THEN heroes ELSE {}}

-----------------------------------------------------------------------------
(* The ban planner *)

PoolHeroes(scouts) == UNION {DOMAIN scouts[t].pool : t \in DOMAIN scouts}
RoundsWith(scout, h) == IF h \in DOMAIN scout.pool THEN scout.pool[h] ELSE 0

\* How much the division plays a hero: the rounds it was in, of all captured.
Summed(f) == MapThenSumSet(LAMBDA t : f[t], DOMAIN f)
metaRate(scouts, h) ==
  [n |-> Summed([t \in DOMAIN scouts |-> RoundsWith(scouts[t], h)]),
   d |-> Summed([t \in DOMAIN scouts |-> scouts[t].rounds])]

\* The most played other hero of the seat.
Backups(scout, h) ==
  LET seat == {k \in DOMAIN scout.pool \ {h} : Seat[k] = Seat[h]}
  IN {k \in seat : \A l \in seat : scout.pool[k] >= scout.pool[l]}

Verdict(scouts, t, h) ==
  LET rounds == scouts[t].rounds
      share == scouts[t].pool[h]
      backup == Max({0} \cup {scouts[t].pool[k] : k \in Backups(scouts[t], h)})
      meta == metaRate(scouts, h)
      staple == 2 * meta.n >= meta.d
      \* 1.3 times the field or more
      distinctive == 10 * share * meta.d >= 13 * meta.n * rounds
  IN CASE staple /\ ~distinctive -> "meta"
       [] ~(staple /\ ~distinctive) /\ 2 * share >= rounds /\ 10 * backup < 3 * rounds /\ distinctive
            -> "expensive"
       [] OTHER -> IF 10 * backup >= 7 * share THEN "cheap" ELSE "moderate"

BanPlanner(scouts, t) ==
  [h \in {k \in DOMAIN scouts[t].pool : 4 * scouts[t].pool[k] >= scouts[t].rounds} |-> Verdict(scouts, t, h)]

\* By verdict, then by how far above the field.
VerdictRank == [expensive |-> 0, moderate |-> 1, meta |-> 2, cheap |-> 3]

-----------------------------------------------------------------------------

\* What captures give: lineups and plans of known heroes, a game at least, and of each
\* team that was captured for a round the rounds that a hero was in.
IsScouted(s) ==
  LET Lineups == SUBSET DOMAIN Seat IN
  /\ IsFiniteSet(DOMAIN Seat)
  /\ s.games \in Seq([open : Lineups, vs : Lineups, won : BOOLEAN]) /\ s.games # <<>> /\ s.plan \in Lineups
  /\ IsFiniteSet(DOMAIN s.scouts)
  /\ \A t \in DOMAIN s.scouts :
       /\ s.scouts[t].rounds \in Nat /\ s.scouts[t].rounds > 0
       /\ DOMAIN s.scouts[t].pool \subseteq DOMAIN Seat
       /\ \A h \in DOMAIN s.scouts[t].pool : s.scouts[t].pool[h] \in Nat

\* What is drawn from captures follows from games.  The modal comp is one of theirs, at
\* least as frequent as the newest; heroes that are always there were together in a
\* game; counter-scout finds a game exactly when they faced a hero of ours that tells
\* something, asks for as many as any game had, and a stated record is of at least three
\* games; and no hero is expensive to ban for every team, nor two of one seat of a team:
\* what everybody plays hurts nobody.
CapturesSpeakTrue(s) ==
  LET games == s.games
      modal == modalComp(games)
      counter == CounterScout(games, s.plan)
      Verdicts == [t \in DOMAIN s.scouts |-> BanPlanner(s.scouts, t)]
      Expensive(t) == {h \in DOMAIN Verdicts[t] : Verdicts[t][h] = "expensive"}
  IN /\ Cardinality(modal.of) >= Cardinality({i \in DOMAIN games : sameCompJS(games[1].open, games[i].open)})
     /\ \A i \in modal.of : games[i].open # modal.heroes => sameCompJS(modal.heroes, games[i].open)
     /\ \A h, k \in AlwaysHere(games) : \E i \in DOMAIN games : {h, k} \subseteq games[i].open
     /\ counter.games # {} <=> \E i \in DOMAIN games : counter.signal \cap games[i].vs # {}
     /\ \A i \in DOMAIN games : /\ Cardinality(counter.signal \cap games[i].vs) > counter.need => counter.need = 3
                                /\ i \in counter.games => counter.signal \cap games[i].vs # {}
     /\ counter.solid => Cardinality(counter.games) >= 3
     /\ {h \in PoolHeroes(s.scouts) : \A t \in DOMAIN s.scouts : h \in Expensive(t)} = {}
     /\ \A t \in DOMAIN s.scouts : \A h, k \in Expensive(t) : Seat[h] = Seat[k] => h = k
=============================================================================
