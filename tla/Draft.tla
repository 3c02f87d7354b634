------------------------------- MODULE Draft -------------------------------
(***************************************************************************)
(* The draft simulator of a team's page (app.js renderSim, with the        *)
(* decisions of pure.js): a tree of games, one branch for each winner.     *)
(* Every game shows a map and two bans; what the user has not chosen is    *)
(* filled in from the season.  Choices are kept by the path of winners     *)
(* that leads to a game, and a choice made higher up may make one further  *)
(* down illegal, so each is looked at again whenever the tree is drawn.    *)
(*                                                                         *)
(* Maps and heroes are numbered in the order of their names; 0 is none.    *)
(***************************************************************************)
EXTENDS Integers, Sequences, FiniteSets, SequencesExt

CONSTANTS
  ModeOf,     \* the pool: the mode of each map
  RoleOf,     \* the roster: the role of each hero
  Season,     \* the games played, [f1, f2, at, gno, map, picker, bans]
  Clubs,      \* the teams of the division, in order
  Formats,    \* the wins a series can need
  Windows,    \* how many of a team's games the bans are read from; 0 is all
  MaxClicks   \* bound: clicks that are followed

VARIABLES team, first, format, window, tree, open, focus, clicks

draftVars == <<team, first, format, window, tree, open, focus, clicks>>

Maps == DOMAIN ModeOf
Heroes == DOMAIN RoleOf
Sides == {"A", "B"}
Other(ab) == IF ab = "A" THEN "B" ELSE "A"
Modes == {"Control", "Escort", "Flashpoint", "Hybrid", "Push"}

ASSUME DraftAssumption ==
  /\ ModeOf \in Seq(Modes) /\ RoleOf \in Seq({"Tank", "Damage", "Support"})
  /\ IsFiniteSet(Season) /\ {1, 2} \subseteq DOMAIN Clubs
  /\ Formats \subseteq Nat /\ 3 \in Formats /\ 0 \in Windows /\ MaxClicks \in Nat

NoChoice == [map |-> 0, b1 |-> 0, b2 |-> 0]

Wins(path, ab) == Cardinality({i \in DOMAIN path : path[i] = ab})
Begin(path, n) == SubSeq(path, 1, n)

\* The games that are played in some series of the format.
Paths(target) == {p \in UNION {[1..n -> Sides] : n \in 0..2 * target - 2} :
                    Wins(p, "A") < target /\ Wins(p, "B") < target}

-----------------------------------------------------------------------------
(* What the season says *)

Newer(g, h) == g.at > h.at \/ (g.at = h.at /\ g.gno > h.gno)

\* The games a team's model is made of: all of them, or the latest.
GamesUsed(t, limit) ==
  LET own == {g \in Season : g.map # 0 /\ t \in {g.f1, g.f2}} IN
  IF limit = 0 THEN own
  ELSE {g \in own : Cardinality({h \in own : Newer(h, g)}) < limit}

Picks(t, mp) == Cardinality({g \in GamesUsed(t, 0) : g.map = mp /\ g.picker = t})
PicksOfAll(mp) == Cardinality({g \in Season : g.map = mp /\ g.picker # "nobody"})
PlaysOfAll(mp) == Cardinality({g \in Season : g.map = mp})

BansIn(games, t, h) == Cardinality({g \in games : \E b \in g.bans : b.team = t /\ b.hero = h})

\* How often the team answered a first ban of vs with a second one of h.
Replies(games, t, vs, h) ==
  Cardinality({g \in games : /\ \E b \in g.bans : b.team = t /\ b.order = 2 /\ b.hero = h
                             /\ \E b \in g.bans : b.team # t /\ b.order = 1 /\ b.hero = vs})

\* The first difference decides, the larger number wins.
Above(k, l) == \E i \in DOMAIN k : k[i] > l[i] /\ \A j \in 1..i - 1 : k[j] = l[j]

Leader(key) ==
  LET S == DOMAIN key IN
  IF S = {} THEN 0 ELSE CHOOSE x \in S : \A y \in S \ {x} : Above(key[x], key[y])

-----------------------------------------------------------------------------
(* What the rules allow and the page proposes *)

allowedCatsFor(g1, used) ==
  LET fresh == (Modes \ {"Control"}) \ {ModeOf[mp] : mp \in used} IN
  IF g1 THEN {"Control"} ELSE IF fresh # {} THEN fresh ELSE Modes \ {"Control"}

Free(cats, used) == {mp \in Maps \ used : ModeOf[mp] \in cats}

autoMap(t, cats, used) ==
  Leader([mp \in Free(cats, used) |-> <<Picks(t, mp), PicksOfAll(mp), PlaysOfAll(mp), -mp>>])

\* The heroes on record that may be banned, the reply to the other ban first.
autoBan(t, mp, illegal, vs) ==
  LET games == GamesUsed(t, window)
      onMap == {g \in games : g.map = mp}
      known == {h \in Heroes \ illegal : BansIn(games, t, h) > 0 \/ Replies(games, t, vs, h) > 0} IN
  Leader([h \in known |-> <<Replies(games, t, vs, h), BansIn(onMap, t, h), BansIn(games, t, h), -h>>])

\* A ban closes its role to the ban that answers it.
SameRole(b) == IF b = 0 THEN {} ELSE {h \in Heroes : RoleOf[h] = RoleOf[b]}

Picker(path) == IF path = <<>> THEN first ELSE Other(path[Len(path)])

\* A chosen ban stands while it is still legal where it was chosen.
BanChosen(h, shut) == h # 0
BanStands(h, shut) == h # 0 /\ h \notin shut

BanOn(map, chosen, t, shut, vs) ==
  CASE map = 0 -> 0
    [] map # 0 /\ BanStands(chosen, shut) -> chosen
    [] OTHER -> autoBan(t, map, shut, vs)

\* One game: its choices where they are still legal, otherwise proposals;
\* each of them depends on those before it.
Game(path, used, banned) ==
  LET ov == IF path \in DOMAIN tree THEN tree[path] ELSE NoChoice
      ab == Picker(path)
      Answered(cats, map, b1, shut) ==
        [map |-> map, b1 |-> b1, b2 |-> BanOn(map, ov.b2, team[Other(ab)], shut, b1),
         ab |-> ab, cats |-> cats, shut |-> shut, used |-> used, banned |-> banned]
      BannedBy(cats, map, b1) == Answered(cats, map, b1, banned[Other(ab)] \cup SameRole(b1))
      Placed(cats, map) == BannedBy(cats, map, BanOn(map, ov.b1, team[ab], banned[ab], 0))
      InModes(cats) ==
        Placed(cats, IF ov.map \in Free(cats, used) THEN ov.map ELSE autoMap(team[ab], cats, used))
  IN InModes(allowedCatsFor(path = <<>>, used))

BansOf(game, ab) == IF game.ab = ab THEN game.b1 ELSE game.b2

\* The games of a line of the tree, from the first to the one at the path.
NextGame(path, line) ==
  Append(line, Game(Begin(path, Len(line)), {line[i].map : i \in DOMAIN line},
                    [ab \in Sides |-> {BansOf(line[i], ab) : i \in DOMAIN line} \ {0}]))
Line(path) ==
  LET upTo[n \in 0..Len(path) + 1] == IF n = 0 THEN <<>> ELSE NextGame(path, upTo[n - 1])
  IN upTo[Len(path) + 1]

\* The nodes on the page, each with the line to it: every branch of that is open and
\* follows a game with a map.
WithMaps(lines) ==
  LET whole == {p \in DOMAIN lines : \A n \in 1..Len(p) : lines[p][n].map # 0} IN
  [p \in whole |-> lines[p]]
Drawn ==
  LET opened == {p \in Paths(format) : \A n \in 1..Len(p) : Begin(p, n) \in open} IN
  WithMaps([p \in IF team["A"] = team["B"] THEN {} ELSE opened |-> Line(p)])

-----------------------------------------------------------------------------
(* The clicks *)

DraftInit == /\ team = [A |-> Clubs[1], B |-> Clubs[2]] /\ first = "A" /\ format = 3 /\ window = 0
             /\ tree = <<>> /\ open = {} /\ focus = <<>> /\ clicks = 0

\* A focus whose branch has closed falls back to the last open game above.
Trimmed(f, op) ==
  LET reach == {n \in 0..Len(f) : \A i \in 1..n : Begin(f, i) \in op} IN
  Begin(f, CHOOSE n \in reach : \A i \in reach : i <= n)

DraftClick == clicks < MaxClicks /\ clicks' = clicks + 1

Override(choice) ==
  tree' = [p \in DOMAIN tree \cup {focus} |-> IF p = focus THEN choice ELSE tree[p]]
OverrideNow == IF focus \in DOMAIN tree THEN tree[focus] ELSE NoChoice

\* A map of the mode on show, or the leading map of another mode: the bans
\* of the game are proposed anew.
PickMap(drawn) ==
  /\ DraftClick /\ focus \in DOMAIN drawn
  /\ LET g == Last(drawn[focus])
         mode == IF g.map # 0 THEN {ModeOf[g.map]} ELSE {} IN
     \E mp \in Free(mode, g.used) \cup
               (IF focus = <<>> THEN {} ELSE {autoMap(team[g.ab], {c}, g.used) : c \in g.cats} \ {0}) :
        Override([NoChoice EXCEPT !.map = mp])
  /\ UNCHANGED <<team, first, format, window, open, focus>>

PickBan(drawn) ==
  /\ DraftClick /\ focus \in DOMAIN drawn
  /\ LET g == Last(drawn[focus]) IN
     /\ g.map # 0
     /\ \/ \E h \in Heroes \ g.banned[g.ab] : Override([OverrideNow EXCEPT !.b1 = h])
        \/ \E h \in Heroes \ g.shut : Override([OverrideNow EXCEPT !.b2 = h])
  /\ UNCHANGED <<team, first, format, window, open, focus>>

FocusOn(drawn) ==
  /\ DraftClick /\ \E p \in DOMAIN drawn \ {focus} : focus' = p
  /\ UNCHANGED <<team, first, format, window, tree, open>>

\* A branch of a drawn game: opened it takes the focus, closed it gives it back.
Toggle(drawn) ==
  /\ DraftClick
  /\ \E p \in DOMAIN drawn, w \in Sides :
       LET cp == Append(p, w) IN
       /\ cp \in Paths(format) /\ Last(drawn[p]).map # 0
       /\ IF cp \in open
          THEN /\ open' = open \ {cp}
               /\ focus' = Trimmed(IF Len(focus) >= Len(cp) /\ Begin(focus, Len(cp)) = cp
                                   THEN p ELSE focus, open')
          ELSE open' = open \cup {cp} /\ focus' = cp
  /\ UNCHANGED <<team, first, format, window, tree>>

ExpandOrCollapse(drawn) ==
  /\ DraftClick /\ DOMAIN drawn # {}
  /\ \/ open' = Paths(format) \ {<<>>} /\ UNCHANGED focus
     \/ open' = {} /\ focus' = <<>>
  /\ UNCHANGED <<team, first, format, window, tree>>

\* The controls above the tree: who picks first, the teams, the format, the
\* window of the bans, and a reset.
Control ==
  /\ DraftClick
  /\ \/ /\ \E ab \in Sides : first' = ab
        /\ tree' = <<>> /\ focus' = <<>> /\ UNCHANGED <<team, format, window>>
     \/ /\ \E ab \in Sides, i \in DOMAIN Clubs : team' = [team EXCEPT ![ab] = Clubs[i]]
        /\ tree' = <<>> /\ focus' = <<>> /\ UNCHANGED <<first, format, window>>
     \/ /\ \E t \in Formats : format' = t
        /\ focus' = <<>> /\ UNCHANGED <<team, first, window, tree>>
     \/ /\ \E n \in Windows : window' = n
        /\ UNCHANGED <<team, first, format, tree, focus>>
     \/ tree' = <<>> /\ UNCHANGED <<team, first, format, window, focus>>
  /\ UNCHANGED open

DraftNext ==
  \/ \E drawn \in {Drawn} : \/ PickMap(drawn) \/ PickBan(drawn) \/ FocusOn(drawn)
                            \/ Toggle(drawn) \/ ExpandOrCollapse(drawn)
  \/ Control

DraftSpec == DraftInit /\ [][DraftNext]_draftVars

-----------------------------------------------------------------------------
(* What the page promises *)

DraftTypeOK ==
  /\ team \in [Sides -> {Clubs[i] : i \in DOMAIN Clubs}] /\ first \in Sides /\ format \in Formats
  /\ window \in Windows /\ clicks \in 0..MaxClicks
  /\ open \subseteq Seq(Sides) /\ focus \in Seq(Sides) /\ DOMAIN tree \subseteq Seq(Sides)
  /\ \A p \in DOMAIN tree : tree[p] \in [map : Maps \cup {0}, b1 : Heroes \cup {0}, b2 : Heroes \cup {0}]

NoRepeat(f, from) == \A i, j \in from : i # j /\ f[i] # 0 => f[i] # f[j]

\* No map twice, Control first and only first, no mode again before all have
\* been played, no team bans a hero twice, and the two bans of a map are of
\* different roles.
LineIsLegal(line) ==
  LET ns == {n \in DOMAIN line : line[n].map # 0}
      mode == [n \in DOMAIN line |-> IF n \in ns THEN ModeOf[line[n].map] ELSE "none"] IN
  /\ \A n \in ns : (mode[n] = "Control") <=> (n = 1)
  /\ NoRepeat([n \in DOMAIN line |-> line[n].map], ns)
  /\ \A i, j \in ns \cap 2..5 : i # j => mode[i] # mode[j]
  /\ \A ab \in Sides : NoRepeat([n \in DOMAIN line |-> BansOf(line[n], ab)], ns)
  /\ \A n \in ns : line[n].b1 # 0 /\ line[n].b2 # 0 => RoleOf[line[n].b1] # RoleOf[line[n].b2]

\* Whatever was chosen and in whichever order, every line of the tree is a
\* draft the league allows.
DraftIsLegal == \A line \in Range(Drawn) : LineIsLegal(line)
=============================================================================
