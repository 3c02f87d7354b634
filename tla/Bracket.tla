------------------------------ MODULE Bracket ------------------------------
(***************************************************************************)
(* The final standings of a playoff bracket (pure.js playoffPlacements,    *)
(* drawn by app.js renderPlayoffs), worked out anew from the matches every *)
(* time the site is built, while the bracket is being played.  Matches     *)
(* that follow from earlier ones are known once both teams are; where      *)
(* there are fewer teams than places the rest are a team named 'bye',      *)
(* against whom a match is over at once.                                   *)
(***************************************************************************)
EXTENDS Integers, Sequences, FiniteSets

CONSTANTS
  Qualified,   \* N, the teams of the tier: the seeds 1..N
  UbRounds,    \* rounds of the upper bracket
  Draws        \* the bracket, each match after those it follows from:
               \* [group, round, from], from a pair of places

Places ==
  [by : {"seed"}, n : Nat \ {0}] \cup [by : {"winner", "loser"}, n : DOMAIN Draws]

\* The places of the bracket are the least power of two with room for the teams.
ASSUME BracketAssumption ==
  /\ Draws \in Seq([group : Nat, round : Nat, from : Places \X Places])
  /\ Qualified \in Nat \ {0} /\ UbRounds \in Nat \ {0}
  /\ 2 ^ (UbRounds - 1) < Qualified /\ Qualified <= 2 ^ UbRounds

VARIABLE rows   \* match -> [f1, f2, winner] as the league shows it; 0 is not known yet

LbRounds == 2 * (UbRounds - 1)
Matches == DOMAIN Draws
Bye == Qualified + 1
TBD == 0

Unknown == [f1 |-> TBD, f2 |-> TBD, winner |-> TBD]

BracketInit == rows = [m \in Matches |-> Unknown]

\* The team in a place: a seed, or who won or lost the match before.
Over(p) == p.by = "seed" \/ rows[p.n].winner # TBD
loserOf(q) == IF q.winner = q.f1 THEN q.f2 ELSE q.f1
Team(p) == CASE p.by = "seed" -> IF p.n <= Qualified THEN p.n ELSE Bye
             [] p.by = "winner" -> rows[p.n].winner
             [] p.by = "loser" -> loserOf(rows[p.n])

\* The league fills in a match; one against a bye is over as it appears.
MatchDrawn ==
  \E m \in Matches :
    LET f1 == Team(Draws[m].from[1])  f2 == Team(Draws[m].from[2]) IN
    /\ rows[m].f1 = TBD /\ Over(Draws[m].from[1]) /\ Over(Draws[m].from[2])
    /\ rows' = [rows EXCEPT ![m] = [f1 |-> f1, f2 |-> f2,
                  winner |-> CASE f1 = Bye -> f2 [] f1 # Bye /\ f2 = Bye -> f1 [] OTHER -> TBD]]

MatchEnds ==
  \E m \in Matches :
    /\ rows[m].f1 # TBD /\ rows[m].winner = TBD
    /\ \E t \in {rows[m].f1, rows[m].f2} : rows' = [rows EXCEPT ![m].winner = t]

BracketNext == MatchDrawn \/ MatchEnds
BracketSpec == BracketInit /\ [][BracketNext]_rows

-----------------------------------------------------------------------------
(* The standings *)

\* The column of the bracket: upper rounds, lower rounds, the grand final,
\* which the league numbers as one round too many of a leg.
StageKey(d) ==
  LET r == IF d.round > 0 THEN d.round - 1 ELSE 0 IN
  CASE d.group = 1 /\ r < UbRounds -> r
    [] d.group = 2 /\ r < LbRounds -> UbRounds + r
    [] OTHER -> UbRounds + LbRounds
playoffStageKey == SubSeq([m \in Matches |-> StageKey(Draws[m])], 1, Len(Draws))

\* The matches of a column that are known: a row without its teams is none.
Stage(k) == {m \in Matches : playoffStageKey[m] = k /\ rows[m].f1 # TBD}

\* Every match of a round: those against a bye, too, put a team out.
OutOfAll(stage) == {loserOf(rows[m]) : m \in stage}
OutOf(stage) == {loserOf(rows[m]) : m \in {n \in stage : Bye \notin {rows[n].f1, rows[n].f2}}}

\* Rounds are counted from the bottom, up to the first that is not over.
playoffPlacements ==
  LET lower(i) == Stage(UbRounds + i)
      over(i) == lower(i) # {} /\ \A m \in lower(i) : rows[m].winner # TBD
      rounds == {i \in 0..LbRounds - 1 : \A j \in 0..i : over(j)}
      out(i) == OutOf(lower(i))
      left(i) == Qualified - Cardinality(UNION {out(j) : j \in 0..i - 1})
      final == {m \in Stage(UbRounds + LbRounds) : rows[m].winner # TBD}
  IN {[start |-> left(i) - Cardinality(out(i)) + 1, teams |-> out(i)] : i \in {j \in rounds : out(j) # {}}}
     \cup {[start |-> 2, teams |-> {loserOf(rows[m])}] : m \in final}
     \cup {[start |-> 1, teams |-> {rows[m].winner}] : m \in final}

-----------------------------------------------------------------------------
(* The page *)

\* The seeds from the top of the bracket to its bottom: each beside the one
\* that makes up the sum with it.
seedOrder[k \in Nat] ==
  IF k <= 1 THEN <<1>>
  ELSE LET half == seedOrder[k \div 2] IN
       SubSeq([i \in 1..k |-> LET x == half[(i + 1) \div 2] IN IF i % 2 = 1 THEN x ELSE k + 1 - x], 1, k)

FinalColumn == UbRounds + LbRounds
Order == seedOrder[2 ^ UbRounds]

\* The matches a column has room for.
SizeOf(c) ==
  CASE c < UbRounds -> 2 ^ (UbRounds - 1 - c)
    [] c >= UbRounds /\ c < FinalColumn -> 2 ^ (UbRounds - 1 - (c - UbRounds + 2) \div 2)
    [] OTHER -> 1

\* A seed by the standings, for which there may be no team.
projSide(seed) == IF seed <= Qualified THEN seed ELSE TBD

\* A column takes the matches of its own stage; the slots that are left are
\* blank, in the first round with the teams the standings would put there.
fill(pool, c) ==
  LET ms == {m \in pool : playoffStageKey[m] = c} IN
  [matches |-> ms,
   blanks |-> [j \in Cardinality(ms) + 1..SizeOf(c) |->
                 IF c = 0 THEN {projSide(Order[2 * j - 1]), projSide(Order[2 * j])} ELSE {TBD}]]

\* The league may list a match before it knows who plays it.
Known == {m \in Matches : rows[m].f1 # TBD}
renderPlayoffs(pool) ==
  [columns |-> [c \in 0..FinalColumn |-> fill(pool, c)], standings |-> playoffPlacements]

-----------------------------------------------------------------------------
(* What the table promises *)

BracketTypeOK ==
  rows \in [Matches -> [f1 : 0..Bye, f2 : 0..Bye, winner : 0..Bye]]

\* A round of the lower bracket begins when all its matches are known.
DrawnWhole ==
  \A i \in 0..LbRounds - 1 :
    LET all == {m \in Matches : playoffStageKey[m] = UbRounds + i} IN
    Stage(UbRounds + i) \in {{}, all}

\* Once the table shows a place, it stands: no later result moves a team to
\* another place or takes it out of the table.  When the grand final is over
\* every team has exactly one place and the places are 1 to N.  (A round the
\* league lets begin before all its matches are known is not covered: the
\* page then takes the known ones for the round.)
PlacesOf(tiers) == UNION {t.start..t.start + Cardinality(t.teams) - 1 : t \in tiers}
PlacesStay == DrawnWhole => playoffPlacements \subseteq playoffPlacements'
PlacesKept ==
  LET after == playoffPlacements' IN
  /\ PlacesStay
  /\ (\A m \in Matches : rows'[m].winner # TBD) =>
       /\ PlacesOf(after) = 1..Qualified
       /\ UNION {t.teams : t \in after} = 1..Qualified

\* The bracket on the page.  Every match the league lists has a slot in the
\* column of its stage, and a whole bracket leaves none blank; no team that the
\* table under it gives a place has a match left.  Before the first round is
\* drawn the page shows each team of the tier once, as the league draws it by
\* the standings, and seeds meet the later the better they are.  (While only a
\* part of the first round is drawn, the blanks are those of the last slots,
\* whoever the matches before them took: a team can stand there twice.)
BracketIsShown ==
  LET Held(column) == Cardinality(column.matches) + Cardinality(DOMAIN column.blanks)
      ends(S) == {x \in S : x \in 1..Qualified}
  IN /\ \A page \in {renderPlayoffs(Known)} : \A c \in 0..FinalColumn :
          /\ Held(page.columns[c]) = SizeOf(c)
          /\ \A m \in page.columns[c].matches : rows[m].winner = TBD =>
               {rows[m].f1, rows[m].f2} \cap UNION {t.teams : t \in page.standings} = {}
     /\ Known = {} => \A blanks \in {fill(Known, 0).blanks} :
          /\ \A c \in 0..FinalColumn : fill(Matches, c).blanks = <<>> /\ Held(fill(Matches, c)) = SizeOf(c)
          /\ UNION {ends(blanks[j]) : j \in DOMAIN blanks} = 1..Qualified
          /\ \A i, j \in DOMAIN blanks : i # j => ends(blanks[i]) \cap ends(blanks[j]) = {}
          /\ {ends(blanks[j]) : j \in DOMAIN blanks}
               = {ends({Team(Draws[m].from[1]), Team(Draws[m].from[2])}) : m \in {n \in Matches : playoffStageKey[n] = 0}}
          /\ \A r \in 0..UbRounds : \A block \in 0..2 ^ (UbRounds - r) - 1 :
               Cardinality({i \in 1..2 ^ r : Order[block * 2 ^ r + i] <= 2 ^ (UbRounds - r)}) = 1
=============================================================================
