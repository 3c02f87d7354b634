---------------------------- MODULE PartsProofs ----------------------------
(***************************************************************************)
(* Proofs about the parts that MCParts gathers: the draft simulator, for   *)
(* every pool, roster and season; the table of a playoff, for every        *)
(* bracket; what is left to capture, for every feed; a feed of the day,    *)
(* for whatever happens to it; an import, for whatever is seen of it; the  *)
(* segments of a slot, for any reads of it; the season as the pages and    *)
(* the sheets count it; and players and teams as they are measured.        *)
(***************************************************************************)
EXTENDS MCParts, CountsProofs, FiniteSetTheorems, WellFoundedInduction, TLAPS

-----------------------------------------------------------------------------
(* The leader of a list *)

\* Of finitely many things there is one that a number says most of.
LEMMA BestOf ==
    ASSUME NEW Xs, IsFiniteSet(Xs), Xs # {}, NEW f \in [Xs -> Int]
    PROVE  \E x \in Xs : \A y \in Xs : f[y] <= f[x]
<1> DEFINE Best(U) == \E x \in U : \A y \in U : f[y] <= f[x]
           Bad == {n \in Nat : \E U \in SUBSET Xs : U # {} /\ Cardinality(U) = n /\ ~Best(U)}
<1>1. SUFFICES ASSUME Bad # {} PROVE FALSE
  <2>1. Cardinality(Xs) \in Nat
    BY FS_CardinalityType
  <2> QED BY <2>1
<1>2. PICK n \in Bad : \A m \in Bad : n <= m
  BY <1>1, LeastOf
<1>3. PICK U \in SUBSET Xs : U # {} /\ Cardinality(U) = n /\ ~Best(U)
  BY <1>2
<1>4. PICK u \in U : TRUE
  BY <1>3
<1>5. IsFiniteSet(U) /\ IsFiniteSet(U \ {u}) /\ Cardinality(U \ {u}) = n - 1
  BY <1>3, FS_Subset, FS_RemoveElement
<1>6. n - 1 \in Nat
  BY <1>5, FS_CardinalityType
<1>7. n - 1 \notin Bad
  <2>1. ~(n <= n - 1)
    BY <1>2
  <2> QED BY <1>2, <2>1
<1>8. f[u] \in Int /\ \A y \in U : f[y] \in Int
  OBVIOUS
<1>9. CASE U \ {u} = {}
  <2>1. \A y \in U : f[y] <= f[u]
    BY <1>8, <1>9
  <2> QED BY <1>3, <2>1
<1>10. CASE U \ {u} # {}
  <2>1. Best(U \ {u})
    BY <1>5, <1>6, <1>7, <1>10
  <2>2. PICK x \in U \ {u} : \A y \in U \ {u} : f[y] <= f[x]
    BY <2>1
  <2>3. CASE f[u] <= f[x]
    <3>1. \A y \in U : f[y] <= f[x]
      BY <2>2, <2>3
    <3> QED BY <1>3, <3>1
  <2>4. CASE ~(f[u] <= f[x])
    <3>1. f[x] <= f[u]
      BY <1>8, <2>4
    <3>2. \A y \in U : f[y] <= f[u]
      BY <1>8, <2>2, <3>1
    <3> QED BY <1>3, <3>2
  <2> QED BY <2>3, <2>4
<1> QED BY <1>9, <1>10

\* A list of four numbers each, the last of them its own, has one leader; an empty one none.
LEMMA LeaderIsListed ==
    ASSUME NEW Xs, IsFiniteSet(Xs), Xs \subseteq Int,
           NEW key \in [Xs -> Int \X Int \X Int \X Int], \A x \in Xs : key[x][4] = -x
    PROVE  Leader(key) \in Xs \cup {0}
<1>1. CASE Xs = {}
  BY <1>1 DEF Leader
<1>2. CASE Xs # {}
  <2> DEFINE At(i) == [x \in Xs |-> key[x][i]]
             Top(U, i) == {x \in U : \A y \in U : key[y][i] <= key[x][i]}
  <2>1. \A i \in 1..4, x \in Xs : key[x][i] \in Int
    OBVIOUS
  <2>2. ASSUME NEW U, U \subseteq Xs, U # {}, NEW i \in 1..4
        PROVE  Top(U, i) \subseteq U /\ Top(U, i) # {}
    <3>1. IsFiniteSet(U)
      BY <2>2, FS_Subset
    <3>2. [x \in U |-> key[x][i]] \in [U -> Int]
      BY <2>1, <2>2
    <3>3. \E x \in U : \A y \in U : [z \in U |-> key[z][i]][y] <= [z \in U |-> key[z][i]][x]
      BY <2>2, <3>1, <3>2, BestOf
    <3> QED BY <2>2, <3>3
  <2>3. PICK one : one = Top(Xs, 1)
    OBVIOUS
  <2>4. PICK two : two = Top(one, 2)
    OBVIOUS
  <2>5. PICK three : three = Top(two, 3)
    OBVIOUS
  <2>0. 1 \in 1..4 /\ 2 \in 1..4 /\ 3 \in 1..4 /\ 4 \in 1..4
    OBVIOUS
  <2>6. one # {} /\ one \subseteq Xs
    <3> HIDE DEF Top
    <3> QED BY <1>2, <2>0, <2>2, <2>3
  <2>7. two # {} /\ two \subseteq Xs /\ two \subseteq one
    <3> HIDE DEF Top
    <3> QED BY <2>0, <2>2, <2>4, <2>6
  <2>8. three # {} /\ three \subseteq Xs /\ three \subseteq two
    <3> HIDE DEF Top
    <3> QED BY <2>0, <2>2, <2>5, <2>7
  <2>9. PICK x : x \in Top(three, 4)
    <3>1. Top(three, 4) # {}
      <4> HIDE DEF Top
      <4> QED BY <2>0, <2>2, <2>8
    <3> QED BY <3>1
  <2>10. x \in Xs /\ x \in three /\ x \in two /\ x \in one
    BY <2>7, <2>8, <2>9
  <2>11. ASSUME NEW y \in Xs \ {x} PROVE Above(key[x], key[y])
    <3>1. DOMAIN key[x] = 1..4
      BY <2>10
    <3>2. key[y][1] <= key[x][1]
      BY <2>3, <2>10
    <3>3. y \notin one => key[y][1] # key[x][1]
      BY <2>3, <2>10
    <3>4. y \in one => key[y][2] <= key[x][2]
      BY <2>4, <2>10
    <3>5. y \in one \ two => key[y][2] # key[x][2]
      BY <2>4, <2>10
    <3>6. y \in two => key[y][3] <= key[x][3]
      BY <2>5, <2>10
    <3>7. y \in two \ three => key[y][3] # key[x][3]
      BY <2>5, <2>10
    <3>8. y \in three => key[y][4] <= key[x][4]
      BY <2>9
    <3>9. key[y][4] # key[x][4]
      BY <2>10
    <3>10. \A i \in 1..4 : key[x][i] \in Int /\ key[y][i] \in Int
      BY <2>1, <2>10
    <3>11. \E i \in 1..4 : key[x][i] > key[y][i] /\ \A j \in 1..i - 1 : key[x][j] = key[y][j]
      <4>1. CASE key[y][1] # key[x][1]
        BY <3>2, <3>10, <4>1
      <4>2. CASE key[y][1] = key[x][1] /\ key[y][2] # key[x][2]
        <5>1. key[x][2] > key[y][2]
          BY <3>3, <3>4, <3>10, <4>2
        <5>2. \A j \in 1..2 - 1 : key[x][j] = key[y][j]
          BY <4>2
        <5> QED BY <5>1, <5>2
      <4>3. CASE key[y][1] = key[x][1] /\ key[y][2] = key[x][2] /\ key[y][3] # key[x][3]
        <5>1. key[x][3] > key[y][3]
          BY <3>3, <3>5, <3>6, <3>10, <4>3
        <5>2. \A j \in 1..3 - 1 : j = 1 \/ j = 2
          OBVIOUS
        <5> QED BY <4>3, <5>1, <5>2
      <4>4. CASE key[y][1] = key[x][1] /\ key[y][2] = key[x][2] /\ key[y][3] = key[x][3]
        <5>1. key[x][4] > key[y][4]
          BY <3>3, <3>5, <3>7, <3>8, <3>9, <3>10, <4>4
        <5>2. \A j \in 1..4 - 1 : j = 1 \/ j = 2 \/ j = 3
          OBVIOUS
        <5> QED BY <4>4, <5>1, <5>2
      <4> QED BY <4>1, <4>2, <4>3, <4>4
    <3> QED BY <3>1, <3>11 DEF Above
  <2>12. \A z \in DOMAIN key \ {x} : Above(key[x], key[z])
    BY <2>11
  <2>13. DOMAIN key = Xs
    OBVIOUS
  <2> HIDE DEF Top, At
  <2> QED BY <1>2, <2>10, <2>12, <2>13 DEF Leader
<1> QED BY <1>1, <1>2

-----------------------------------------------------------------------------
(* One game *)

\* Games of a season can be counted.
LEMMA Counted ==
    ASSUME NEW G, G \subseteq Season
    PROVE  Cardinality(G) \in Int
BY DraftAssumption, FS_Subset, FS_CardinalityType

\* The maps and the heroes are numbered from 1 and can be counted.
LEMMA MapsAndHeroes ==
    IsFiniteSet(Maps) /\ Maps \subseteq Nat \ {0} /\ IsFiniteSet(Heroes) /\ Heroes \subseteq Nat \ {0}
<1>1. Len(ModeOf) \in Nat /\ Maps = 1..Len(ModeOf) /\ Len(RoleOf) \in Nat /\ Heroes = 1..Len(RoleOf)
  BY DraftAssumption DEF Maps, Heroes
<1>2. IsFiniteSet(1..Len(ModeOf)) /\ IsFiniteSet(1..Len(RoleOf))
  BY <1>1, FS_Interval
<1> QED BY <1>1, <1>2

\* Games that are used are of the season.
LEMMA GamesUsedAreOfTheSeason ==
    ASSUME NEW t, NEW limit
    PROVE  GamesUsed(t, limit) \subseteq Season
BY DEF GamesUsed

\* A proposed map is one of those that are free.
LEMMA AutoMapIsFree ==
    ASSUME NEW t, NEW cats, NEW used
    PROVE  autoMap(t, cats, used) \in Free(cats, used) \cup {0}
<1>1. PICK Xs : Xs = Free(cats, used)
  OBVIOUS
<1>2. PICK key : key = [mp \in Free(cats, used) |-> <<Picks(t, mp), PicksOfAll(mp), PlaysOfAll(mp), -mp>>]
  OBVIOUS
<1>3. IsFiniteSet(Xs) /\ Xs \subseteq Int
  <2>1. Xs \in SUBSET Maps
    BY <1>1 DEF Free
  <2>2. IsFiniteSet(Xs)
    BY <2>1, MapsAndHeroes, FS_Subset
  <2>3. Xs \subseteq Int
    BY <2>1, MapsAndHeroes
  <2> QED BY <2>2, <2>3
<1>4. \A mp : Picks(t, mp) \in Int /\ PicksOfAll(mp) \in Int /\ PlaysOfAll(mp) \in Int
  <2> TAKE mp
  <2>1. Picks(t, mp) \in Int
    <3>1. {g \in GamesUsed(t, 0) : g.map = mp /\ g.picker = t} \subseteq Season
      BY GamesUsedAreOfTheSeason
    <3> QED BY <3>1, Counted DEF Picks
  <2>2. PicksOfAll(mp) \in Int
    BY Counted DEF PicksOfAll
  <2>3. PlaysOfAll(mp) \in Int
    BY Counted DEF PlaysOfAll
  <2> QED BY <2>1, <2>2, <2>3
<1>5. key \in [Xs -> Int \X Int \X Int \X Int] /\ \A x \in Xs : key[x][4] = -x
  BY <1>1, <1>2, <1>3, <1>4
<1> QED BY <1>1, <1>2, <1>3, <1>5, LeaderIsListed DEF autoMap

\* A proposed ban is a hero that may be banned.
LEMMA AutoBanIsLegal ==
    ASSUME NEW t, NEW mp, NEW illegal, NEW vs
    PROVE  autoBan(t, mp, illegal, vs) \in (Heroes \ illegal) \cup {0}
<1>1. PICK games : games = GamesUsed(t, window)
  OBVIOUS
<1>2. PICK onMap : onMap = {g \in games : g.map = mp}
  OBVIOUS
<1>3. PICK known : known = {h \in Heroes \ illegal : BansIn(games, t, h) > 0 \/ Replies(games, t, vs, h) > 0}
  OBVIOUS
<1>4. PICK key : key = [h \in known |-> <<Replies(games, t, vs, h), BansIn(onMap, t, h), BansIn(games, t, h), -h>>]
  OBVIOUS
<1>5. IsFiniteSet(known) /\ known \subseteq Int
  <2>1. known \in SUBSET Heroes
    BY <1>3
  <2>2. IsFiniteSet(known)
    BY <2>1, MapsAndHeroes, FS_Subset
  <2>3. known \subseteq Int
    BY <2>1, MapsAndHeroes
  <2> QED BY <2>2, <2>3
<1>6. games \subseteq Season /\ onMap \subseteq Season
  BY <1>1, <1>2, GamesUsedAreOfTheSeason
<1>7. \A h : Replies(games, t, vs, h) \in Int /\ BansIn(games, t, h) \in Int /\ BansIn(onMap, t, h) \in Int
  <2> TAKE h
  <2>1. Replies(games, t, vs, h) \in Int
    BY <1>6, Counted DEF Replies
  <2>2. BansIn(games, t, h) \in Int /\ BansIn(onMap, t, h) \in Int
    BY <1>6, Counted DEF BansIn
  <2> QED BY <2>1, <2>2
<1>8. key \in [known -> Int \X Int \X Int \X Int] /\ \A x \in known : key[x][4] = -x
  BY <1>4, <1>5, <1>7
<1>9. Leader(key) \in known \cup {0}
  BY <1>5, <1>8, LeaderIsListed
<1> QED BY <1>1, <1>2, <1>3, <1>4, <1>9 DEF autoBan

\* What is chosen, of whatever game.
Choice == [map : Maps \cup {0}, b1 : Heroes \cup {0}, b2 : Heroes \cup {0}]
DraftInv == first \in Sides /\ \A p \in DOMAIN tree : tree[p] \in Choice

\* A ban is legal or none, whether it was chosen or proposed.
LEMMA BanIsLegal ==
    ASSUME NEW map, NEW chosen \in Heroes \cup {0}, NEW t, NEW shut, NEW vs
    PROVE  BanOn(map, chosen, t, shut, vs) \in (Heroes \ shut) \cup {0}
<1>1. CASE map = 0
  BY <1>1 DEF BanOn
<1>2. CASE map # 0 /\ BanStands(chosen, shut)
  BY <1>2 DEF BanOn, BanStands
<1>3. CASE map # 0 /\ ~BanStands(chosen, shut)
  BY <1>3, AutoBanIsLegal DEF BanOn
<1> QED BY <1>1, <1>2, <1>3

\* A game on the page: the maps before it and the bans before it.
DraftGames == [map : Maps \cup {0}, b1 : Heroes \cup {0}, b2 : Heroes \cup {0}, ab : Sides,
          cats : SUBSET Modes, shut : SUBSET Heroes, used : SUBSET (Maps \cup {0}),
          banned : [Sides -> SUBSET Heroes]]

Fair(g, opens, used, banned) ==
    /\ g \in DraftGames
    /\ g.map \in Free(allowedCatsFor(opens, used), used) \cup {0}
    /\ g.b1 \notin banned[g.ab]
    /\ g.b2 \notin banned[Other(g.ab)]
    /\ g.b2 # 0 => g.b2 \notin SameRole(g.b1)

\* Whatever was chosen for it, a game takes a map that is free, and bans that are open.
LEMMA GameIsFair ==
    ASSUME DraftInv, NEW path, NEW used \in SUBSET (Maps \cup {0}), NEW banned \in [Sides -> SUBSET Heroes]
    PROVE  Fair(Game(path, used, banned), path = <<>>, used, banned)
<1>1. PICK ov : ov = IF path \in DOMAIN tree THEN tree[path] ELSE NoChoice
  OBVIOUS
<1>2. ov \in Choice
  BY <1>1 DEF DraftInv, Choice, NoChoice
<1>3. PICK ab : ab = Picker(path)
  OBVIOUS
<1>4. ab \in Sides /\ Other(ab) \in Sides
  BY <1>3 DEF DraftInv, Picker, Other, Sides
<1>5. PICK cats : cats = allowedCatsFor(path = <<>>, used)
  OBVIOUS
<1>6. cats \in SUBSET Modes
  BY <1>5 DEF allowedCatsFor, Modes
<1>7. PICK map : map = IF ov.map \in Free(cats, used) THEN ov.map ELSE autoMap(team[ab], cats, used)
  OBVIOUS
<1>8. map \in Free(cats, used) \cup {0} /\ map \in Maps \cup {0}
  BY <1>7, AutoMapIsFree DEF Free
<1>9. PICK b1 : b1 = BanOn(map, ov.b1, team[ab], banned[ab], 0)
  OBVIOUS
<1>10. b1 \in (Heroes \ banned[ab]) \cup {0}
  BY <1>2, <1>9, BanIsLegal DEF Choice
<1>11. PICK shut : shut = banned[Other(ab)] \cup SameRole(b1)
  OBVIOUS
<1>12. shut \in SUBSET Heroes
  BY <1>4, <1>11 DEF SameRole
<1>13. PICK b2 : b2 = BanOn(map, ov.b2, team[Other(ab)], shut, b1)
  OBVIOUS
<1>14. b2 \in (Heroes \ shut) \cup {0}
  BY <1>2, <1>13, BanIsLegal DEF Choice
<1>15. Game(path, used, banned) =
         [map |-> map, b1 |-> b1, b2 |-> b2, ab |-> ab, cats |-> cats, shut |-> shut, used |-> used,
          banned |-> banned]
  BY <1>1, <1>3, <1>5, <1>7, <1>9, <1>11, <1>13 DEF Game
<1>16. PICK g : g = Game(path, used, banned)
  OBVIOUS
<1>17. g \in DraftGames
  BY <1>4, <1>6, <1>8, <1>10, <1>12, <1>14, <1>15, <1>16 DEF DraftGames
<1>18. 0 \notin Heroes
  BY MapsAndHeroes
<1>19. g.b1 \notin banned[g.ab] /\ g.b2 \notin banned[Other(g.ab)]
  BY <1>4, <1>10, <1>11, <1>14, <1>15, <1>16, <1>18
<1>20. g.b2 # 0 => g.b2 \notin SameRole(g.b1)
  BY <1>11, <1>14, <1>15, <1>16
<1> QED BY <1>5, <1>8, <1>15, <1>16, <1>17, <1>19, <1>20 DEF Fair

-----------------------------------------------------------------------------
(* A line of games *)

MapsOf(line, n) == {line[i].map : i \in 1..n}
BansBy(line, n) == [ab \in Sides |-> {BansOf(line[i], ab) : i \in 1..n} \ {0}]

\* Each of its games follows from those before it.
Follows(path, line) ==
    /\ line \in Seq(DraftGames)
    /\ \A i \in 1..Len(line) :
         line[i] = Game(Begin(path, i - 1), MapsOf(line, i - 1), BansBy(line, i - 1))

\* What the games of a line used are maps of the pool, and what a side banned in them are heroes.
LEMMA BansAreHeroes ==
    ASSUME NEW line \in Seq(DraftGames), NEW n \in 0..Len(line)
    PROVE  MapsOf(line, n) \in SUBSET (Maps \cup {0}) /\ BansBy(line, n) \in [Sides -> SUBSET Heroes]
<1>1. \A i \in 1..n : line[i] \in DraftGames
  OBVIOUS
<1>2. MapsOf(line, n) \in SUBSET (Maps \cup {0})
  BY <1>1 DEF MapsOf, DraftGames
<1>3. \A i \in 1..n, ab \in Sides : BansOf(line[i], ab) \in Heroes \cup {0}
  BY <1>1 DEF BansOf, DraftGames
<1>4. BansBy(line, n) \in [Sides -> SUBSET Heroes]
  BY <1>3 DEF BansBy
<1> QED BY <1>2, <1>4

\* One more game.
LEMMA NextFollows ==
    ASSUME DraftInv, NEW path, NEW line, Follows(path, line)
    PROVE  Follows(path, NextGame(path, line)) /\ Len(NextGame(path, line)) = Len(line) + 1
<1>1. line \in Seq(DraftGames) /\ Len(line) \in Nat /\ DOMAIN line = 1..Len(line)
  BY DEF Follows
<1>2. PICK g : g = Game(Begin(path, Len(line)), MapsOf(line, Len(line)), BansBy(line, Len(line)))
  OBVIOUS
<1>3. PICK new : new = NextGame(path, line)
  OBVIOUS
<1>4. new = Append(line, g)
  BY <1>1, <1>2, <1>3 DEF NextGame, MapsOf, BansBy
<1>5. g \in DraftGames
  <2>1. Fair(g, Begin(path, Len(line)) = <<>>, MapsOf(line, Len(line)), BansBy(line, Len(line)))
    BY <1>1, <1>2, BansAreHeroes, GameIsFair
  <2> QED BY <2>1 DEF Fair
<1>6. /\ new \in Seq(DraftGames) /\ Len(new) = Len(line) + 1 /\ new[Len(line) + 1] = g
      /\ \A i \in 1..Len(line) : new[i] = line[i]
  BY <1>1, <1>4, <1>5
<1>7. \A n \in 0..Len(line) : MapsOf(new, n) = MapsOf(line, n) /\ BansBy(new, n) = BansBy(line, n)
  <2> TAKE n \in 0..Len(line)
  <2>1. \A i \in 1..n : new[i] = line[i]
    BY <1>1, <1>6
  <2> QED BY <2>1 DEF MapsOf, BansBy
<1>8. ASSUME NEW i \in 1..Len(new)
      PROVE  new[i] = Game(Begin(path, i - 1), MapsOf(new, i - 1), BansBy(new, i - 1))
  <2>1. CASE i = Len(line) + 1
    BY <1>1, <1>2, <1>6, <1>7, <2>1
  <2>2. CASE i # Len(line) + 1
    <3>1. i \in 1..Len(line) /\ i - 1 \in 0..Len(line)
      BY <1>1, <1>6, <2>2
    <3> QED BY <1>6, <1>7, <3>1 DEF Follows
  <2> QED BY <2>1, <2>2
<1> QED BY <1>3, <1>6, <1>8 DEF Follows

\* So the line of a path has a game more than the path has winners.
LEMMA LineFollows ==
    ASSUME DraftInv, NEW path \in Seq(Sides)
    PROVE  Follows(path, Line(path)) /\ Len(Line(path)) = Len(path) + 1
<1>1. PICK N : N = Len(path) + 1 /\ N \in Nat
  OBVIOUS
<1> DEFINE UpTo(f, m) == f = [n \in 0..m |-> IF n = 0 THEN <<>> ELSE NextGame(path, f[n - 1])]
           Lacking == {m \in 0..N : ~ \E f : UpTo(f, m)}
<1>2. Lacking = {}
  <2>1. SUFFICES ASSUME Lacking # {} PROVE FALSE
    OBVIOUS
  <2>2. PICK m \in Lacking : \A l \in Lacking : m <= l
    <3>1. Lacking \subseteq Nat
      <4> HIDE DEF UpTo
      <4> QED BY <1>1
    <3> HIDE DEF Lacking
    <3> QED BY <2>1, <3>1, LeastOf
  <2>3. CASE m = 0
    <3>1. UpTo([n \in 0..0 |-> <<>>], 0)
      OBVIOUS
    <3> QED BY <2>2, <2>3, <3>1
  <2>4. CASE m # 0
    <3>1. m \in Nat /\ m - 1 \in 0..N /\ m - 1 \notin Lacking
      <4>1. m \in 0..N
        <5> HIDE DEF UpTo
        <5> QED BY <2>2
      <4> HIDE DEF Lacking
      <4> QED BY <1>1, <2>2, <2>4, <4>1
    <3>2. PICK f : UpTo(f, m - 1)
      BY <3>1
    <3>3. PICK g : g = [n \in 0..m |-> IF n = m THEN NextGame(path, f[m - 1]) ELSE f[n]]
      OBVIOUS
    <3>4. \A n \in 0..m - 1 : g[n] = f[n]
      BY <3>1, <3>3
    <3>5. \A n \in 0..m : g[n] = IF n = 0 THEN <<>> ELSE NextGame(path, g[n - 1])
      <4> TAKE n \in 0..m
      <4>1. CASE n = m
        <5>1. m - 1 \in 0..m - 1 /\ m # 0
          BY <2>4, <3>1
        <5> QED BY <3>3, <3>4, <4>1, <5>1
      <4>2. CASE n # m
        <5>1. n \in 0..m - 1 /\ (n # 0 => n - 1 \in 0..m - 1)
          BY <3>1, <4>2
        <5> QED BY <3>2, <3>4, <5>1
      <4> QED BY <4>1, <4>2
    <3>6. UpTo(g, m)
      <4>1. g = [n \in 0..m |-> g[n]]
        BY <3>3
      <4>2. [n \in 0..m |-> g[n]] = [n \in 0..m |-> IF n = 0 THEN <<>> ELSE NextGame(path, g[n - 1])]
        BY <3>5
      <4> QED BY <4>1, <4>2
    <3> QED BY <2>2, <3>6
  <2> QED BY <2>3, <2>4
<1>3. PICK upTo : upTo = CHOOSE f : UpTo(f, N)
  OBVIOUS
<1>4. UpTo(upTo, N)
  <2>1. N \in 0..N
    BY <1>1
  <2>2. \E f : UpTo(f, N)
    BY <1>2, <2>1
  <2> HIDE DEF UpTo
  <2> QED BY <1>3, <2>2
<1>5. Line(path) = upTo[N]
  BY <1>1, <1>3 DEF Line
<1> DEFINE Wrong == {n \in 0..N : ~(Follows(path, upTo[n]) /\ Len(upTo[n]) = n)}
<1>6. Wrong = {}
  <2>1. SUFFICES ASSUME Wrong # {} PROVE FALSE
    OBVIOUS
  <2>2. PICK n \in Wrong : \A l \in Wrong : n <= l
    <3>1. Wrong \subseteq Nat
      BY <1>1
    <3> HIDE DEF Wrong
    <3> QED BY <2>1, <3>1, LeastOf
  <2>3. CASE n = 0
    <3>1. upTo[0] = <<>>
      BY <1>1, <1>4
    <3>2. Follows(path, <<>>) /\ Len(<<>>) = 0
      BY DEF Follows
    <3> QED BY <2>2, <2>3, <3>1, <3>2
  <2>4. CASE n # 0
    <3>1. n \in Nat /\ n - 1 \in 0..N /\ n - 1 \notin Wrong
      BY <1>1, <2>2, <2>4
    <3>2. upTo[n] = NextGame(path, upTo[n - 1])
      BY <1>4, <2>4
    <3>3. Follows(path, upTo[n - 1]) /\ Len(upTo[n - 1]) = n - 1
      BY <3>1
    <3> QED BY <2>2, <3>1, <3>2, <3>3, NextFollows
  <2> QED BY <2>3, <2>4
<1> QED BY <1>1, <1>5, <1>6

-----------------------------------------------------------------------------
(* Every line is legal *)

\* Each game of a line is fair after the games before it.
LEMMA GamesOfALine ==
    ASSUME DraftInv, NEW path \in Seq(Sides), NEW line, line = Line(path)
    PROVE  /\ line \in Seq(DraftGames) /\ Len(line) = Len(path) + 1
           /\ \A n \in 1..Len(line) : Fair(line[n], n = 1, MapsOf(line, n - 1), BansBy(line, n - 1))
<1>1. Follows(path, line) /\ Len(line) = Len(path) + 1
  BY LineFollows
<1>2. line \in Seq(DraftGames) /\ Len(path) \in Nat
  BY <1>1 DEF Follows
<1>3. ASSUME NEW n \in 1..Len(line)
      PROVE  Fair(line[n], n = 1, MapsOf(line, n - 1), BansBy(line, n - 1))
  <2>1. n - 1 \in 0..Len(line) /\ n - 1 \in 0..Len(path)
    BY <1>1, <1>2
  <2>2. (Begin(path, n - 1) = <<>>) <=> (n = 1)
    <3>1. CASE n = 1
      BY <3>1 DEF Begin
    <3>2. CASE n # 1
      <4>1. Len(Begin(path, n - 1)) = n - 1
        BY <1>2, <2>1 DEF Begin
      <4>2. Len(<<>>) = 0
        OBVIOUS
      <4> QED BY <3>2, <4>1, <4>2
    <3> QED BY <3>1, <3>2
  <2>3. line[n] = Game(Begin(path, n - 1), MapsOf(line, n - 1), BansBy(line, n - 1))
    BY <1>1 DEF Follows
  <2> QED BY <1>2, <2>1, <2>2, <2>3, BansAreHeroes, GameIsFair
<1> QED BY <1>1, <1>2, <1>3

\* A line of which every game but the last is played is a draft the league allows.
LEMMA LinesAreLegal ==
    ASSUME DraftInv, NEW path \in Seq(Sides), NEW line, line = Line(path),
           \A n \in 1..Len(path) : line[n].map # 0
    PROVE  LineIsLegal(line)
<1> DEFINE used(n) == MapsOf(line, n - 1)
           banned(n) == BansBy(line, n - 1)
<1>1. PICK ns : ns = {n \in DOMAIN line : line[n].map # 0}
  OBVIOUS
<1>2. line \in Seq(DraftGames) /\ DOMAIN line = 1..Len(line) /\ Len(line) = Len(path) + 1 /\ Len(path) \in Nat
  BY GamesOfALine
<1>3. PICK mode : mode = [n \in DOMAIN line |-> IF n \in ns THEN ModeOf[line[n].map] ELSE "none"]
  OBVIOUS
<1>4. \A n \in DOMAIN line : Fair(line[n], n = 1, used(n), banned(n)) /\ line[n] \in DraftGames
  BY <1>2, GamesOfALine
<1>5. \A n \in ns : /\ n \in 1..Len(line) /\ line[n].map \in Maps \ used(n)
                     /\ mode[n] = ModeOf[line[n].map]
                     /\ mode[n] \in allowedCatsFor(n = 1, used(n))
  BY <1>1, <1>2, <1>3, <1>4 DEF Fair, Free
<1>6. \A n \in DOMAIN line, i \in 1..Len(line) : i < n => line[i].map \in used(n)
  BY <1>2 DEF MapsOf
<1>7. ASSUME NEW n \in ns PROVE (mode[n] = "Control") <=> (n = 1)
  BY <1>5 DEF allowedCatsFor
<1>8. NoRepeat([n \in DOMAIN line |-> line[n].map], ns)
  <2> SUFFICES ASSUME NEW i \in ns, NEW j \in ns, i # j PROVE line[i].map # line[j].map
    BY <1>1 DEF NoRepeat
  <2>1. i < j \/ j < i
    BY <1>5
  <2> QED BY <1>1, <1>5, <1>6, <2>1
<1>9. ASSUME NEW i \in ns \cap 2..5, NEW j \in ns \cap 2..5, i < j PROVE mode[i] # mode[j]
  <2>1. PICK played : played = {ModeOf[mp] : mp \in used(j)}
    OBVIOUS
  <2>2. 1 \in ns
    <3>1. 1 \in 1..Len(path) /\ 1 \in DOMAIN line
      BY <1>2, <1>5
    <3> QED BY <1>1, <3>1
  <2>3. ModeOf[line[1].map] = "Control"
    BY <1>5, <1>7, <2>2
  <2>4. played \subseteq {"Control", ModeOf[line[2].map], ModeOf[line[3].map], ModeOf[line[4].map]}
    <3>1. \A k \in 1..j - 1 : k = 1 \/ k = 2 \/ k = 3 \/ k = 4
      OBVIOUS
    <3>2. used(j) \subseteq {line[1].map, line[2].map, line[3].map, line[4].map}
      BY <3>1 DEF MapsOf
    <3> QED BY <2>1, <2>3, <3>2
  <2>5. (Modes \ {"Control"}) \ played # {}
    BY <2>4 DEF Modes
  <2>6. mode[j] \notin played
    <3> HIDE DEF used
    <3>1. j # 1 /\ mode[j] \in allowedCatsFor(j = 1, used(j))
      BY <1>5
    <3>2. allowedCatsFor(j = 1, used(j)) = (Modes \ {"Control"}) \ played
      BY <2>1, <2>5, <3>1 DEF allowedCatsFor
    <3> QED BY <3>1, <3>2
  <2>7. mode[i] \in played
    <3>1. line[i].map \in used(j) /\ mode[i] = ModeOf[line[i].map]
      BY <1>1, <1>2, <1>5, <1>6, <1>9
    <3> QED BY <2>1, <3>1
  <2> QED BY <2>6, <2>7
<1>10. ASSUME NEW ab \in Sides PROVE NoRepeat([n \in DOMAIN line |-> BansOf(line[n], ab)], ns)
  <2> SUFFICES ASSUME NEW i \in ns, NEW j \in ns, i < j, BansOf(line[i], ab) # 0
               PROVE  BansOf(line[i], ab) # BansOf(line[j], ab)
    <3>1. \A i, j \in ns : i # j => i < j \/ j < i
      BY <1>5
    <3> QED BY <1>1, <3>1 DEF NoRepeat
  <2>1. i \in 1..j - 1
    BY <1>5
  <2>2. BansOf(line[i], ab) \in banned(j)[ab]
    BY <2>1 DEF BansBy
  <2>3. Fair(line[j], j = 1, used(j), banned(j)) /\ line[j].ab \in Sides
    BY <1>1, <1>4 DEF DraftGames
  <2>4. BansOf(line[j], ab) \notin banned(j)[ab]
    <3>1. CASE line[j].ab = ab
      BY <2>3, <3>1 DEF Fair, BansOf
    <3>2. CASE line[j].ab # ab
      <4>1. Other(line[j].ab) = ab
        BY <2>3, <3>2 DEF Other, Sides
      <4> QED BY <2>3, <3>2, <4>1 DEF Fair, BansOf
    <3> QED BY <3>1, <3>2
  <2> QED BY <2>2, <2>4
<1>11. ASSUME NEW n \in ns, line[n].b1 # 0, line[n].b2 # 0
       PROVE  RoleOf[line[n].b1] # RoleOf[line[n].b2]
  <2>1. line[n].b2 \in Heroes /\ line[n].b2 \notin SameRole(line[n].b1)
    BY <1>1, <1>4, <1>11 DEF Fair, DraftGames
  <2> QED BY <1>11, <2>1 DEF SameRole
<1>12. \A i, j \in ns \cap 2..5 : i # j => mode[i] # mode[j]
  <2> TAKE i, j \in ns \cap 2..5
  <2> HAVE i # j
  <2>1. i < j \/ j < i
    OBVIOUS
  <2> QED BY <1>9, <2>1
<1> QED BY <1>1, <1>3, <1>7, <1>8, <1>10, <1>11, <1>12 DEF LineIsLegal

\* A path of the tree is a sequence of winners.
LEMMA PathsAreSequences ==
    ASSUME format \in Nat
    PROVE  Paths(format) \subseteq Seq(Sides)
<1> SUFFICES ASSUME NEW p \in Paths(format) PROVE p \in Seq(Sides)
  OBVIOUS
<1>1. PICK n \in 0..2 * format - 2 : p \in [1..n -> Sides]
  BY DEF Paths
<1> QED BY <1>1

\* What is on the page is the line of a path.
LEMMA DrawnAreLines ==
    ASSUME format \in Nat, NEW p \in DOMAIN Drawn
    PROVE  /\ p \in Seq(Sides) /\ Drawn[p] = Line(p)
           /\ \A n \in 1..Len(p) : Drawn[p][n].map # 0
<1>1. PICK opened : opened = {q \in Paths(format) : \A n \in 1..Len(q) : Begin(q, n) \in open}
  OBVIOUS
<1>2. PICK lines : lines = [q \in IF team["A"] = team["B"] THEN {} ELSE opened |-> Line(q)]
  OBVIOUS
<1>3. Drawn = WithMaps(lines)
  BY <1>1, <1>2 DEF Drawn
<1>4. p \in DOMAIN lines /\ Drawn[p] = lines[p] /\ \A n \in 1..Len(p) : lines[p][n].map # 0
  BY <1>3 DEF WithMaps
<1>5. lines[p] = Line(p) /\ p \in Paths(format)
  BY <1>1, <1>2, <1>4
<1> QED BY <1>4, <1>5, PathsAreSequences

\* So every line the page shows is legal.
LEMMA DrawnIsLegal ==
    ASSUME DraftInv, format \in Nat
    PROVE  DraftIsLegal
<1> SUFFICES ASSUME NEW p \in DOMAIN Drawn PROVE LineIsLegal(Drawn[p])
  BY DEF DraftIsLegal, Range
<1> QED BY DrawnAreLines, LinesAreLegal

-----------------------------------------------------------------------------
(* Whatever is clicked *)

\* The game at the end of a path that is shown is a game of the pool.
LEMMA DrawnGames ==
    ASSUME DraftTypeOK, NEW p \in DOMAIN Drawn
    PROVE  DraftInv /\ p \in Seq(Sides) /\ Last(Drawn[p]) \in DraftGames
<1>1. DraftInv /\ format \in Nat
  BY DraftAssumption DEF DraftTypeOK, DraftInv, Choice
<1>2. p \in Seq(Sides) /\ Drawn[p] = Line(p)
  BY <1>1, DrawnAreLines
<1>3. Drawn[p] \in Seq(DraftGames) /\ Len(Drawn[p]) = Len(p) + 1
  BY <1>1, <1>2, GamesOfALine
<1>4. Len(Drawn[p]) \in 1..Len(Drawn[p])
  BY <1>2, <1>3
<1> QED BY <1>1, <1>2, <1>3, <1>4 DEF Last

\* The focus falls back to a beginning of itself.
LEMMA TrimmedIsAPath ==
    ASSUME NEW f \in Seq(Sides), NEW op
    PROVE  Trimmed(f, op) \in Seq(Sides)
<1>1. PICK reach : reach = {n \in 0..Len(f) : \A i \in 1..n : Begin(f, i) \in op}
  OBVIOUS
<1>2. IsFiniteSet(reach) /\ reach \subseteq 0..Len(f) /\ 0 \in reach
  <2>1. reach \in SUBSET (0..Len(f)) /\ IsFiniteSet(0..Len(f))
    BY <1>1, FS_Interval
  <2> QED BY <1>1, <2>1, FS_Subset
<1>3. \E n \in reach : \A i \in reach : i <= n
  <2>1. [n \in reach |-> n] \in [reach -> Int]
    BY <1>2
  <2>2. \E n \in reach : \A i \in reach : [m \in reach |-> m][i] <= [m \in reach |-> m][n]
    BY <1>2, <2>1, BestOf
  <2> QED BY <2>2
<1>4. PICK n : n = CHOOSE m \in reach : \A i \in reach : i <= m
  OBVIOUS
<1>5. n \in 0..Len(f)
  BY <1>2, <1>3, <1>4
<1>6. Begin(f, n) \in Seq(Sides)
  BY <1>5 DEF Begin
<1> QED BY <1>1, <1>4, <1>6 DEF Trimmed

\* A choice of one game leaves the other choices as they are.
LEMMA OverrideKeeps ==
    ASSUME DraftTypeOK, NEW choice \in Choice, Override(choice), focus \in Seq(Sides)
    PROVE  DOMAIN tree' \subseteq Seq(Sides) /\ \A p \in DOMAIN tree' : tree'[p] \in Choice
<1>1. tree' = [p \in DOMAIN tree \cup {focus} |-> IF p = focus THEN choice ELSE tree[p]]
  BY DEF Override
<1>2. DOMAIN tree \subseteq Seq(Sides) /\ \A p \in DOMAIN tree : tree[p] \in Choice
  BY DEF DraftTypeOK, Choice
<1> QED BY <1>1, <1>2

\* A click is counted.
LEMMA ClickKeeps ==
    ASSUME DraftTypeOK, DraftClick
    PROVE  clicks' \in 0..MaxClicks
BY DraftAssumption DEF DraftTypeOK, DraftClick

\* The page keeps its types when a choice is all that changes.
LEMMA ChoicesKeepType ==
    ASSUME DraftTypeOK, NEW choice \in Choice, Override(choice), DraftClick,
           UNCHANGED <<team, first, format, window, open, focus>>
    PROVE  DraftTypeOK'
<1>1. DOMAIN tree' \subseteq Seq(Sides) /\ \A p \in DOMAIN tree' : tree'[p] \in Choice
  BY OverrideKeeps DEF DraftTypeOK
<1>2. clicks' \in 0..MaxClicks
  BY ClickKeeps
<1> QED BY <1>1, <1>2 DEF DraftTypeOK, Choice

\* The page opens with its types.
LEMMA DraftTypeInit == DraftInit => DraftTypeOK
<1> SUFFICES ASSUME DraftInit PROVE DraftTypeOK
  OBVIOUS
<1>1. team \in [Sides -> {Clubs[i] : i \in DOMAIN Clubs}]
  BY DraftAssumption DEF DraftInit, Sides
<1>2. DOMAIN tree = {} /\ open = {} /\ focus = <<>>
  BY DEF DraftInit
<1> QED BY <1>1, <1>2, DraftAssumption DEF DraftInit, DraftTypeOK, Sides

\* Every click keeps the types.
LEMMA DraftTypeStep == DraftTypeOK /\ [DraftNext]_draftVars => DraftTypeOK'
<1> SUFFICES ASSUME DraftTypeOK, [DraftNext]_draftVars PROVE DraftTypeOK'
  OBVIOUS
<1>1. CASE UNCHANGED draftVars
  BY <1>1 DEF draftVars, DraftTypeOK
<1>2. CASE PickMap(Drawn)
  <2>1. PICK g : g = Last(Drawn[focus])
    OBVIOUS
  <2>2. PICK mp \in Free(IF g.map # 0 THEN {ModeOf[g.map]} ELSE {}, g.used) \cup
                    (IF focus = <<>> THEN {} ELSE {autoMap(team[g.ab], {c}, g.used) : c \in g.cats} \ {0}) :
          Override([NoChoice EXCEPT !.map = mp])
    BY <1>2, <2>1 DEF PickMap
  <2>3. mp \in Maps
    <3>1. CASE mp \in Free(IF g.map # 0 THEN {ModeOf[g.map]} ELSE {}, g.used)
      BY <3>1 DEF Free
    <3>2. CASE mp \notin Free(IF g.map # 0 THEN {ModeOf[g.map]} ELSE {}, g.used)
      <4>1. PICK c : mp = autoMap(team[g.ab], {c}, g.used) /\ mp # 0
        BY <2>2, <3>2
      <4>2. mp \in Free({c}, g.used)
        BY <4>1, AutoMapIsFree
      <4> QED BY <4>2 DEF Free
    <3> QED BY <3>1, <3>2
  <2>4. [NoChoice EXCEPT !.map = mp] \in Choice
    BY <2>3 DEF NoChoice, Choice
  <2> QED BY <1>2, <2>2, <2>4, ChoicesKeepType DEF PickMap
<1>3. CASE PickBan(Drawn)
  <2>1. OverrideNow \in Choice
    BY DEF OverrideNow, NoChoice, DraftTypeOK, Choice
  <2>2. PICK h \in Heroes : \/ Override([OverrideNow EXCEPT !.b1 = h])
                          \/ Override([OverrideNow EXCEPT !.b2 = h])
    BY <1>3 DEF PickBan
  <2>3. [OverrideNow EXCEPT !.b1 = h] \in Choice /\ [OverrideNow EXCEPT !.b2 = h] \in Choice
    BY <2>1 DEF Choice
  <2> QED BY <1>3, <2>2, <2>3, ChoicesKeepType DEF PickBan
<1>4. CASE FocusOn(Drawn)
  <2>1. focus' \in Seq(Sides) /\ clicks' \in 0..MaxClicks
    BY <1>4, DrawnGames, ClickKeeps DEF FocusOn
  <2> QED BY <1>4, <2>1 DEF FocusOn, DraftTypeOK
<1>5. CASE Toggle(Drawn)
  <2>1. PICK p \in DOMAIN Drawn, w \in Sides :
          IF Append(p, w) \in open
          THEN /\ open' = open \ {Append(p, w)}
               /\ focus' = Trimmed(IF Len(focus) >= Len(Append(p, w))
                                      /\ Begin(focus, Len(Append(p, w))) = Append(p, w)
                                   THEN p ELSE focus, open')
          ELSE open' = open \cup {Append(p, w)} /\ focus' = Append(p, w)
    BY <1>5 DEF Toggle
  <2>2. p \in Seq(Sides) /\ Append(p, w) \in Seq(Sides) /\ focus \in Seq(Sides) /\ open \subseteq Seq(Sides)
    BY DrawnGames DEF DraftTypeOK
  <2>3. open' \subseteq Seq(Sides) /\ focus' \in Seq(Sides)
    <3>1. CASE Append(p, w) \in open
      BY <2>1, <2>2, <3>1, TrimmedIsAPath
    <3>2. CASE Append(p, w) \notin open
      BY <2>1, <2>2, <3>2
    <3> QED BY <3>1, <3>2
  <2>4. clicks' \in 0..MaxClicks
    BY <1>5, ClickKeeps DEF Toggle
  <2> QED BY <1>5, <2>3, <2>4 DEF Toggle, DraftTypeOK
<1>6. CASE ExpandOrCollapse(Drawn)
  <2>1. format \in Nat
    BY DraftAssumption DEF DraftTypeOK
  <2>2. open' \subseteq Seq(Sides) /\ focus' \in Seq(Sides)
    <3>1. <<>> \in Seq(Sides) /\ {} \subseteq Seq(Sides) /\ Paths(format) \ {<<>>} \subseteq Seq(Sides)
      BY <2>1, PathsAreSequences
    <3>2. CASE open' = Paths(format) \ {<<>>} /\ focus' = focus
      BY <3>1, <3>2 DEF DraftTypeOK
    <3>3. CASE open' = {} /\ focus' = <<>>
      BY <3>1, <3>3
    <3> QED BY <1>6, <3>2, <3>3 DEF ExpandOrCollapse
  <2>3. clicks' \in 0..MaxClicks
    BY <1>6, ClickKeeps DEF ExpandOrCollapse
  <2> QED BY <1>6, <2>2, <2>3 DEF ExpandOrCollapse, DraftTypeOK
<1>7. CASE Control
  <2>1. clicks' \in 0..MaxClicks /\ open' = open
    BY <1>7, ClickKeeps DEF Control
  <2>2. /\ team' \in [Sides -> {Clubs[i] : i \in DOMAIN Clubs}] /\ first' \in Sides
        /\ format' \in Formats /\ window' \in Windows
    BY <1>7 DEF Control, DraftTypeOK
  <2>3. (tree' = tree \/ tree' = <<>>) /\ (focus' = focus \/ focus' = <<>>)
    BY <1>7 DEF Control
  <2>4. DOMAIN tree' \subseteq Seq(Sides) /\ \A p \in DOMAIN tree' : tree'[p] \in Choice
    <3>1. CASE tree' = tree
      BY <3>1 DEF DraftTypeOK, Choice
    <3>2. CASE tree' = <<>>
      <4>1. DOMAIN tree' = {}
        BY <3>2
      <4> QED BY <4>1
    <3> QED BY <2>3, <3>1, <3>2
  <2>5. focus' \in Seq(Sides)
    <3>1. <<>> \in Seq(Sides)
      OBVIOUS
    <3> QED BY <2>3, <3>1 DEF DraftTypeOK
  <2> QED BY <2>1, <2>2, <2>4, <2>5 DEF DraftTypeOK, Choice
<1> QED BY <1>1, <1>2, <1>3, <1>4, <1>5, <1>6, <1>7 DEF DraftNext

\* The types are enough: whatever was chosen, what is shown is legal.
LEMMA DraftTypeIsLegal == DraftTypeOK => DraftIsLegal
BY DrawnIsLegal, DraftAssumption DEF DraftTypeOK, DraftInv, Choice

-----------------------------------------------------------------------------
(* The theorems of the draft *)

\* The draft is one of the parts: its variables move by its clicks alone.
LEMMA DraftIsAPart ==
    /\ PartsInit => DraftInit
    /\ [PartsNext]_<<part, sample, vars, uploadVars, reviewVars, captureVars,
                     consoleVars, draftVars, rows, scrimVars, hostVars>> => [DraftNext]_draftVars
BY DEF PartsInit, PartsNext, Still

\* What is chosen stays of its type: maps and heroes of the pool, and paths of winners.
THEOREM DraftTypeCorrect == PartsSpec => []DraftTypeOK
<1>1. DraftInit => DraftTypeOK
  BY DraftTypeInit
<1>2. DraftTypeOK /\ [DraftNext]_draftVars => DraftTypeOK'
  BY DraftTypeStep
<1> QED BY <1>1, <1>2, DraftIsAPart, PTL DEF PartsSpec

\* app.js renderSim: for every pool, roster, season and list of teams, and whatever was
\* clicked in whichever order, every line of the tree is a draft the league allows.
THEOREM EveryDraftIsLegal == PartsSpec => []DraftsAreLegal
<1>1. DraftTypeOK => DraftsAreLegal
  BY DraftTypeIsLegal DEF DraftsAreLegal
<1> QED BY <1>1, DraftTypeCorrect, PTL

-----------------------------------------------------------------------------
(* The standings of a playoff *)

\* A match has both its teams or none, and a winner only once it has them.
TableRows == [f1 : 0..Bye, f2 : 0..Bye, winner : 0..Bye]
IsPlayed(q) == q.f1 # TBD /\ q.f2 # TBD /\ q.winner \in {TBD, q.f1, q.f2}
RowsInv == rows \in [Matches -> TableRows] /\ \A m \in Matches : rows[m] = Unknown \/ IsPlayed(rows[m])

\* At first no match is known.
LEMMA RowsInit == BracketInit => RowsInv
BY BracketAssumption DEF BracketInit, RowsInv, TableRows, Unknown, TBD, Bye

\* Who takes a place that is known is somebody.
LEMMA TeamsAreKnown ==
    ASSUME RowsInv, NEW p \in Places, Over(p)
    PROVE  Team(p) \in 0..Bye /\ Team(p) # TBD
<1>1. Qualified \in Nat /\ Qualified # 0
  BY BracketAssumption
<1>2. CASE p.by = "seed"
  <2>1. p.n \in Nat \ {0}
    BY <1>2 DEF Places
  <2> QED BY <1>1, <1>2, <2>1 DEF Team, Bye, TBD
<1>3. CASE p.by # "seed"
  <2>1. p.by \in {"winner", "loser"} /\ p.n \in Matches /\ rows[p.n].winner # TBD
    BY <1>3 DEF Places, Over, Matches
  <2>2. IsPlayed(rows[p.n]) /\ rows[p.n] \in TableRows
    BY <2>1 DEF RowsInv, Unknown
  <2>3. CASE p.by = "winner"
    BY <1>1, <2>1, <2>2, <2>3 DEF Team, TableRows
  <2>4. CASE p.by = "loser"
    BY <1>1, <2>1, <2>2, <2>4 DEF Team, TableRows, loserOf, IsPlayed
  <2> QED BY <2>1, <2>3, <2>4
<1> QED BY <1>2, <1>3

\* A step tells the league more of one match, and changes nothing that was known of it.
LEMMA RowsGrow ==
    ASSUME RowsInv, [BracketNext]_rows
    PROVE  /\ RowsInv'
           /\ \A m \in Matches : rows[m].f1 # TBD => rows'[m].f1 = rows[m].f1 /\ rows'[m].f2 = rows[m].f2
           /\ \A m \in Matches : rows[m].winner # TBD => rows'[m] = rows[m]
<1>0. 0 \in 0..Bye /\ TBD = 0
  BY BracketAssumption DEF Bye, TBD
<1>1. CASE UNCHANGED rows
  BY <1>1 DEF RowsInv, TableRows, IsPlayed
<1>2. ASSUME NEW m \in Matches, NEW row \in TableRows, IsPlayed(row), rows' = [rows EXCEPT ![m] = row],
             rows[m].winner = TBD, rows[m].f1 # TBD => row.f1 = rows[m].f1 /\ row.f2 = rows[m].f2
      PROVE  /\ RowsInv'
             /\ \A k \in Matches : rows[k].f1 # TBD => rows'[k].f1 = rows[k].f1 /\ rows'[k].f2 = rows[k].f2
             /\ \A k \in Matches : rows[k].winner # TBD => rows'[k] = rows[k]
  <2>1. rows'[m] = row /\ \A k \in Matches \ {m} : rows'[k] = rows[k]
    BY <1>2 DEF RowsInv
  <2>2. rows' \in [Matches -> TableRows]
    BY <1>2 DEF RowsInv
  <2>3. \A k \in Matches : rows'[k] = Unknown \/ IsPlayed(rows'[k])
    BY <1>2, <2>1 DEF RowsInv
  <2> QED BY <1>2, <2>1, <2>2, <2>3 DEF RowsInv
<1>3. CASE MatchDrawn
  <2>1. PICK m \in Matches :
          /\ rows[m].f1 = TBD /\ Over(Draws[m].from[1]) /\ Over(Draws[m].from[2])
          /\ rows' = [rows EXCEPT ![m] =
               [f1 |-> Team(Draws[m].from[1]), f2 |-> Team(Draws[m].from[2]),
                winner |-> CASE Team(Draws[m].from[1]) = Bye -> Team(Draws[m].from[2])
                             [] Team(Draws[m].from[1]) # Bye /\ Team(Draws[m].from[2]) = Bye
                                  -> Team(Draws[m].from[1])
                             [] OTHER -> TBD]]
    BY <1>3 DEF MatchDrawn
  <2>2. Draws[m].from[1] \in Places /\ Draws[m].from[2] \in Places
    <3>1. Draws[m] \in [group : Nat, round : Nat, from : Places \X Places]
      <4>1. PICK D : D = [group : Nat, round : Nat, from : Places \X Places]
        OBVIOUS
      <4>2. Draws \in Seq(D)
        BY <4>1, BracketAssumption, Zenon
      <4>3. Draws[m] \in D
        BY <4>2 DEF Matches
      <4> QED BY <4>1, <4>3
    <3>2. PICK from : from = Draws[m].from
      OBVIOUS
    <3>3. from \in Places \X Places
      BY <3>1, <3>2
    <3> QED BY <3>2, <3>3
  <2>3. PICK f1, f2 : f1 = Team(Draws[m].from[1]) /\ f2 = Team(Draws[m].from[2])
    OBVIOUS
  <2>4. f1 \in 0..Bye /\ f1 # TBD /\ f2 \in 0..Bye /\ f2 # TBD
    BY <2>1, <2>2, <2>3, TeamsAreKnown
  <2>5. PICK row : row = [f1 |-> f1, f2 |-> f2,
                          winner |-> CASE f1 = Bye -> f2 [] f1 # Bye /\ f2 = Bye -> f1 [] OTHER -> TBD]
    OBVIOUS
  <2>6. row \in TableRows /\ IsPlayed(row)
    <3>1. row.winner \in {TBD, f1, f2}
      BY <2>5
    <3> QED BY <1>0, <2>4, <2>5, <3>1 DEF TableRows, IsPlayed
  <2>7. rows' = [rows EXCEPT ![m] = row]
    BY <2>1, <2>3, <2>5
  <2>8. rows[m].winner = TBD
    BY <2>1 DEF RowsInv, IsPlayed, Unknown
  <2> QED BY <1>2, <2>1, <2>6, <2>7, <2>8
<1>4. CASE MatchEnds
  <2>1. PICK m \in Matches : /\ rows[m].f1 # TBD /\ rows[m].winner = TBD
                             /\ \E t \in {rows[m].f1, rows[m].f2} : rows' = [rows EXCEPT ![m].winner = t]
    BY <1>4 DEF MatchEnds
  <2>6. PICK t \in {rows[m].f1, rows[m].f2} : rows' = [rows EXCEPT ![m].winner = t]
    BY <2>1
  <2>2. IsPlayed(rows[m]) /\ rows[m] \in TableRows
    BY <2>1 DEF RowsInv, Unknown
  <2>3. PICK row : row = [rows[m] EXCEPT !.winner = t]
    OBVIOUS
  <2>4. row \in TableRows /\ IsPlayed(row) /\ row.f1 = rows[m].f1 /\ row.f2 = rows[m].f2
    BY <2>2, <2>3 DEF TableRows, IsPlayed
  <2>5. rows' = [rows EXCEPT ![m] = row]
    BY <2>3, <2>6
  <2> QED BY <1>2, <2>1, <2>4, <2>5
<1> QED BY <1>1, <1>3, <1>4 DEF BracketNext

-----------------------------------------------------------------------------
Lower(i) == Stage(UbRounds + i)
Through(i) == Lower(i) # {} /\ \A m \in Lower(i) : rows[m].winner # TBD
OutIn(i) == OutOf(Lower(i))

\* The matches known of a stage stay known.
LEMMA StagesGrow ==
    ASSUME RowsInv, [BracketNext]_rows, NEW k
    PROVE  Stage(k) \subseteq Stage(k)'
BY RowsGrow DEF Stage, playoffStageKey

\* A round that is over stays as it is.
LEMMA RoundsStay ==
    ASSUME RowsInv, [BracketNext]_rows, DrawnWhole, NEW i \in 0..LbRounds - 1, Through(i)
    PROVE  Lower(i)' = Lower(i) /\ Through(i)' /\ OutIn(i)' = OutIn(i)
<1>1. Lower(i) \subseteq Lower(i)'
  BY StagesGrow DEF Lower
<1>2. Lower(i) = {m \in Matches : playoffStageKey[m] = UbRounds + i}
  BY DEF DrawnWhole, Through, Lower
<1>3. Lower(i)' \subseteq {m \in Matches : playoffStageKey[m] = UbRounds + i}
  BY DEF Lower, Stage, playoffStageKey
<1>4. Lower(i)' = Lower(i)
  BY <1>1, <1>2, <1>3
<1>5. \A m \in Lower(i) : rows'[m] = rows[m] /\ rows[m].winner # TBD
  BY RowsGrow DEF Through, Lower, Stage
<1>6. Through(i)'
  BY <1>4, <1>5 DEF Through
<1>7. OutIn(i)' = OutIn(i)
  <2>1. PICK Xs : Xs = Lower(i)
    OBVIOUS
  <2>2. OutOf(Xs)' = OutOf(Xs)
    BY <1>5, <2>1 DEF OutOf
  <2> QED BY <1>4, <2>1, <2>2 DEF OutIn
<1> QED BY <1>4, <1>6, <1>7

RoundsOver == {i \in 0..LbRounds - 1 : \A j \in 0..i : Through(j)}
LeftIn(i) == Qualified - Cardinality(UNION {OutIn(j) : j \in 0..i - 1})
Finals == {m \in Stage(UbRounds + LbRounds) : rows[m].winner # TBD}
TierOf(i) == [start |-> LeftIn(i) - Cardinality(OutIn(i)) + 1, teams |-> OutIn(i)]

\* The places shown, told by round.
LEMMA PlacementsAre ==
    playoffPlacements =
      {TierOf(i) : i \in {j \in RoundsOver : OutIn(j) # {}}}
      \cup {[start |-> 2, teams |-> {loserOf(rows[m])}] : m \in Finals}
      \cup {[start |-> 1, teams |-> {rows[m].winner}] : m \in Finals}
BY DEF playoffPlacements, TierOf, RoundsOver, LeftIn, Finals, OutIn, Through, Lower

\* The places shown after a step, told in the same way.
LEMMA PlacementsWillBe ==
    playoffPlacements' =
      {TierOf(i)' : i \in {j \in RoundsOver' : OutIn(j)' # {}}}
      \cup {[start |-> 2, teams |-> {loserOf(rows'[m])}] : m \in Finals'}
      \cup {[start |-> 1, teams |-> {rows'[m].winner}] : m \in Finals'}
BY DEF playoffPlacements, TierOf, RoundsOver, LeftIn, Finals, OutIn, Through, Lower, loserOf

\* A round that is over keeps its tier.
LEMMA TiersStay ==
    ASSUME RowsInv, [BracketNext]_rows, DrawnWhole, NEW i \in RoundsOver
    PROVE  i \in RoundsOver' /\ TierOf(i)' = TierOf(i) /\ OutIn(i)' = OutIn(i)
<1>1. LbRounds \in Int /\ i \in 0..LbRounds - 1
  BY BracketAssumption DEF LbRounds, RoundsOver
<1>2. \A j \in 0..i : j \in 0..LbRounds - 1 /\ Through(j)
  BY <1>1 DEF RoundsOver
<1>3. \A j \in 0..i : Through(j)' /\ OutIn(j)' = OutIn(j)
  BY <1>2, RoundsStay
<1>4. LeftIn(i)' = LeftIn(i)
  <2>1. \A j \in 0..i - 1 : OutIn(j)' = OutIn(j)
    BY <1>1, <1>3
  <2>2. {OutIn(j)' : j \in 0..i - 1} = {OutIn(j) : j \in 0..i - 1}
    BY <2>1
  <2> QED BY <2>2 DEF LeftIn
<1>5. OutIn(i)' = OutIn(i)
  BY <1>1, <1>3
<1>6. i \in RoundsOver'
  BY <1>1, <1>3 DEF RoundsOver, LbRounds
<1> QED BY <1>4, <1>5, <1>6 DEF TierOf

\* A final that is over stays as it is.
LEMMA FinalsStay ==
    ASSUME RowsInv, [BracketNext]_rows, NEW m \in Finals
    PROVE  m \in Finals' /\ rows'[m] = rows[m]
<1>1. m \in Stage(UbRounds + LbRounds) /\ m \in Matches /\ rows[m].winner # TBD
  BY DEF Finals, Stage
<1>2. rows'[m] = rows[m]
  BY <1>1, RowsGrow
<1>3. m \in Stage(UbRounds + LbRounds)'
  BY <1>1, StagesGrow
<1> QED BY <1>1, <1>2, <1>3 DEF Finals, LbRounds, TBD

\* A step takes no place back.
LEMMA StepKeepsPlaces == RowsInv /\ [BracketNext]_rows => PlacesStay
<1> SUFFICES ASSUME RowsInv, [BracketNext]_rows, DrawnWhole, NEW tier \in playoffPlacements
             PROVE  tier \in playoffPlacements'
  BY DEF PlacesStay
<1>1. CASE \E i \in RoundsOver : OutIn(i) # {} /\ tier = TierOf(i)
  <2>1. PICK i \in RoundsOver : OutIn(i) # {} /\ tier = TierOf(i)
    BY <1>1
  <2>2. i \in RoundsOver' /\ TierOf(i)' = tier /\ OutIn(i)' # {}
    BY <2>1, TiersStay
  <2>3. tier \in {TierOf(j)' : j \in {k \in RoundsOver' : OutIn(k)' # {}}}
    BY <2>2
  <2> QED BY <2>3, PlacementsWillBe
<1>2. CASE \E m \in Finals : \/ tier = [start |-> 2, teams |-> {loserOf(rows[m])}]
                            \/ tier = [start |-> 1, teams |-> {rows[m].winner}]
  <2>1. PICK m \in Finals : \/ tier = [start |-> 2, teams |-> {loserOf(rows[m])}]
                            \/ tier = [start |-> 1, teams |-> {rows[m].winner}]
    BY <1>2
  <2>2. m \in Finals' /\ rows'[m] = rows[m]
    BY FinalsStay
  <2> QED BY <2>1, <2>2, PlacementsWillBe
<1> QED BY <1>1, <1>2, PlacementsAre

\* A place the table shows stands, whatever the bracket and whoever wins.
THEOREM PlacesAreKept == BracketSpec => [][PlacesStay]_rows
<1>1. BracketInit => RowsInv
  BY RowsInit
<1>2. RowsInv /\ [BracketNext]_rows => RowsInv'
  BY RowsGrow
<1>3. RowsInv /\ [BracketNext]_rows => [PlacesStay]_rows
  BY StepKeepsPlaces
<1> QED BY <1>1, <1>2, <1>3, PTL DEF BracketSpec

-----------------------------------------------------------------------------
(* What is left to capture *)

\* Both modules count alike.
LEMMA SameNumber == \A Xs : Q!Cardinality(Xs) = Cardinality(Xs)
BY DEF Q!Cardinality, Cardinality

\* And what is finite in one is so in the other.
LEMMA SameFinite == \A Xs : Q!IsFiniteSet(Xs) <=> IsFiniteSet(Xs)
BY DEF Q!IsFiniteSet, IsFiniteSet

\* The patch that counts for a region is a day, no earlier than the one for all.
LEMMA WipeIsADay ==
    ASSUME NEW s, NEW Rs, NEW Cs, Q!IsFeed(s, Rs, Cs), NEW r
    PROVE  Q!effectiveWipe(s, r) \in 0..98 /\ s.wipe <= Q!effectiveWipe(s, r)
BY DEF Q!IsFeed, Q!effectiveWipe

\* The page and the bot call the same codes dead, but for those of no known day.
LEMMA DeadForBoth ==
    ASSUME NEW s, NEW Rs, NEW Cs, Q!IsFeed(s, Rs, Cs), NEW g \in s.games
    PROVE  Q!isDead(s, g) <=> Q!codeDeadFor(s, g)
<1>1. g.day \in 0..98
  BY DEF Q!IsFeed, Q!GamesOf
<1> QED BY <1>1, WipeIsADay DEF Q!isDead, Q!Day, Q!codeDeadFor, Q!Unrecorded

\* The page and the bot have the same queue, whatever is asked for.
LEMMA OneQueueHolds ==
    ASSUME NEW s, NEW Rs, NEW Cs, Q!IsFeed(s, Rs, Cs)
    PROVE  Q!OneQueue(s)
<1>1. ASSUME NEW rs, NEW cs
      PROVE  Q!pending(s, rs, cs) = {g \in Q!scoutQueue(s) : Q!matchesAny(g.region, rs) /\ Q!matchesAny(g.club, cs)}
  BY DeadForBoth DEF Q!pending, Q!scoutQueue
<1>2. Q!expiredKeys(s) \cap Q!scoutQueue(s) = {}
  BY DeadForBoth DEF Q!expiredKeys, Q!scoutQueue
<1>3. ASSUME NEW g \in s.games, g.day # Q!Unrecorded /\ g.day <= s.wipe
      PROVE  Q!codeDeadFor(s, g) /\ Q!isDead(s, g)
  <2>1. g.day \in 0..98 /\ s.wipe \in 0..98
    BY DEF Q!IsFeed, Q!GamesOf
  <2>2. Q!codeDeadFor(s, g)
    BY <1>3, <2>1, WipeIsADay DEF Q!codeDeadFor
  <2> QED BY <2>2, DeadForBoth
<1>4. ASSUME NEW g \in s.games, Q!classifyCode(s, g).dead
      PROVE  Q!codeDeadFor(s, g) /\ Q!isDead(s, g)
  <2>1. g.day # Q!Unrecorded /\ g.day < s.wipe /\ g.day \in Int /\ s.wipe \in Int
    <3>1. g.day # Q!Unrecorded /\ g.day < s.wipe
      BY <1>4, Zenon DEF Q!classifyCode
    <3>2. g.day \in Int /\ s.wipe \in Int
      BY DEF Q!IsFeed, Q!GamesOf
    <3> QED BY <3>1, <3>2
  <2> QED BY <1>3, <2>1
<1>5. ASSUME NEW g \in s.games, Q!codesCell(s, {g}) = "wiped"
      PROVE  Q!codeDeadFor(s, g) /\ Q!isDead(s, g)
  <2>1. PICK found : found = Q!codeLookup(s, {g})
    OBVIOUS
  <2>2. found # {} /\ \E r \in found : r.dead
    BY <1>5, <2>1 DEF Q!codesCell
  <2>3. g.day # Q!Unrecorded /\ g.day <= s.wipe
    <3>1. PICK r \in found : r.dead
      BY <2>2
    <3>2. r = [g |-> g, dead |-> g.day # Q!Unrecorded /\ g.day <= s.wipe]
      BY <2>1 DEF Q!codeLookup
    <3> QED BY <3>1, <3>2, Zenon
  <2> QED BY <1>3, <2>3
<1> QED BY <1>1, <1>2, <1>4, <1>5 DEF Q!OneQueue

-----------------------------------------------------------------------------
(* What a view shows *)

\* A game of a view is dead there as it is by its own region.
LEMMA DeadInTheView ==
    ASSUME NEW s, NEW Rs, NEW Cs, Q!IsFeed(s, Rs, Cs), NEW g \in s.games
    PROVE  Q!codeDead(s, g.region, g) <=> Q!codeDeadFor(s, g)
<1>1. [g EXCEPT !.region = g.region] = g
  BY DEF Q!IsFeed, Q!GamesOf
<1> QED BY <1>1 DEF Q!codeDead

\* The queue of a view is what is coded, not captured and not dead in its region.
LEMMA ViewQueueIs ==
    ASSUME NEW s, NEW Rs, NEW Cs, Q!IsFeed(s, Rs, Cs), NEW view, NEW g \in s.games
    PROVE  g \in Q!viewQueue(s, view) <=>
             g.region = view /\ g.coded /\ ~g.captured /\ ~Q!codeDead(s, view, g)
BY DeadInTheView DEF Q!viewQueue, Q!scoutQueue

\* The card of a team of the view: what is left and what is lost of its games.
LEMMA CardIsOfTheQueue ==
    ASSUME NEW s, NEW Rs, NEW Cs, Q!IsFeed(s, Rs, Cs), NEW view, NEW club,
           \A g \in s.games : g.club = club => g.region = view
    PROVE  /\ Q!coverageCard(s, view, club).codes = {g \in Q!viewQueue(s, view) : g.club = club}
           /\ Q!coverageCard(s, view, club).codes \cap Q!coverageCard(s, view, club).lost = {}
           /\ (Q!coverageCard(s, view, club).codes # {}) <=> (Q!coverageState(s, club) = "partial")
<1>1. PICK withCode : withCode = {g \in s.games : g.region = view /\ g.club = club /\ g.coded}
  OBVIOUS
<1>2. PICK scoutable : scoutable = {g \in withCode : g.captured \/ ~Q!codeDead(s, view, g)}
  OBVIOUS
<1>3. PICK todo : todo = {g \in scoutable : ~g.captured}
  OBVIOUS
<1>4. PICK done : done = {g \in withCode : g.captured}
  OBVIOUS
<1>5. PICK line : line = Q!coverageState(s, club)
  OBVIOUS
<1>6. PICK card : card = Q!coverageCard(s, view, club)
  OBVIOUS
<1>7. /\ card.codes = IF line = "wiped" THEN {} ELSE todo
      /\ card.lost = withCode \ scoutable
  BY <1>1, <1>2, <1>3, <1>5, <1>6 DEF Q!coverageCard
<1>8. todo = {g \in Q!viewQueue(s, view) : g.club = club}
  <2>1. \A g \in s.games : g \in todo <=> g \in Q!viewQueue(s, view) /\ g.club = club
    BY <1>1, <1>2, <1>3, ViewQueueIs
  <2>2. todo \subseteq s.games /\ Q!viewQueue(s, view) \subseteq s.games
    BY <1>1, <1>2, <1>3 DEF Q!viewQueue, Q!scoutQueue
  <2> QED BY <2>1, <2>2
<1>9. withCode = {g \in s.games : g.club = club /\ g.coded}
  BY <1>1
<1>10. scoutable = {g \in withCode : g.captured \/ ~Q!codeDeadFor(s, g)}
  BY <1>1, <1>2, DeadInTheView
<1>11. line = CASE withCode = {} -> "none" [] withCode # {} /\ scoutable = {} -> "wiped"
               [] scoutable # {} /\ done = scoutable -> "full" [] OTHER -> "partial"
  BY <1>4, <1>5, <1>9, <1>10, Zenon DEF Q!coverageState
<1>12. todo # {} <=> line = "partial"
  <2>1. CASE todo # {}
    <3>1. withCode # {} /\ scoutable # {} /\ done # scoutable
      BY <1>2, <1>3, <1>4, <2>1
    <3> QED BY <1>11, <2>1, <3>1
  <2>2. CASE todo = {}
    <3>1. done = scoutable /\ (withCode = {} => scoutable = {})
      BY <1>2, <1>3, <1>4, <2>2
    <3>2. CASE withCode = {}
      BY <1>11, <2>2, <3>2
    <3>3. CASE withCode # {} /\ scoutable = {}
      BY <1>11, <2>2, <3>3
    <3>4. CASE scoutable # {}
      BY <1>11, <2>2, <3>1, <3>4
    <3> QED BY <3>2, <3>3, <3>4
  <2> QED BY <2>1, <2>2
<1>13. card.codes = todo /\ card.codes \cap card.lost = {} /\ ((card.codes # {}) <=> (line = "partial"))
  BY <1>2, <1>3, <1>7, <1>12
<1> QED BY <1>5, <1>6, <1>8, <1>13

\* A sample that is stale ends on a day the patch came after.
LEMMA StaleIsOld ==
    ASSUME NEW s, NEW Rs, NEW Cs, Q!IsFeed(s, Rs, Cs), Q!capSample(s).stale,
           NEW g \in s.games, g.captured, g.day # Q!Unrecorded
    PROVE  Q!codeDeadFor(s, g)
<1> DEFINE days == {h.day : h \in {k \in s.games : k.captured}} \ {Q!Unrecorded}
           Ends(d, e) == \A x \in days : d <= x /\ x <= e
           Noted == [n : {Q!Cardinality({h \in s.games : h.captured /\ h.day # Q!Unrecorded})},
                       from : days, to : days, stale : BOOLEAN]
           Right(c) == Ends(c.from, c.to) /\ c.stale = (c.to <= s.wipe)
<1>1. days \subseteq 0..98 /\ g.day \in days /\ s.wipe \in 0..98
  BY DEF Q!IsFeed, Q!GamesOf
<1>2. PICK from \in days : \A x \in days : from <= x
  <2>1. days \subseteq Nat /\ days # {}
    <3> HIDE DEF days
    <3> QED BY <1>1
  <2> HIDE DEF days
  <2> QED BY <2>1, LeastOf
<1>3. PICK to \in days : \A x \in days : x <= to
  <2>2. PICK turned : turned = {98 - x : x \in days}
    OBVIOUS
  <2>3. turned \subseteq Nat /\ turned # {}
    BY <1>1, <2>2
  <2>4. PICK n \in turned : \A m \in turned : n <= m
    BY <2>3, LeastOf
  <2>5. PICK x \in days : n = 98 - x
    BY <2>2, <2>4
  <2>6. \A y \in days : 98 - x <= 98 - y
    BY <2>2, <2>4, <2>5
  <2>7. \A y \in days : y <= x
    <3> HIDE DEF days
    <3> QED BY <1>1, <2>5, <2>6
  <2> QED BY <2>5, <2>7
<1>4. \E c \in Noted : Right(c)
  <2>1. PICK c : c = [n |-> Q!Cardinality({h \in s.games : h.captured /\ h.day # Q!Unrecorded}),
                      from |-> from, to |-> to, stale |-> to <= s.wipe]
    OBVIOUS
  <2>2. c \in Noted
    BY <2>1
  <2>3. Right(c)
    BY <1>2, <1>3, <2>1
  <2> QED BY <2>2, <2>3
<1>5. Q!capSample(s) = CHOOSE c \in Noted : Right(c)
  BY <1>1, Zenon DEF Q!capSample
<1>6. PICK c : c = Q!capSample(s) /\ c \in Noted /\ Right(c)
  BY <1>4, <1>5
<1>7. c.stale /\ c.to \in days /\ g.day <= c.to /\ (c.stale = (c.to <= s.wipe))
  BY <1>1, <1>6
<1>8. c.to <= s.wipe
  BY <1>7
<1>a. g.day \in Nat /\ c.to \in Nat /\ s.wipe \in Nat
  <2> HIDE DEF days, Right
  <2>1. c.to \in days /\ g.day \in days
    BY <1>1, <1>7
  <2>2. c.to \in 0..98 /\ g.day \in 0..98 /\ s.wipe \in 0..98
    BY <1>1, <2>1
  <2> QED BY <2>2
<1>9. g.day <= s.wipe
  <2> HIDE DEF days, Right
  <2> QED BY <1>7, <1>8, <1>a
<1>10. Q!effectiveWipe(s, g.region) \in 0..98 /\ s.wipe <= Q!effectiveWipe(s, g.region)
  BY WipeIsADay
<1>11. g.day <= Q!effectiveWipe(s, g.region)
  <2>1. Q!effectiveWipe(s, g.region) \in Nat
    BY <1>10
  <2> HIDE DEF days
  <2> QED BY <1>9, <1>10, <1>a, <2>1
<1> QED BY <1>11 DEF Q!codeDeadFor

\* The badge, the cards, the lines and the cells of a view tell of the same games.
LEMMA OneViewHolds ==
    ASSUME NEW s, NEW Rs, NEW Cs, Q!IsFeed(s, Rs, Cs), NEW view
    PROVE  Q!OneView(s, view)
<1>1. PICK games : games = {g \in s.games : g.region = view}
  OBVIOUS
<1>2. {g \in games : ~g.captured /\ Q!codeBit(s, view, g) = "code"} = Q!viewQueue(s, view)
  <2>1. \A g \in s.games : Q!codeBit(s, view, g) = "code" <=> g.coded /\ ~Q!codeDead(s, view, g)
    BY Zenon DEF Q!codeBit
  <2>2. Q!viewQueue(s, view) \subseteq s.games
    BY DEF Q!viewQueue, Q!scoutQueue
  <2> QED BY <1>1, <2>1, <2>2, ViewQueueIs
<1>3. ASSUME NEW club \in {g.club : g \in games}
      PROVE  LET card == Q!coverageCard(s, view, club)
                 count == Q!scoutedCount({g \in games : g.club = club}) IN
             /\ card.codes = {g \in Q!viewQueue(s, view) : g.club = club}
             /\ card.codes \cap card.lost = {}
             /\ (card.codes # {}) <=> (Q!coverageState(s, club) = "partial")
             /\ count.done = count.total => card.codes = {}
  <2>1. \A g \in s.games : g.club = club => g.region = view
    BY <1>1, <1>3 DEF Q!IsFeed
  <2>2. PICK card : card = Q!coverageCard(s, view, club)
    OBVIOUS
  <2>3. PICK own : own = {g \in games : g.club = club}
    OBVIOUS
  <2>4. PICK count : count = Q!scoutedCount(own)
    OBVIOUS
  <2>5. /\ card.codes = {g \in Q!viewQueue(s, view) : g.club = club}
        /\ card.codes \cap card.lost = {}
        /\ (card.codes # {}) <=> (Q!coverageState(s, club) = "partial")
    BY <2>1, <2>2, CardIsOfTheQueue
  <2>6. ASSUME count.done = count.total PROVE card.codes = {}
    <3>1. PICK done : done = {g \in own : g.captured}
      OBVIOUS
    <3>2. Cardinality(done) = Cardinality(own)
      BY <2>4, <2>6, <3>1, SameNumber DEF Q!scoutedCount
    <3>3. own \in SUBSET s.games /\ done \in SUBSET own
      BY <1>1, <2>3, <3>1
    <3>4. IsFiniteSet(own)
      BY <3>3, FS_Subset, SameFinite DEF Q!IsFeed
    <3>5. done = own
      BY <3>2, <3>3, <3>4, FS_Subset
    <3>6. \A g \in Q!viewQueue(s, view) : g.club = club => g \in own /\ ~g.captured
      BY <1>1, <2>3, ViewQueueIs DEF Q!viewQueue, Q!scoutQueue
    <3> QED BY <2>5, <3>1, <3>5, <3>6
  <2> QED BY <2>2, <2>3, <2>4, <2>5, <2>6
<1>4. ASSUME Q!capSample(s).stale, NEW g \in games, g.captured, g.day # Q!Unrecorded
      PROVE  Q!codeDead(s, view, g)
  <2>1. g \in s.games /\ g.region = view
    BY <1>1
  <2> QED BY <1>4, <2>1, StaleIsOld, DeadInTheView
<1>5. Q!capSample(s).stale => \A g \in games : g.captured /\ g.day # Q!Unrecorded => Q!codeDead(s, view, g)
  BY <1>4
<1>6. \A club \in {g.club : g \in games} :
        LET card == Q!coverageCard(s, view, club)
            count == Q!scoutedCount({g \in games : g.club = club}) IN
        /\ card.codes = {g \in Q!viewQueue(s, view) : g.club = club}
        /\ card.codes \cap card.lost = {}
        /\ (card.codes # {}) <=> (Q!coverageState(s, club) = "partial")
        /\ count.done = count.total => card.codes = {}
  BY <1>3
<1> QED BY <1>1, <1>2, <1>5, <1>6, Zenon DEF Q!OneView

\* The line under the title says no more than the queue of the view allows.
LEMMA NoteHolds ==
    ASSUME NEW s, NEW view, NEW shown, NEW who,
           shown.season \in BOOLEAN /\ shown.ahead \in BOOLEAN
    PROVE  Q!NoteIsTrue(s, view, shown, who)
<1>1. PICK q : q = Q!viewQueue(s, view)
  OBVIOUS
<1>2. PICK note : note = Q!wipeNote(s, view, shown, who)
  OBVIOUS
<1>3. note = "capture" \/ note = Q!seasonNote(shown, q # {})
  BY <1>1, <1>2 DEF Q!wipeNote
<1>4. note = "capture" => q # {} /\ who = "admin"
  <2>1. Q!seasonNote(shown, q # {}) # "capture"
    BY DEF Q!seasonNote
  <2> QED BY <1>1, <1>2, <2>1 DEF Q!wipeNote, Q!isAdminSession
<1>5. CASE note = Q!seasonNote(shown, q # {})
  <2>1. CASE q # {} \/ ~shown.season
    <3>1. note = "none"
      BY <1>5, <2>1 DEF Q!seasonNote
    <3>2. shown.season => q # {}
      BY <2>1
    <3> QED BY <1>1, <1>2, <3>1, <3>2 DEF Q!NoteIsTrue
  <2>2. CASE q = {} /\ shown.season /\ shown.upcoming # {}
    <3>1. note = "division"
      BY <1>5, <2>2 DEF Q!seasonNote
    <3> QED BY <1>1, <1>2, <2>2, <3>1 DEF Q!NoteIsTrue
  <2>3. CASE q = {} /\ shown.season /\ shown.upcoming = {}
    <3>1. note \in {"finished", "finished, next starts"}
      BY <1>5, <2>3 DEF Q!seasonNote
    <3> QED BY <1>1, <1>2, <2>3, <3>1 DEF Q!NoteIsTrue
  <2> QED BY <2>1, <2>2, <2>3
<1>6. CASE note = "capture"
  BY <1>1, <1>2, <1>4, <1>6 DEF Q!NoteIsTrue
<1> QED BY <1>3, <1>5, <1>6

\* For every feed: the page and the bot mean the same codes, every number of a view is
\* of the same codes, and the line under the title is true.
THEOREM QueuesAlwaysAgree ==
    ASSUME NEW s, NEW Rs, NEW Cs, Q!IsFeed(s, Rs, Cs)
    PROVE  Q!QueuesAgree(s)
<1>1. Q!OneQueue(s)
  BY OneQueueHolds
<1>2. \A view : Q!OneView(s, view)
  BY OneViewHolds
<1>3. \A view : \A shown \in [season : BOOLEAN, upcoming : SUBSET {g.region : g \in s.games}, ahead : BOOLEAN] :
        \A who : Q!NoteIsTrue(s, view, shown, who)
  BY NoteHolds
<1>4. Q!OpensAView({g.region : g \in s.games})
  BY DEF Q!OpensAView, Q!pickDivision
<1> QED BY <1>1, <1>2, <1>3, <1>4 DEF Q!QueuesAgree

-----------------------------------------------------------------------------
(* A feed of the day *)

\* The states of the refresh the operator is told.
RefreshSays == {"none", "pending", "fresh", "failed", "done", "stale"}
Refreshes == [refresh : RefreshSays, toldOn : Nat, local : Nat, origin : Nat, today : Nat,
              asking : Nat, due : Nat]

\* What is kept by whatever happens: a day is told and built no later than it is, a
\* refresh that is pending has a look to come, and a feed said to be of the day it was
\* told on was fetched on it.
FeedInv(q) ==
    /\ q.toldOn <= q.today /\ q.local <= q.origin /\ q.origin <= q.today
    /\ q.refresh = "pending" => q.due > 0
    /\ q.refresh \in {"done", "fresh"} /\ q.toldOn = q.today => q.local = q.today

\* The pages of which it holds, and a page field by field.
PagesKept == {q \in Refreshes : FeedInv(q)}
FreshPage(refresh, toldOn, local, origin, now, asking, due) ==
    [refresh |-> refresh, toldOn |-> toldOn, local |-> local, origin |-> origin, today |-> now,
     asking |-> asking, due |-> due]

\* What is known of the fields of a page.
LEMMA FieldsOf ==
    ASSUME NEW q \in PagesKept
    PROVE  /\ q.refresh \in RefreshSays /\ q.toldOn \in Nat /\ q.local \in Nat /\ q.origin \in Nat
           /\ q.today \in Nat /\ q.asking \in Nat /\ q.due \in Nat
           /\ q.toldOn <= q.today /\ q.local <= q.origin /\ q.origin <= q.today
           /\ q.refresh = "pending" => q.due > 0
           /\ q.refresh \in {"done", "fresh"} /\ q.toldOn = q.today => q.local = q.today
BY DEF PagesKept, Refreshes, FeedInv

\* A click leaves the page in a state it can be in, and keeps the invariant.
LEMMA ClickIsKept ==
    ASSUME NEW q \in PagesKept
    PROVE  F!RefreshFeed(q) \in PagesKept
<1>1. CASE q.refresh = "pending"
  BY <1>1 DEF F!RefreshFeed
<1>2. CASE q.refresh # "pending" /\ q.local = q.today
  <2>1. F!RefreshFeed(q) = FreshPage("fresh", q.today, q.local, q.origin, q.today, q.asking, q.due)
    BY <1>2 DEF F!RefreshFeed, F!feedFreshness, F!Told, PagesKept, FreshPage, Refreshes
  <2>2. PICK r : r = FreshPage("fresh", q.today, q.local, q.origin, q.today, q.asking, q.due)
    OBVIOUS
  <2>3. r \in Refreshes
    BY <1>2, <2>2, FieldsOf DEF FreshPage, Refreshes, RefreshSays
  <2>4. FeedInv(r)
    BY <1>2, <2>2, FieldsOf DEF FreshPage, FeedInv
  <2> QED BY <2>1, <2>2, <2>3, <2>4 DEF PagesKept
<1>3. CASE q.refresh # "pending" /\ q.local # q.today
  <2>1. F!RefreshFeed(q) = FreshPage(q.refresh, q.toldOn, q.local, q.origin, q.today, q.asking + 1, q.due)
    BY <1>3 DEF F!RefreshFeed, F!feedFreshness, PagesKept, FreshPage, Refreshes
  <2>2. PICK r : r = FreshPage(q.refresh, q.toldOn, q.local, q.origin, q.today, q.asking + 1, q.due)
    OBVIOUS
  <2>3. r \in Refreshes
    BY <1>3, <2>2, FieldsOf DEF FreshPage, Refreshes, RefreshSays
  <2>4. FeedInv(r)
    BY <1>3, <2>2, FieldsOf DEF FreshPage, FeedInv
  <2> QED BY <2>1, <2>2, <2>3, <2>4 DEF PagesKept
<1> QED BY <1>1, <1>2, <1>3

\* So does whatever else happens.
LEMMA EventIsKept ==
    ASSUME NEW q \in PagesKept, NEW event \in F!RefreshEvents
    PROVE  F!startRefresh(q, event) \in PagesKept
<1>1. CASE event = "click"
  BY <1>1, ClickIsKept DEF F!startRefresh
<1>2. CASE event = "accepted" /\ q.asking > 0
  <2>1. F!startRefresh(q, event) = FreshPage("pending", q.today, q.local, q.origin, q.today, q.asking - 1, q.due + 1)
    BY <1>2 DEF F!startRefresh, F!Told, PagesKept, FreshPage, Refreshes
  <2>2. PICK r : r = FreshPage("pending", q.today, q.local, q.origin, q.today, q.asking - 1, q.due + 1)
    OBVIOUS
  <2>3. r \in Refreshes
    BY <1>2, <2>2, FieldsOf DEF FreshPage, Refreshes, RefreshSays
  <2>4. FeedInv(r)
    BY <1>2, <2>2, FieldsOf DEF FreshPage, FeedInv
  <2> QED BY <2>1, <2>2, <2>3, <2>4 DEF PagesKept
<1>3. CASE event = "refused" /\ q.asking > 0
  <2>1. F!startRefresh(q, event) = FreshPage("failed", q.today, q.local, q.origin, q.today, q.asking - 1, q.due)
    BY <1>3 DEF F!startRefresh, F!Told, PagesKept, FreshPage, Refreshes
  <2>2. PICK r : r = FreshPage("failed", q.today, q.local, q.origin, q.today, q.asking - 1, q.due)
    OBVIOUS
  <2>3. r \in Refreshes
    BY <1>3, <2>2, FieldsOf DEF FreshPage, Refreshes, RefreshSays
  <2>4. FeedInv(r)
    BY <1>3, <2>2, FieldsOf DEF FreshPage, FeedInv
  <2> QED BY <2>1, <2>2, <2>3, <2>4 DEF PagesKept
<1>4. CASE event = "look" /\ q.due > 0 /\ q.origin = q.today
  <2>1. F!startRefresh(q, event) = FreshPage("done", q.today, q.origin, q.origin, q.today, q.asking, q.due - 1)
    BY <1>4 DEF F!startRefresh, F!Told, F!feedFreshness, PagesKept, FreshPage, Refreshes
  <2>2. PICK r : r = FreshPage("done", q.today, q.origin, q.origin, q.today, q.asking, q.due - 1)
    OBVIOUS
  <2>3. r \in Refreshes
    BY <1>4, <2>2, FieldsOf DEF FreshPage, Refreshes, RefreshSays
  <2>4. FeedInv(r)
    BY <1>4, <2>2, FieldsOf DEF FreshPage, FeedInv
  <2> QED BY <2>1, <2>2, <2>3, <2>4 DEF PagesKept
<1>9. CASE event = "look" /\ q.due > 0 /\ q.origin # q.today
  <2>1. F!startRefresh(q, event) = FreshPage("stale", q.today, q.origin, q.origin, q.today, q.asking, q.due - 1)
    BY <1>9 DEF F!startRefresh, F!Told, F!feedFreshness, PagesKept, FreshPage, Refreshes
  <2>2. PICK r : r = FreshPage("stale", q.today, q.origin, q.origin, q.today, q.asking, q.due - 1)
    OBVIOUS
  <2>3. r \in Refreshes
    BY <1>9, <2>2, FieldsOf DEF FreshPage, Refreshes, RefreshSays
  <2>4. FeedInv(r)
    BY <1>9, <2>2, FieldsOf DEF FreshPage, FeedInv
  <2> QED BY <2>1, <2>2, <2>3, <2>4 DEF PagesKept
<1>5. CASE event = "gitFails" /\ q.due > 0
  <2>1. F!startRefresh(q, event) = FreshPage("failed", q.today, q.local, q.origin, q.today, q.asking, q.due - 1)
    BY <1>5 DEF F!startRefresh, F!Told, PagesKept, FreshPage, Refreshes
  <2>2. PICK r : r = FreshPage("failed", q.today, q.local, q.origin, q.today, q.asking, q.due - 1)
    OBVIOUS
  <2>3. r \in Refreshes
    BY <1>5, <2>2, FieldsOf DEF FreshPage, Refreshes, RefreshSays
  <2>4. FeedInv(r)
    BY <1>5, <2>2, FieldsOf DEF FreshPage, FeedInv
  <2> QED BY <2>1, <2>2, <2>3, <2>4 DEF PagesKept
<1>6. CASE event = "built"
  <2>1. F!startRefresh(q, event) = FreshPage(q.refresh, q.toldOn, q.local, q.today, q.today, q.asking, q.due)
    BY <1>6 DEF F!startRefresh, PagesKept, FreshPage, Refreshes
  <2>2. PICK r : r = FreshPage(q.refresh, q.toldOn, q.local, q.today, q.today, q.asking, q.due)
    OBVIOUS
  <2>3. r \in Refreshes
    BY <1>6, <2>2, FieldsOf DEF FreshPage, Refreshes, RefreshSays
  <2>4. FeedInv(r)
    BY <1>6, <2>2, FieldsOf DEF FreshPage, FeedInv
  <2> QED BY <2>1, <2>2, <2>3, <2>4 DEF PagesKept
<1>7. CASE event = "midnight"
  <2>1. F!startRefresh(q, event) = FreshPage(q.refresh, q.toldOn, q.local, q.origin, q.today + 1, q.asking, q.due)
    BY <1>7 DEF F!startRefresh, PagesKept, FreshPage, Refreshes
  <2>2. PICK r : r = FreshPage(q.refresh, q.toldOn, q.local, q.origin, q.today + 1, q.asking, q.due)
    OBVIOUS
  <2>3. r \in Refreshes
    BY <1>7, <2>2, FieldsOf DEF FreshPage, Refreshes, RefreshSays
  <2>4. FeedInv(r)
    BY <1>7, <2>2, FieldsOf DEF FreshPage, FeedInv
  <2> QED BY <2>1, <2>2, <2>3, <2>4 DEF PagesKept
<1>8. CASE \/ event \in {"accepted", "refused"} /\ ~(q.asking > 0)
           \/ event \in {"look", "gitFails"} /\ ~(q.due > 0)
  BY <1>8 DEF F!startRefresh
<1> QED BY <1>1, <1>2, <1>3, <1>4, <1>5, <1>6, <1>7, <1>8, <1>9 DEF F!RefreshEvents

\* server.js startRefresh, run.js: whatever clicks, answers, looks, builds and midnights
\* come in, and however many, a refresh that is pending has a look to come, and a feed the
\* page calls today's starts a run.
THEOREM FeedsAreAsTold ==
    ASSUME NEW events \in Seq(F!RefreshEvents)
    PROVE  F!FeedIsAsTold(events)
<1>1. PICK N \in Nat : N = Len(events) /\ \A n \in 1..N : events[n] \in F!RefreshEvents
  OBVIOUS
<1>2. \A q \in PagesKept, n \in 1..N : F!startRefresh(q, events[n]) \in PagesKept
  BY <1>1, EventIsKept DEF PagesKept
<1>3. F!Yesterdays \in PagesKept
  BY DEF F!Yesterdays, Refreshes, RefreshSays, FeedInv, PagesKept
<1> DEFINE UpTo(f) == f = [n \in 0..N |-> IF n = 0 THEN F!Yesterdays
                                                   ELSE F!startRefresh(f[n - 1], events[n])]
<1>4. \E f : UpTo(f)
  <2>1. PICK step : step = [x \in PagesKept \X (1..N) |-> F!startRefresh(x[1], events[x[2]])]
    OBVIOUS
  <2>2. step \in StepsOver(N, PagesKept)
    BY <1>2, <2>1 DEF StepsOver
  <2>3. PICK f : Trails(f, N, PagesKept, F!Yesterdays, step)
    <3> HIDE DEF UpTo
    <3> QED BY <1>3, <2>2, Stepwise
  <2> USE DEF Trails
  <2>4. \A n \in 1..N : f[n] = F!startRefresh(f[n - 1], events[n])
    <3> TAKE n \in 1..N
    <3>1. n - 1 \in 0..N
      OBVIOUS
    <3>2. <<f[n - 1], n>> \in PagesKept \X (1..N)
      BY <2>3, <3>1
    <3>3. step[<<f[n - 1], n>>] = F!startRefresh(f[n - 1], events[n])
      BY <2>1, <3>2
    <3> QED BY <2>3, <3>3
  <2>5. \A n \in 0..N : f[n] = IF n = 0 THEN F!Yesterdays ELSE F!startRefresh(f[n - 1], events[n])
    BY <2>3, <2>4
  <2>6. f = [n \in 0..N |-> f[n]]
    BY <2>3
  <2>7. UpTo(f)
    BY <2>5, <2>6, Zenon
  <2> HIDE DEF UpTo
  <2> QED BY <2>7
<1>5. PICK upTo : upTo = CHOOSE f : UpTo(f)
  OBVIOUS
<1>6. UpTo(upTo)
  <2> HIDE DEF UpTo
  <2> QED BY <1>4, <1>5
<1>7. F!After(events) = upTo[N]
  BY <1>1, <1>5 DEF F!After
<1>8. PICK Good : Good = {n \in 0..N : upTo[n] \in PagesKept}
  OBVIOUS
<1>9. 0 \in Good
  <2>1. upTo[0] = F!Yesterdays
    BY <1>6
  <2> HIDE DEF UpTo
  <2> QED BY <1>3, <1>8, <2>1
<1>10. ASSUME NEW n \in 1..N, n - 1 \in Good PROVE n \in Good
  <2>1. upTo[n] = F!startRefresh(upTo[n - 1], events[n])
    BY <1>6
  <2> HIDE DEF UpTo
  <2> QED BY <1>2, <1>8, <1>10, <2>1
<1>11. F!After(events) \in PagesKept
  <2> HIDE DEF UpTo
  <2>1. 0..N \subseteq Good
    BY <1>9, <1>10, Reached
  <2> QED BY <1>7, <1>8, <2>1
<1>12. PICK q : q = F!After(events)
  OBVIOUS
<1>13. FeedInv(q)
  BY <1>11, <1>12 DEF PagesKept
<1> QED BY <1>12, <1>13 DEF F!FeedIsAsTold, FeedInv, F!FeedAllows, F!feedFreshness

-----------------------------------------------------------------------------
(* What the bot is given to do *)

\* Feed counts alike, and what is finite there is.
LEMMA FeedCounts == \A Xs : F!Cardinality(Xs) = Cardinality(Xs)
BY DEF F!Cardinality, Cardinality

\* What is finite in Feed is finite.
LEMMA FeedFinite == \A Xs : F!IsFiniteSet(Xs) <=> IsFiniteSet(Xs)
BY DEF F!IsFiniteSet, IsFiniteSet

\* The places of a backlog that a queue takes, and which of two it takes first.
TakenOf(s, divisions, teams) == {i \in DOMAIN s.codes : F!Takes(s, divisions, teams, s.codes[i])}
Sooner(s, newestFirst, i, j) ==
    IF s.codes[i].day = s.codes[j].day THEN i < j ELSE (s.codes[i].day < s.codes[j].day) = ~newestFirst

\* A queue is a list of the codes it takes.
LEMMA QueueLists ==
    ASSUME NEW s, F!IsBacklog(s), NEW divisions, NEW teams, NEW newestFirst \in BOOLEAN
    PROVE  LET queue == F!Pending(s, divisions, teams, newestFirst)
           IN  /\ Len(queue) \in Nat /\ DOMAIN queue = 1..Len(queue)
               /\ queue = [n \in 1..Len(queue) |-> queue[n]]
               /\ F!ToSet(queue) = {s.codes[i] : i \in TakenOf(s, divisions, teams)}
<1> DEFINE Xs == TakenOf(s, divisions, teams)
           queue == F!Pending(s, divisions, teams, newestFirst)
<1>1. PICK order : order = {p \in Xs \X Xs : Sooner(s, newestFirst, p[1], p[2])}
  OBVIOUS
<1>2. PICK list : list = [n \in 1..Cardinality(Xs) |-> CHOOSE x \in Xs : NoBefore(order, Xs, x) = n - 1]
  OBVIOUS
<1>3. Xs \subseteq 1..Len(s.codes) /\ Len(s.codes) \in Nat /\ \A i \in Xs : s.codes[i].day \in Int
  BY DEF TakenOf, F!IsBacklog
<1>4. IsFiniteSet(Xs)
  <2>1. IsFiniteSet(1..Len(s.codes))
    BY <1>3, FS_Interval
  <2> QED BY <1>3, <2>1, FS_Subset
<1>5. \A x \in Xs : {y \in Xs : <<y, x>> \in order} = {y \in Xs : Sooner(s, newestFirst, y, x)}
  BY <1>1
<1>6. queue = [n \in DOMAIN list |-> s.codes[list[n]]]
  <2>1. \A x \in Xs : F!Cardinality({y \in Xs : Sooner(s, newestFirst, y, x)}) = NoBefore(order, Xs, x)
    BY <1>5, FeedCounts DEF NoBefore
  <2>2. F!Cardinality(Xs) = Cardinality(Xs)
    BY FeedCounts
  <2>3. queue = LET l == [n \in 1..F!Cardinality(Xs) |->
                           CHOOSE x \in Xs : F!Cardinality({y \in Xs : Sooner(s, newestFirst, y, x)}) = n - 1]
                IN  [n \in DOMAIN l |-> s.codes[l[n]]]
    BY DEF F!Pending, F!InOrder, TakenOf, Sooner
  <2>4. [n \in 1..F!Cardinality(Xs) |->
           CHOOSE x \in Xs : F!Cardinality({y \in Xs : Sooner(s, newestFirst, y, x)}) = n - 1] = list
    BY <1>2, <2>1, <2>2
  <2> QED BY <2>3, <2>4
<1>7. Orders(order, Xs)
  <2>1. \A x, y \in Xs : <<x, y>> \in order <=> Sooner(s, newestFirst, x, y)
    BY <1>1
  <2>2. \A x \in Xs : x \in Int /\ s.codes[x].day \in Int
    BY <1>3
  <2> HIDE DEF Xs
  <2>3. \A x \in Xs : <<x, x>> \notin order
    BY <2>1, <2>2 DEF Sooner
  <2>4. ASSUME NEW x \in Xs, NEW y \in Xs, NEW z \in Xs, <<x, y>> \in order, <<y, z>> \in order
        PROVE  <<x, z>> \in order
    <3>1. Sooner(s, newestFirst, x, y) /\ Sooner(s, newestFirst, y, z)
      BY <2>1, <2>4
    <3>2. Sooner(s, newestFirst, x, z)
      BY <2>2, <3>1 DEF Sooner
    <3> QED BY <2>1, <3>2
  <2>5. ASSUME NEW x \in Xs, NEW y \in Xs, x # y
        PROVE  <<x, y>> \in order \/ <<y, x>> \in order
    <3>1. x < y \/ y < x
      BY <2>2, <2>5
    <3>2. \/ s.codes[x].day = s.codes[y].day
          \/ s.codes[x].day < s.codes[y].day /\ ~(s.codes[y].day < s.codes[x].day)
          \/ s.codes[y].day < s.codes[x].day /\ ~(s.codes[x].day < s.codes[y].day)
      BY <2>2
    <3>3. Sooner(s, newestFirst, x, y) \/ Sooner(s, newestFirst, y, x)
      BY <3>1, <3>2 DEF Sooner
    <3> QED BY <2>1, <3>3
  <2> QED BY <2>3, <2>4, <2>5 DEF Orders
<1>8. Lists(order, Xs, list)
  BY <1>2, <1>7 DEF Lists
<1> DEFINE N == Cardinality(Xs)
<1>9. /\ N \in Nat /\ list \in [1..N -> Xs]
      /\ \A x \in Xs : \E n \in 1..N : list[n] = x
  BY <1>4, <1>8, Listed
<1> HIDE DEF Xs, queue, N
<1>10. queue = [n \in 1..N |-> s.codes[list[n]]]
  BY <1>6, <1>9
<1>11. Len(queue) = N /\ DOMAIN queue = 1..N /\ queue = [n \in 1..N |-> queue[n]]
  BY <1>9, <1>10
<1>12. F!ToSet(queue) = {s.codes[i] : i \in Xs}
  <2>1. F!ToSet(queue) = {queue[n] : n \in 1..N}
    BY <1>11 DEF F!ToSet
  <2>2. \A n \in 1..N : queue[n] = s.codes[list[n]] /\ list[n] \in Xs
    BY <1>9, <1>10
  <2>3. \A i \in Xs : \E n \in 1..N : queue[n] = s.codes[i]
    BY <1>9, <1>10
  <2> QED BY <2>1, <2>2, <2>3
<1> QED BY <1>9, <1>11, <1>12 DEF Xs, queue

\* What is alive and of a key that is not done.
IsOpen(s, c) == /\ ~F!Q!isDead([wipe |-> s.wipe, regional |-> s.regional], c)
                /\ c.key \notin F!attemptedKeys(s.attempts)

\* What the page shows under some filters: the codes that are open and that they take.
LEMMA RowsTaken ==
    ASSUME NEW s, F!IsBacklog(s), NEW d, NEW t
    PROVE  F!ToSet(F!feedRows(s, [divisions |-> d, teams |-> t])) =
             {c \in F!ToSet(s.codes) : /\ IsOpen(s, c) /\ F!matchesAny(c.division, d)
                                       /\ \E u \in c.teams : F!matchesAny(u, t)}
<1>1. F!feedRows(s, [divisions |-> d, teams |-> t]) = F!Pending(s, d, t, FALSE)
  BY DEF F!feedRows
<1>2. F!ToSet(F!Pending(s, d, t, FALSE)) = {s.codes[i] : i \in TakenOf(s, d, t)}
  BY QueueLists
<1> QED BY <1>1, <1>2 DEF TakenOf, F!Takes, IsOpen, F!ToSet

\* A run of the page has the beginning of the queue the page shows, and a loop has none.
LEMMA RunsTheRows ==
    ASSUME NEW s, F!IsBacklog(s), NEW d, NEW t, NEW n \in Nat, NEW queue,
           queue = F!feedRows(s, [divisions |-> d, teams |-> t])
    PROVE  /\ F!RunQueue(s, [loop |-> FALSE, divisions |-> d, teams |-> t, limit |-> n, cap |-> 0])
                = SubSeq(queue, 1, IF n = 0 \/ n > Len(queue) THEN Len(queue) ELSE n)
           /\ F!RunQueue(s, [loop |-> TRUE, divisions |-> d, teams |-> t, limit |-> n, cap |-> 0]) = <<>>
<1>1. queue = F!Pending(s, d, t, FALSE)
  BY DEF F!feedRows
<1>2. Len(queue) \in Nat /\ queue = [k \in 1..Len(queue) |-> queue[k]]
  BY <1>1, QueueLists
<1>3. F!parseArgs(F!buildRunArgs([loop |-> FALSE, divisions |-> d, teams |-> t, limit |-> n, cap |-> 0]))
        = [looping |-> FALSE, divisions |-> d, teams |-> t, limit |-> n, newestFirst |-> FALSE,
           failStreakCap |-> 2]
  BY DEF F!parseArgs, F!buildRunArgs
<1>4. F!RunQueue(s, [loop |-> FALSE, divisions |-> d, teams |-> t, limit |-> n, cap |-> 0])
        = IF n > 0 /\ n < Len(queue) THEN SubSeq(queue, 1, n) ELSE queue
  <2>1. PICK args : args = [looping |-> FALSE, divisions |-> d, teams |-> t, limit |-> n, newestFirst |-> FALSE,
                            failStreakCap |-> 2]
    OBVIOUS
  <2>2. args.looping = FALSE /\ args.divisions = d /\ args.teams = t /\ args.limit = n /\ args.newestFirst = FALSE
    BY <2>1
  <2>3. F!RunQueue(s, [loop |-> FALSE, divisions |-> d, teams |-> t, limit |-> n, cap |-> 0])
          = LET q == IF args.looping THEN <<>> ELSE F!Pending(s, args.divisions, args.teams, args.newestFirst)
            IN  IF args.limit > 0 /\ args.limit < Len(q) /\ ~args.looping THEN SubSeq(q, 1, args.limit) ELSE q
    BY <1>3, <2>1 DEF F!RunQueue
  <2> QED BY <1>1, <2>2, <2>3
<1>5. SubSeq(queue, 1, Len(queue)) = queue
  BY <1>2
<1>6. F!parseArgs(F!buildRunArgs([loop |-> TRUE, divisions |-> d, teams |-> t, limit |-> n, cap |-> 0]))
        = [looping |-> TRUE, divisions |-> {}, teams |-> {}, limit |-> n, newestFirst |-> FALSE,
           failStreakCap |-> 8]
  BY DEF F!parseArgs, F!buildRunArgs, F!LOOP_FAIL_STREAK_CAP
<1>7. F!RunQueue(s, [loop |-> TRUE, divisions |-> d, teams |-> t, limit |-> n, cap |-> 0]) = <<>>
  BY <1>6 DEF F!RunQueue
<1>8. PICK size \in Nat : size = Len(queue)
  BY <1>2
<1>9. PICK len : len = IF n = 0 \/ n > size THEN size ELSE n
  OBVIOUS
<1>10. SubSeq(queue, 1, len) = IF n > 0 /\ n < size THEN SubSeq(queue, 1, n) ELSE queue
  <2>1. CASE n > 0 /\ n < size
    <3>1. len = n
      BY <1>9, <2>1
    <3> QED BY <2>1, <3>1
  <2>2. CASE ~(n > 0 /\ n < size)
    <3>1. len = size
      BY <1>9, <2>2
    <3> QED BY <1>5, <1>8, <2>2, <3>1
  <2> QED BY <2>1, <2>2
<1> QED BY <1>4, <1>7, <1>8, <1>9, <1>10, Zenon

\* The failures are as many as the keys that failed.
LEMMA FailuresCounted ==
    ASSUME NEW attempts, IsFiniteSet(DOMAIN attempts)
    PROVE  F!attemptsTally(attempts).failed = F!Cardinality(F!failureList(attempts))
<1> DEFINE failed == {k \in DOMAIN attempts : attempts[k].status = "failed"}
           Of(k) == [key |-> k, needs_manual |-> attempts[k].fails >= F!FAIL_RETRY_CAP]
           rowOf == [k \in failed |-> Of(k)]
<1>1. F!failureList(attempts) = {Of(k) : k \in failed}
  BY DEF F!failureList
<1>2. IsFiniteSet(failed)
  BY FS_Subset
<1>3. rowOf \in Bijection(failed, F!failureList(attempts))
  <2>1. rowOf \in [failed -> F!failureList(attempts)]
    BY <1>1
  <2>2. \A k, l \in failed : rowOf[k] = rowOf[l] => k = l
    OBVIOUS
  <2>3. \A r \in F!failureList(attempts) : \E k \in failed : rowOf[k] = r
    BY <1>1
  <2> HIDE DEF rowOf
  <2> QED BY <2>1, <2>2, <2>3 DEF Bijection, Injection, Surjection, IsInjective
<1>4. Cardinality(F!failureList(attempts)) = Cardinality(failed)
  BY <1>2, <1>3, FS_Bijection DEF ExistsBijection
<1>5. F!attemptsTally(attempts).failed = F!Cardinality(failed)
  BY DEF F!attemptsTally
<1> QED BY <1>4, <1>5, FeedCounts

\* queue.js pending, server.js feedRows, run.js main: whatever the backlog and the ledger,
\* the bot is given what the page shows, every choice of the page shows what is left of it,
\* and a failure needs a hand just when no run takes it.
THEOREM RunsAlwaysWhatIsShown ==
    ASSUME NEW s, F!IsBacklog(s)
    PROVE  F!RunsWhatIsShown(s)
<1> DEFINE shown == F!feedRows(s, [divisions |-> {}, teams |-> {}])
           Body(d, t, n, b) == [loop |-> b, divisions |-> d, teams |-> t, limit |-> n, cap |-> 0]
<1>1. F!ToSet(shown) = {c \in F!ToSet(s.codes) : IsOpen(s, c)}
  <2>1. \A c \in F!ToSet(s.codes) : c.teams # {}
    BY DEF F!IsBacklog, F!ToSet
  <2> QED BY <2>1, RowsTaken DEF F!matchesAny
<1>2. ASSUME NEW d, NEW t, NEW n \in 0..2, NEW queue, queue = F!feedRows(s, [divisions |-> d, teams |-> t])
      PROVE  /\ F!RunQueue(s, Body(d, t, n, FALSE))
                  = SubSeq(queue, 1, IF n = 0 \/ n > Len(queue) THEN Len(queue) ELSE n)
             /\ F!RunQueue(s, Body(d, t, n, TRUE)) = <<>>
             /\ F!ToSet(queue) \subseteq F!ToSet(shown)
  <2>1. F!ToSet(queue) \subseteq F!ToSet(shown)
    BY <1>1, <1>2, RowsTaken
  <2>2. n \in Nat
    OBVIOUS
  <2> QED BY <1>2, <2>1, <2>2, RunsTheRows
<1>3. F!ToSet(shown) = UNION {F!ToSet(F!feedRows(s, [divisions |-> {d}, teams |-> {}])) :
                                d \in F!filterOptions(s).divisions}
  <2>1. \A d : F!ToSet(F!feedRows(s, [divisions |-> {d}, teams |-> {}])) =
                 {c \in F!ToSet(shown) : d \subseteq c.division}
    <3>1. \A c \in F!ToSet(s.codes) : c.teams # {}
      BY DEF F!IsBacklog, F!ToSet
    <3> QED BY <1>1, <3>1, RowsTaken DEF F!matchesAny
  <2>2. \A c \in F!ToSet(shown) : c.division \in F!filterOptions(s).divisions
    BY <1>1 DEF F!filterOptions
  <2>4. \A c \in F!ToSet(shown) : c.division \subseteq c.division
    OBVIOUS
  <2> HIDE DEF shown
  <2>5. \A c \in F!ToSet(shown) : c \in F!ToSet(F!feedRows(s, [divisions |-> {c.division}, teams |-> {}]))
    BY <2>1, <2>4
  <2>6. \A d : F!ToSet(F!feedRows(s, [divisions |-> {d}, teams |-> {}])) \subseteq F!ToSet(shown)
    BY <2>1
  <2> QED BY <2>2, <2>5, <2>6
<1>4. F!ToSet(shown) = UNION {F!ToSet(F!feedRows(s, [divisions |-> {}, teams |-> {t}])) :
                                t \in F!filterOptions(s).teams}
  <2>1. \A t : F!ToSet(F!feedRows(s, [divisions |-> {}, teams |-> {t}])) =
                 {c \in F!ToSet(shown) : \E u \in c.teams : t \subseteq u}
    BY <1>1, RowsTaken DEF F!matchesAny
  <2>2. \A c \in F!ToSet(shown) : \E t \in c.teams : t \in F!filterOptions(s).teams
    <3>1. \A c \in F!ToSet(s.codes) : c.teams # {}
      BY DEF F!IsBacklog, F!ToSet
    <3> QED BY <1>1, <3>1 DEF F!filterOptions
  <2>3. \A t : t \subseteq t
    OBVIOUS
  <2> HIDE DEF shown
  <2>4. \A c \in F!ToSet(shown) : \E t \in F!filterOptions(s).teams :
          c \in F!ToSet(F!feedRows(s, [divisions |-> {}, teams |-> {t}]))
    BY <2>1, <2>2, <2>3
  <2>5. \A t : F!ToSet(F!feedRows(s, [divisions |-> {}, teams |-> {t}])) \subseteq F!ToSet(shown)
    BY <2>1
  <2> QED BY <2>4, <2>5
<1>5. ASSUME NEW f \in F!failureList(s.attempts), NEW c \in F!ToSet(s.codes), f.key = c.key,
             ~F!Q!isDead([wipe |-> s.wipe, regional |-> s.regional], c)
      PROVE  f.needs_manual <=> c \notin F!ToSet(shown)
  <2>1. PICK k \in DOMAIN s.attempts : /\ s.attempts[k].status = "failed"
                                       /\ f = [key |-> k, needs_manual |-> s.attempts[k].fails >= 3]
    BY DEF F!failureList, F!FAIL_RETRY_CAP
  <2>2. c.key = k /\ (f.needs_manual <=> s.attempts[k].fails >= 3) /\ s.attempts[k].fails \in Int
    BY <1>5, <2>1 DEF F!IsBacklog
  <2>3. k \in F!attemptedKeys(s.attempts) <=> ~(s.attempts[k].fails < 3)
    BY <2>1 DEF F!attemptedKeys, F!isDoneEntry, F!FAIL_RETRY_CAP
  <2>4. c \in F!ToSet(shown) <=> k \notin F!attemptedKeys(s.attempts)
    BY <1>1, <1>5, <2>2 DEF IsOpen
  <2> QED BY <2>2, <2>3, <2>4
<1>6. F!attemptsTally(s.attempts).failed = F!Cardinality(F!failureList(s.attempts))
  BY FailuresCounted, FeedFinite DEF F!IsBacklog
<1>7. ASSUME NEW c \in F!ToSet(s.codes)
      PROVE  F!synthesise(s, <<"unknown", c.code>>)[2].key = c.key
  <2>1. PICK i \in DOMAIN s.codes : c = s.codes[i]
    BY DEF F!ToSet
  <2>2. PICK known : known = {j \in DOMAIN s.codes : s.codes[j].code = c.code}
    OBVIOUS
  <2>3. i \in known /\ known \subseteq 1..Len(s.codes) /\ Len(s.codes) \in Nat
    BY <2>1, <2>2 DEF F!IsBacklog
  <2>4. \E j \in known : \A l \in known : j >= l
    <3>1. PICK up : up = [j \in known |-> j]
      OBVIOUS
    <3>2. up \in [known -> Int] /\ IsFiniteSet(known)
      <4>1. IsFiniteSet(1..Len(s.codes))
        BY <2>3, FS_Interval
      <4> QED BY <2>3, <3>1, <4>1, FS_Subset
    <3>3. \E x \in known : \A y \in known : up[y] <= up[x]
      BY <2>3, <3>2, BestOf, Zenon
    <3> QED BY <2>3, <3>1, <3>3
  <2>5. F!Max(known) \in known
    BY <2>4 DEF F!Max
  <2>6. s.codes[F!Max(known)].key = c.key
    BY <2>1, <2>2, <2>3, <2>5 DEF F!IsBacklog
  <2>7. F!synthesise(s, <<"unknown", c.code>>)[2].key = s.codes[F!Max(known)].key
    <3>1. PICK codes : codes = <<"unknown", c.code>>
      OBVIOUS
    <3>2. 2 \in DOMAIN codes /\ codes[2] = c.code
      BY <3>1
    <3>3. F!synthesise(s, codes)[2] =
            LET k == {j \in DOMAIN s.codes : s.codes[j].code = codes[2]}
            IN  IF k = {} THEN [code |-> codes[2], key |-> <<"adhoc", 2>>]
                ELSE [code |-> codes[2], key |-> s.codes[F!Max(k)].key]
      BY <3>2 DEF F!synthesise
    <3>4. F!synthesise(s, codes)[2] = [code |-> c.code, key |-> s.codes[F!Max(known)].key]
      BY <2>2, <2>3, <3>2, <3>3
    <3> QED BY <3>1, <3>4
  <2> QED BY <2>6, <2>7
<1>8. \A d \in SUBSET s.asked.divisions, t \in SUBSET s.asked.teams, n \in 0..2 :
         LET queue == F!feedRows(s, [divisions |-> d, teams |-> t]) IN
         /\ F!RunQueue(s, Body(d, t, n, FALSE))
              = SubSeq(queue, 1, IF n = 0 \/ n > Len(queue) THEN Len(queue) ELSE n)
         /\ F!RunQueue(s, Body(d, t, n, TRUE)) = <<>>
         /\ F!ToSet(queue) \subseteq F!ToSet(shown)
  BY <1>2, Zenon
<1>9. \A f \in F!failureList(s.attempts), c \in F!ToSet(s.codes) :
         f.key = c.key /\ ~F!Q!isDead([wipe |-> s.wipe, regional |-> s.regional], c)
           => (f.needs_manual <=> c \notin F!ToSet(shown))
  BY <1>5, Zenon
<1>10. \A c \in F!ToSet(s.codes) : F!synthesise(s, <<"unknown", c.code>>)[2].key = c.key
  BY <1>7, Zenon
<1> QED BY <1>3, <1>4, <1>6, <1>8, <1>9, <1>10, Zenon DEF F!RunsWhatIsShown

-----------------------------------------------------------------------------
(* Codes to practise on *)

\* The places of a site are finitely many pairs of numbers.
LEMMA PlacesAreFew ==
    ASSUME NEW s, F!IsSite(s)
    PROVE  /\ IsFiniteSet(F!PlacesOn(s, DOMAIN s.pages)) /\ F!PlacesOn(s, DOMAIN s.pages) \subseteq Nat \X Nat
           /\ \A n \in DOMAIN s.pages : n \in Nat
<1>1. PICK N \in Nat : N = Len(s.pages) /\ DOMAIN s.pages = 1..N
  BY DEF F!IsSite
<1>2. \A n \in 1..N : Len(s.pages[n]) \in Nat /\ DOMAIN s.pages[n] = 1..Len(s.pages[n])
  BY <1>1 DEF F!IsSite
<1>3. IsFiniteSet(1..N) /\ Cardinality(1..N) \in Nat
  <2>1. IsFiniteSet(1..N)
    BY <1>1, FS_Interval
  <2> QED BY <2>1, FS_CardinalityType
<1>4. PICK f : f = [n \in 1..N |-> Len(s.pages[n])]
  OBVIOUS
<1>5. F!PlacesOn(s, DOMAIN s.pages) \subseteq Nat \X Nat
  BY <1>1, <1>2 DEF F!PlacesOn
<1>6. CASE N = 0
  <2>1. F!PlacesOn(s, DOMAIN s.pages) = {}
    BY <1>1, <1>6 DEF F!PlacesOn
  <2> QED BY <1>1, <1>5, <2>1, FS_EmptySet
<1>7. CASE N # 0
  <2>1. f \in [1..N -> Int] /\ 1..N # {}
    BY <1>2, <1>4, <1>7
  <2>2. PICK m \in 1..N : \A n \in 1..N : f[n] <= f[m]
    BY <1>3, <2>1, BestOf, Zenon
  <2>3. PICK M \in Nat : M = f[m]
    BY <1>2, <1>4
  <2>4. F!PlacesOn(s, DOMAIN s.pages) \subseteq (1..N) \X (1..M)
    <3>1. \A k \in 1..N : Len(s.pages[k]) <= M
      BY <1>4, <2>2, <2>3
    <3>2. ASSUME NEW k \in 1..N, NEW i \in DOMAIN s.pages[k]
          PROVE  i \in 1..M
      BY <1>2, <2>3, <3>1, <3>2
    <3>3. \A at \in F!PlacesOn(s, DOMAIN s.pages) : \E k \in 1..N : at \in {k} \X DOMAIN s.pages[k]
      BY <1>1 DEF F!PlacesOn
    <3> QED BY <3>2, <3>3
  <2>a. IsFiniteSet(1..M)
    BY <2>3, FS_Interval
  <2>5. IsFiniteSet((1..N) \X (1..M))
    BY <1>3, <2>a, FS_Product
  <2>6. IsFiniteSet(F!PlacesOn(s, DOMAIN s.pages))
    BY <2>4, <2>5, FS_Subset
  <2> QED BY <1>1, <1>5, <2>6
<1> QED BY <1>6, <1>7

\* What may be offered, and which of two comes first.
KeyedOf(s) ==
    {at \in F!Found(s, F!spentCodes(s)) :
        /\ \E b \in F!Found(s, F!spentCodes(s)) :
             /\ \A c \in F!Found(s, F!spentCodes(s)) : b = c \/ F!Sooner(b, c)
             /\ F!Of(s, at).patch = F!Of(s, b).patch
        /\ F!Of(s, at).key # -1
        /\ s.gradeable => F!Of(s, at).key >= 10}
Fuller(s, a, b) == IF F!Of(s, a).key = F!Of(s, b).key THEN F!Sooner(a, b) ELSE F!Of(s, a).key > F!Of(s, b).key

\* What is found lies on a page, and is worth the name.
LEMMA FoundIsWorth ==
    ASSUME NEW s, NEW at \in F!Found(s, F!spentCodes(s))
    PROVE  at \in F!PlacesOn(s, DOMAIN s.pages) /\ F!Worth(F!spentCodes(s), F!Of(s, at))
BY DEF F!Found, F!WorthOn, F!PagesRead, F!PlacesOn, F!Of

\* An order of what may be offered, its list, and how much of that is offered.
Offered(s, order, list, n) ==
    /\ order = {p \in KeyedOf(s) \X KeyedOf(s) : Fuller(s, p[1], p[2])}
    /\ Cardinality(KeyedOf(s)) \in Nat
    /\ list \in [1..Cardinality(KeyedOf(s)) -> KeyedOf(s)]
    /\ \A x \in KeyedOf(s) : \E k \in 1..Cardinality(KeyedOf(s)) : list[k] = x
    /\ \A k, l \in 1..Cardinality(KeyedOf(s)) : <<list[k], list[l]>> \in order => k < l
    /\ n \in Nat /\ n <= s.want /\ n <= Cardinality(KeyedOf(s))
    /\ F!Picked(s) = [k \in 1..n |-> F!Of(s, list[k])]

\* What is offered is the beginning of a list of what may be offered.
LEMMA OffersAreListed ==
    ASSUME NEW s, F!IsSite(s)
    PROVE  \E order, list, n : Offered(s, order, list, n)
<1> DEFINE Xs == KeyedOf(s)
<1>1. PICK order : order = {p \in Xs \X Xs : Fuller(s, p[1], p[2])}
  OBVIOUS
<1>2. PICK list : list = [k \in 1..Cardinality(Xs) |-> CHOOSE x \in Xs : NoBefore(order, Xs, x) = k - 1]
  OBVIOUS
<1>3. IsFiniteSet(Xs) /\ Xs \subseteq F!PlacesOn(s, DOMAIN s.pages)
  <2>1. Xs \subseteq F!PlacesOn(s, DOMAIN s.pages)
    BY FoundIsWorth DEF KeyedOf
  <2> QED BY <2>1, PlacesAreFew, FS_Subset
<1>4. \A x \in Xs : x[1] \in Int /\ x[2] \in Int /\ x = <<x[1], x[2]>> /\ F!Of(s, x).key \in Int
  BY <1>3, PlacesAreFew DEF F!IsSite
<1>5. \A x, y \in Xs : <<x, y>> \in order <=> Fuller(s, x, y)
  BY <1>1
<1>6. Orders(order, Xs)
  <2> HIDE DEF Xs
  <2>1. \A x \in Xs : <<x, x>> \notin order
    BY <1>4, <1>5 DEF Fuller, F!Sooner
  <2>2. ASSUME NEW x \in Xs, NEW y \in Xs, NEW z \in Xs, <<x, y>> \in order, <<y, z>> \in order
        PROVE  <<x, z>> \in order
    <3>1. Fuller(s, x, y) /\ Fuller(s, y, z)
      BY <1>5, <2>2
    <3>2. Fuller(s, x, z)
      BY <1>4, <3>1 DEF Fuller, F!Sooner
    <3> QED BY <1>5, <3>2
  <2>3. ASSUME NEW x \in Xs, NEW y \in Xs, x # y
        PROVE  <<x, y>> \in order \/ <<y, x>> \in order
    <3>1. F!Sooner(x, y) \/ F!Sooner(y, x)
      BY <1>4, <2>3 DEF F!Sooner
    <3>2. Fuller(s, x, y) \/ Fuller(s, y, x)
      BY <1>4, <3>1 DEF Fuller
    <3> QED BY <1>5, <3>2
  <2> QED BY <2>1, <2>2, <2>3 DEF Orders
<1>7. Lists(order, Xs, list)
  BY <1>2, <1>6 DEF Lists
<1>8. /\ Cardinality(Xs) \in Nat /\ list \in [1..Cardinality(Xs) -> Xs]
      /\ \A x \in Xs : \E k \in 1..Cardinality(Xs) : list[k] = x
      /\ \A k, l \in 1..Cardinality(Xs) : <<list[k], list[l]>> \in order => k < l
  BY <1>3, <1>7, Listed
<1>9. PICK n : n = F!Min({F!Cardinality(Xs), s.want})
  OBVIOUS
<1>10. n \in Nat /\ n <= s.want /\ n <= Cardinality(Xs)
  <2>1. PICK c \in Nat, w \in Nat : c = Cardinality(Xs) /\ w = s.want
    BY <1>8 DEF F!IsSite
  <2>2. \E x \in {c, w} : \A y \in {c, w} : x <= y
    <3>1. CASE c <= w
      BY <3>1
    <3>2. CASE w <= c
      BY <3>2
    <3> QED BY <3>1, <3>2
  <2>3. n = CHOOSE x \in {c, w} : \A y \in {c, w} : x <= y
    BY <1>9, <2>1, FeedCounts DEF F!Min
  <2>4. n \in {c, w} /\ \A y \in {c, w} : n <= y
    BY <2>2, <2>3
  <2> QED BY <2>1, <2>4
<1>11. F!Picked(s) = [k \in 1..n |-> F!Of(s, list[k])]
  <2>1. \A x \in Xs : {y \in Xs : <<y, x>> \in order} = {y \in Xs : Fuller(s, y, x)}
    BY <1>5
  <2>2. \A x \in Xs : F!Cardinality({y \in Xs : Fuller(s, y, x)}) = NoBefore(order, Xs, x)
    BY <2>1, FeedCounts DEF NoBefore
  <2>3. F!Cardinality(Xs) = Cardinality(Xs)
    BY FeedCounts
  <2>4. F!Picked(s) =
          LET l == [k \in 1..F!Cardinality(Xs) |->
                      CHOOSE x \in Xs : F!Cardinality({y \in Xs : Fuller(s, y, x)}) = k - 1]
          IN  [k \in 1..n |-> F!Of(s, l[k])]
    BY <1>9 DEF F!Picked, F!InOrder, KeyedOf, Fuller, F!Of
  <2>5. [k \in 1..F!Cardinality(Xs) |-> CHOOSE x \in Xs : F!Cardinality({y \in Xs : Fuller(s, y, x)}) = k - 1]
          = list
    BY <1>2, <2>2, <2>3
  <2> QED BY <2>4, <2>5
<1>12. Offered(s, order, list, n)
  BY <1>1, <1>8, <1>10, <1>11 DEF Offered
<1> QED BY <1>12

\* scrape_codes.js main: whatever the pages of the site, and whatever was opened before,
\* no code is offered that was opened, and none for which a better one was left out.
THEOREM OffersAreAlwaysFresh ==
    ASSUME NEW s, F!IsSite(s)
    PROVE  F!OffersAreFresh(s)
<1> DEFINE Xs == KeyedOf(s)
           places == F!Found(s, F!spentCodes(s))
           found == {F!Of(s, at) : at \in places}
<1>a. PICK order, list, n : Offered(s, order, list, n)
  BY OffersAreListed
<1>1. /\ order = {p \in Xs \X Xs : Fuller(s, p[1], p[2])}
      /\ Cardinality(Xs) \in Nat
      /\ list \in [1..Cardinality(Xs) -> Xs]
      /\ \A x \in Xs : \E k \in 1..Cardinality(Xs) : list[k] = x
      /\ \A k, l \in 1..Cardinality(Xs) : <<list[k], list[l]>> \in order => k < l
      /\ n \in Nat /\ n <= s.want /\ n <= Cardinality(Xs)
      /\ F!Picked(s) = [k \in 1..n |-> F!Of(s, list[k])]
  BY <1>a, Zenon DEF Offered
<1>2. PICK picked : picked = F!Picked(s)
  OBVIOUS
<1>3. Len(picked) = n /\ DOMAIN picked = 1..n
  BY <1>1, <1>2
<1>4. F!ToSet(picked) = {picked[k] : k \in 1..n}
  BY <1>3 DEF F!ToSet
<1>5. ASSUME NEW i \in 1..n, NEW r, r = picked[i]
      PROVE  /\ r.code \notin s.ledger \cup s.seen \cup s.out
             /\ r.ours /\ r.valid /\ (r.secs = 0 \/ r.secs >= F!MIN_SECONDS)
             /\ r.key # -1
             /\ \A q \in found : /\ q.patch <= r.patch
                                 /\ q.patch = r.patch /\ q.key > r.key => q \in F!ToSet(picked)
  <2>1. PICK at \in Xs : at = list[i] /\ r = F!Of(s, at)
    BY <1>1, <1>2, <1>5
  <2>2. at \in places /\ at \in F!PlacesOn(s, DOMAIN s.pages) /\ F!Worth(F!spentCodes(s), r)
    BY <2>1, FoundIsWorth DEF KeyedOf
  <2>3. r.key # -1 /\ (s.gradeable => r.key >= 10)
    BY <2>1 DEF KeyedOf
  <2>4. PICK b \in places : (\A c \in places : b = c \/ F!Sooner(b, c)) /\ r.patch = F!Of(s, b).patch
    BY <2>1 DEF KeyedOf
  <2>5. r.secs \in Int /\ r.key \in Nat \cup {-1} /\ r.patch \in Int
    BY <2>1, <2>2 DEF F!IsSite
  <2>6. ASSUME NEW q \in found
        PROVE  /\ q.patch <= r.patch
               /\ q.patch = r.patch /\ q.key > r.key => q \in F!ToSet(picked)
    <3>1. PICK c \in places : q = F!Of(s, c) /\ c \in F!PlacesOn(s, DOMAIN s.pages)
      BY FoundIsWorth DEF F!Of
    <3>2. q.patch \in Int /\ q.key \in Int /\ b \in F!PlacesOn(s, DOMAIN s.pages)
      BY <3>1, FoundIsWorth DEF F!IsSite
    <3>3. q.patch <= r.patch
      <4>1. CASE b = c
        BY <2>4, <2>5, <3>1, <4>1
      <4>2. CASE F!Sooner(b, c)
        BY <2>4, <3>1, <3>2, <4>2 DEF F!IsSite
      <4> QED BY <2>4, <4>1, <4>2
    <3>4. ASSUME q.patch = r.patch, q.key > r.key
          PROVE  q \in F!ToSet(picked)
      <4>1. c \in Xs
        <5>1. q.patch = F!Of(s, b).patch
          BY <2>4, <3>4
        <5>2. q.key # -1 /\ (s.gradeable => q.key >= 10)
          BY <2>3, <2>5, <3>2, <3>4
        <5> QED BY <2>4, <3>1, <5>1, <5>2 DEF KeyedOf
      <4>2. PICK k \in 1..Cardinality(Xs) : list[k] = c
        BY <1>1, <4>1
      <4>3. Fuller(s, c, at)
        BY <2>1, <2>5, <3>1, <3>2, <3>4 DEF Fuller
      <4>4. <<list[k], list[i]>> \in order
        BY <1>1, <2>1, <4>1, <4>2, <4>3
      <4>5. k < i
        BY <1>1, <4>2, <4>4
      <4>6. k \in 1..n /\ picked[k] = q
        BY <1>1, <1>2, <3>1, <4>2, <4>5
      <4> QED BY <1>4, <4>6
    <3> QED BY <3>3, <3>4
  <2>7. r.code \notin s.ledger \cup s.seen \cup s.out /\ r.ours /\ r.valid /\ (r.secs = 0 \/ r.secs >= F!MIN_SECONDS)
    BY <2>2, <2>5 DEF F!Worth, F!spentCodes, F!MIN_SECONDS
  <2> QED BY <2>3, <2>6, <2>7
<1>6. Len(picked) <= s.want
  BY <1>1, <1>3
<1> HIDE DEF found
<1>7. \A i \in DOMAIN picked :
         LET r == picked[i] IN
         /\ r.code \notin s.ledger \cup s.seen \cup s.out
         /\ r.ours /\ r.valid /\ (r.secs = 0 \/ r.secs >= F!MIN_SECONDS)
         /\ r.key # -1
         /\ \A q \in found : /\ q.patch <= r.patch
                             /\ q.patch = r.patch /\ q.key > r.key => q \in F!ToSet(picked)
  BY <1>3, <1>5, Zenon
<1> QED BY <1>2, <1>6, <1>7, Zenon DEF F!OffersAreFresh, found

-----------------------------------------------------------------------------
\* pure.js, queue.js, session.js, server.js, scrape_codes.js: for every feed, every backlog
\* with its ledger, every site, and whatever becomes of a feed of the day, each page means
\* the same codes and the bot is given what the operator was shown.
THEOREM PagesAndBotAgree ==
    ASSUME NEW Rs, NEW Cs,
           part = "queues" => Q!IsFeed(sample, Rs, Cs),
           part = "feed" => F!IsBacklog(sample),
           part = "scrape" => F!IsSite(sample),
           part = "fresh" => sample \in Seq(F!RefreshEvents)
    PROVE  QueuesAgree
<1>1. part = "queues" => Q!QueuesAgree(sample)
  BY QueuesAlwaysAgree
<1>2. part = "feed" => F!RunsWhatIsShown(sample)
  BY RunsAlwaysWhatIsShown
<1>3. part = "scrape" => F!OffersAreFresh(sample)
  BY OffersAreAlwaysFresh
<1>4. part = "fresh" => F!FeedIsAsTold(sample)
  BY FeedsAreAsTold
<1> QED BY <1>1, <1>2, <1>3, <1>4 DEF QueuesAgree

-----------------------------------------------------------------------------
(* The looks of an import *)

\* How an import may stand, and what a look may show, of any texts the banner may have.
Outcomes == {"asking", "opened", "blind", "viewing", "rejected"}
LooksOf(Texts) == [in : BOOLEAN, text : Texts, sure : BOOLEAN, choice : T!JEV_IMPORT_STATES \cup {"unanswered"}]
ImportStates(Texts) == [how : Outcomes, clicks : 0..1, last : Texts]

\* No look up to n has told a thing; a text that may be read again; a look that condemns.
Asked(looks, n) == \A i \in 1..n : ~looks[i].in /\ looks[i].choice # "unanswered"
Odd(l) == l.choice = "unrecognized" /\ l.text # T!Blank
Condemns(looks, k) ==
    /\ Asked(looks, k)
    /\ \/ looks[k].choice \in T!JEV_ACTIONABLE /\ looks[k].sure
       \/ k > 1 /\ Odd(looks[k]) /\ Odd(looks[k - 1]) /\ looks[k - 1].text = looks[k].text

\* What n looks have come to: as long as it is being asked no look has told a thing, and
\* the text that is remembered is the one read last; an import is given up on a look that
\* condemns it alone.
SoFar(acc, looks, n) ==
    /\ acc.how = "asking" => /\ Asked(looks, n) /\ acc.clicks = 0
                             /\ \A k \in 1..n : ~Condemns(looks, k)
                             /\ acc.last = IF n > 0 /\ Odd(looks[n]) THEN looks[n].text ELSE T!Blank
    /\ acc.how = "opened" => \E k \in 1..n : looks[k].in
    /\ acc.how = "rejected" => \E k \in 1..n : Condemns(looks, k)

\* An answer is given with the last click.
LEMMA GivesIs ==
    ASSUME NEW Texts, NEW acc \in ImportStates(Texts), acc.clicks = 0, NEW outcome
    PROVE  T!Gives(acc, outcome) = [how |-> outcome, clicks |-> 1, last |-> acc.last]
<1>1. acc = [how |-> acc.how, clicks |-> acc.clicks, last |-> acc.last]
  BY DEF ImportStates
<1>2. acc.clicks + 1 = 1
  OBVIOUS
<1>3. T!Gives(acc, outcome) = [acc EXCEPT !.how = outcome, !.clicks = 1]
  BY <1>2, Zenon DEF T!Gives
<1> QED BY <1>1, <1>3

\* A look keeps what was said of the looks before it.
LEMMA LookIsKept ==
    ASSUME NEW Texts, T!Blank \in Texts, NEW N \in Nat, NEW looks, NEW n \in 1..N, looks[n] \in LooksOf(Texts),
           NEW acc \in ImportStates(Texts), SoFar(acc, looks, n - 1)
    PROVE  T!Look(acc, looks[n]) \in ImportStates(Texts) /\ SoFar(T!Look(acc, looks[n]), looks, n)
<1>0. CASE acc.how # "asking"
  <2>1. T!Look(acc, looks[n]) = acc
    BY <1>0 DEF T!Look
  <2>2. 1..n - 1 \subseteq 1..n
    OBVIOUS
  <2>3. SoFar(acc, looks, n)
    BY <1>0, <2>2 DEF SoFar
  <2> QED BY <2>1, <2>3
<1> SUFFICES ASSUME acc.how = "asking"
             PROVE  T!Look(acc, looks[n]) \in ImportStates(Texts) /\ SoFar(T!Look(acc, looks[n]), looks, n)
  BY <1>0
<1>1. acc.how = "asking" /\ acc.clicks = 0 /\ acc.last \in Texts
  BY DEF SoFar, ImportStates
<1>2. PICK l : l = looks[n] /\ l.in \in BOOLEAN /\ l.sure \in BOOLEAN /\ l.text \in Texts
  BY DEF LooksOf
<1>3. /\ Asked(looks, n - 1) /\ \A k \in 1..n - 1 : ~Condemns(looks, k)
      /\ acc.last = IF n - 1 > 0 /\ Odd(looks[n - 1]) THEN looks[n - 1].text ELSE T!Blank
  BY <1>1 DEF SoFar
<1>4. Asked(looks, n) <=> ~l.in /\ l.choice # "unanswered"
  <2>1. \A k \in 1..n : k = n \/ k \in 1..n - 1
    OBVIOUS
  <2>2. n \in 1..n
    OBVIOUS
  <2> QED BY <1>2, <1>3, <2>1, <2>2 DEF Asked
<1>5. Condemns(looks, n) <=>
        /\ Asked(looks, n)
        /\ \/ l.choice \in T!JEV_ACTIONABLE /\ l.sure
           \/ l.choice = "unrecognized" /\ l.text # T!Blank /\ acc.last = l.text
  <2>1. n > 1 <=> n - 1 > 0
    OBVIOUS
  <2> QED BY <1>2, <1>3, <2>1 DEF Condemns, Odd
<1>6. Odd(looks[n]) <=> l.choice = "unrecognized" /\ l.text # T!Blank
  BY <1>2 DEF Odd
<1>11. CASE l.in
  <2>1. T!Look(acc, looks[n]) = [how |-> "opened", clicks |-> 0, last |-> acc.last]
    BY <1>1, <1>2, <1>11 DEF T!Look, T!Gives, ImportStates, T!JEV_ACTIONABLE, T!JEV_IMPORT_STATES
  <2>2. PICK r : r = [how |-> "opened", clicks |-> 0, last |-> acc.last]
    OBVIOUS
  <2>3. r \in ImportStates(Texts)
    BY <1>1, <1>2, <1>11, <2>2 DEF ImportStates, Outcomes
  <2>5. looks[n].in /\ n \in 1..n
    BY <1>2, <1>11
  <2>4. SoFar(r, looks, n)
    BY <2>2, <2>5 DEF SoFar
  <2> QED BY <2>1, <2>2, <2>3, <2>4
<1>12. CASE ~l.in /\ l.choice = "unanswered"
  <2>1. T!Look(acc, looks[n]) = [how |-> "blind", clicks |-> 0, last |-> acc.last]
    BY <1>1, <1>2, <1>12 DEF T!Look, T!Gives, ImportStates, T!JEV_ACTIONABLE, T!JEV_IMPORT_STATES
  <2>2. PICK r : r = [how |-> "blind", clicks |-> 0, last |-> acc.last]
    OBVIOUS
  <2>3. r \in ImportStates(Texts)
    BY <1>1, <1>2, <1>12, <2>2 DEF ImportStates, Outcomes
  <2>4. SoFar(r, looks, n)
    BY <2>2 DEF SoFar
  <2> QED BY <2>1, <2>2, <2>3, <2>4
<1>13. CASE ~l.in /\ l.choice = "match_imported" /\ l.sure
  <2>1. T!Look(acc, looks[n]) = [how |-> "viewing", clicks |-> 1, last |-> acc.last]
    <3>1. T!Look(acc, l) = T!Gives(acc, "viewing")
      BY <1>1, <1>13 DEF T!Look, T!JEV_ACTIONABLE
    <3>2. T!Gives(acc, "viewing") = [how |-> "viewing", clicks |-> 1, last |-> acc.last]
      BY <1>1, GivesIs
    <3> QED BY <1>2, <3>1, <3>2
  <2>2. PICK r : r = [how |-> "viewing", clicks |-> 1, last |-> acc.last]
    OBVIOUS
  <2>3. r \in ImportStates(Texts)
    BY <1>1, <1>2, <1>13, <2>2 DEF ImportStates, Outcomes
  <2>4. SoFar(r, looks, n)
    BY <2>2 DEF SoFar
  <2> QED BY <2>1, <2>2, <2>3, <2>4
<1>14. CASE ~l.in /\ l.choice \in T!JEV_ACTIONABLE /\ l.sure
  <2>1. T!Look(acc, looks[n]) = [how |-> "rejected", clicks |-> 1, last |-> acc.last]
    <3>1. T!Look(acc, l) = T!Gives(acc, "rejected")
      BY <1>1, <1>14 DEF T!Look, T!JEV_ACTIONABLE
    <3>2. T!Gives(acc, "rejected") = [how |-> "rejected", clicks |-> 1, last |-> acc.last]
      BY <1>1, GivesIs
    <3> QED BY <1>2, <3>1, <3>2
  <2>2. PICK r : r = [how |-> "rejected", clicks |-> 1, last |-> acc.last]
    OBVIOUS
  <2>3. r \in ImportStates(Texts)
    BY <1>1, <1>2, <1>14, <2>2 DEF ImportStates, Outcomes
  <2>5. Condemns(looks, n) /\ n \in 1..n
    BY <1>4, <1>5, <1>14 DEF T!JEV_ACTIONABLE
  <2>4. SoFar(r, looks, n)
    BY <2>2, <2>5 DEF SoFar
  <2> QED BY <2>1, <2>2, <2>3, <2>4
<1>15. CASE ~l.in /\ l.choice = "unrecognized" /\ l.text # T!Blank /\ acc.last = l.text
  <2>1. T!Look(acc, looks[n]) = [how |-> "rejected", clicks |-> 1, last |-> acc.last]
    <3>1. T!Look(acc, l) = T!Gives(acc, "rejected")
      BY <1>1, <1>15 DEF T!Look, T!JEV_ACTIONABLE
    <3>2. T!Gives(acc, "rejected") = [how |-> "rejected", clicks |-> 1, last |-> acc.last]
      BY <1>1, GivesIs
    <3> QED BY <1>2, <3>1, <3>2
  <2>2. PICK r : r = [how |-> "rejected", clicks |-> 1, last |-> acc.last]
    OBVIOUS
  <2>3. r \in ImportStates(Texts)
    BY <1>1, <1>2, <1>15, <2>2 DEF ImportStates, Outcomes
  <2>5. Condemns(looks, n) /\ n \in 1..n
    BY <1>4, <1>5, <1>15 DEF T!JEV_ACTIONABLE
  <2>4. SoFar(r, looks, n)
    BY <2>2, <2>5 DEF SoFar
  <2> QED BY <2>1, <2>2, <2>3, <2>4
<1>16. CASE ~l.in /\ l.choice = "unrecognized" /\ l.text # T!Blank /\ acc.last # l.text
  <2>1. T!Look(acc, looks[n]) = [how |-> "asking", clicks |-> 0, last |-> l.text]
    BY <1>1, <1>2, <1>16 DEF T!Look, T!Gives, ImportStates, T!JEV_ACTIONABLE, T!JEV_IMPORT_STATES
  <2>2. PICK r : r = [how |-> "asking", clicks |-> 0, last |-> l.text]
    OBVIOUS
  <2>3. r \in ImportStates(Texts)
    BY <1>1, <1>2, <1>16, <2>2 DEF ImportStates, Outcomes
  <2>5. /\ Asked(looks, n) /\ \A k \in 1..n : ~Condemns(looks, k)
        /\ l.text = IF n > 0 /\ Odd(looks[n]) THEN looks[n].text ELSE T!Blank
    <3>1. Asked(looks, n) /\ ~Condemns(looks, n)
      BY <1>4, <1>5, <1>16 DEF T!JEV_ACTIONABLE
    <3>2. \A k \in 1..n : k = n \/ k \in 1..n - 1
      OBVIOUS
    <3>3. l.text = IF n > 0 /\ Odd(looks[n]) THEN looks[n].text ELSE T!Blank
      BY <1>2, <1>6, <1>16
    <3> QED BY <1>3, <3>1, <3>2, <3>3
  <2>4. SoFar(r, looks, n)
    BY <2>2, <2>5 DEF SoFar
  <2> QED BY <2>1, <2>2, <2>3, <2>4
<1>17. CASE /\ ~l.in /\ l.choice # "unanswered"
               /\ ~(l.sure /\ l.choice \in T!JEV_ACTIONABLE \cup {"match_imported"})
               /\ ~(l.choice = "unrecognized" /\ l.text # T!Blank)
  <2>1. T!Look(acc, looks[n]) = [how |-> "asking", clicks |-> 0, last |-> T!Blank]
    BY <1>1, <1>2, <1>17 DEF T!Look, T!Gives, ImportStates, T!JEV_ACTIONABLE, T!JEV_IMPORT_STATES
  <2>2. PICK r : r = [how |-> "asking", clicks |-> 0, last |-> T!Blank]
    OBVIOUS
  <2>3. r \in ImportStates(Texts)
    BY <1>1, <1>2, <1>17, <2>2 DEF ImportStates, Outcomes
  <2>5. /\ Asked(looks, n) /\ \A k \in 1..n : ~Condemns(looks, k)
        /\ T!Blank = IF n > 0 /\ Odd(looks[n]) THEN looks[n].text ELSE T!Blank
    <3>1. Asked(looks, n) /\ ~Condemns(looks, n)
      BY <1>4, <1>5, <1>17 DEF T!JEV_ACTIONABLE
    <3>2. \A k \in 1..n : k = n \/ k \in 1..n - 1
      OBVIOUS
    <3>3. T!Blank = IF n > 0 /\ Odd(looks[n]) THEN looks[n].text ELSE T!Blank
      BY <1>2, <1>6, <1>17
    <3> QED BY <1>3, <3>1, <3>2, <3>3
  <2>4. SoFar(r, looks, n)
    BY <2>2, <2>5 DEF SoFar
  <2> QED BY <2>1, <2>2, <2>3, <2>4
<1> QED BY <1>11, <1>12, <1>13, <1>14, <1>15, <1>16, <1>17

\* run.js importWithDiagnosis: whatever the model says of however many looks, an import
\* whose replay draws fails only on an answer that was sure, on a text read twice in a
\* row, when the clock ran out or when its last click could not be sent.
THEOREM ImportsAreFair ==
    ASSUME NEW Texts, T!Blank \in Texts, NEW s, s.looks \in Seq(LooksOf(Texts)),
           s.jev \in BOOLEAN, s.draws \in BOOLEAN, s.clickable \in BOOLEAN
    PROVE  T!ImportIsFair(s)
<1>1. PICK looks : looks = s.looks
  OBVIOUS
<1>2. PICK N \in Nat : N = Len(looks) /\ \A n \in 1..N : looks[n] \in LooksOf(Texts)
  BY <1>1
<1>3. PICK start : start = [how |-> "asking", clicks |-> 0, last |-> T!Blank]
  OBVIOUS
<1>4. start \in ImportStates(Texts) /\ SoFar(start, looks, 0)
  BY <1>3 DEF ImportStates, Outcomes, SoFar, Asked
<1> DEFINE UpTo(f) == f = [n \in 0..N |-> IF n = 0 THEN [how |-> "asking", clicks |-> 0, last |-> T!Blank]
                                                   ELSE T!Look(f[n - 1], looks[n])]
<1>5. \A acc \in ImportStates(Texts), n \in 1..N : SoFar(acc, looks, n - 1) =>
        T!Look(acc, looks[n]) \in ImportStates(Texts) /\ SoFar(T!Look(acc, looks[n]), looks, n)
  <2> HIDE DEF UpTo
  <2> QED BY <1>2, LookIsKept
<1>6. \E f : UpTo(f)
  <2>1. PICK step : step = [x \in ImportStates(Texts) \X (1..N) |->
                              IF SoFar(x[1], looks, x[2] - 1) THEN T!Look(x[1], looks[x[2]]) ELSE x[1]]
    OBVIOUS
  <2>2. step \in StepsOver(N, ImportStates(Texts))
    <3> HIDE DEF UpTo
    <3>1. \A acc \in ImportStates(Texts), n \in 1..N :
            (IF SoFar(acc, looks, n - 1) THEN T!Look(acc, looks[n]) ELSE acc) \in ImportStates(Texts)
      BY <1>5
    <3> QED BY <2>1, <3>1 DEF StepsOver
  <2>3. PICK f : Trails(f, N, ImportStates(Texts), start, step)
    <3> HIDE DEF UpTo
    <3> QED BY <1>4, <2>2, Stepwise
  <2>4. f \in [0..N -> ImportStates(Texts)] /\ f[0] = start /\ \A n \in 1..N : f[n] = step[<<f[n - 1], n>>]
    <3> HIDE DEF UpTo
    <3> QED BY <2>3 DEF Trails
  <2>5. ASSUME NEW n \in 1..N, SoFar(f[n - 1], looks, n - 1) PROVE f[n] = T!Look(f[n - 1], looks[n])
    <3>1. n - 1 \in 0..N /\ f[n - 1] \in ImportStates(Texts)
      BY <2>4
    <3>2. <<f[n - 1], n>> \in ImportStates(Texts) \X (1..N)
      BY <3>1
    <3>3. step[<<f[n - 1], n>>] = T!Look(f[n - 1], looks[n])
      BY <2>1, <2>5, <3>2
    <3> QED BY <2>4, <3>3
  <2>6. PICK Good : Good = {n \in 0..N : SoFar(f[n], looks, n)}
    OBVIOUS
  <2>7. 0..N \subseteq Good
    <3> HIDE DEF UpTo
    <3>1. 0 \in Good
      BY <1>4, <2>4, <2>6
    <3>2. ASSUME NEW n \in 1..N, n - 1 \in Good PROVE n \in Good
      <4>1. n - 1 \in 0..N /\ f[n - 1] \in ImportStates(Texts) /\ SoFar(f[n - 1], looks, n - 1)
        BY <2>4, <2>6, <3>2
      <4>2. SoFar(f[n], looks, n)
        BY <1>5, <2>5, <4>1
      <4> QED BY <2>6, <4>2
    <3> QED BY <3>1, <3>2, Reached
  <2>8. \A n \in 0..N : f[n] = IF n = 0 THEN [how |-> "asking", clicks |-> 0, last |-> T!Blank]
                                        ELSE T!Look(f[n - 1], looks[n])
    <3> TAKE n \in 0..N
    <3>1. CASE n = 0
      BY <1>3, <2>4, <3>1
    <3>2. CASE n # 0
      <4>1. n \in 1..N /\ n - 1 \in 0..N
        BY <3>2
      <4> QED BY <2>5, <2>6, <2>7, <3>2, <4>1
    <3> QED BY <3>1, <3>2
  <2>9. f = [n \in 0..N |-> f[n]]
    BY <2>4
  <2>10. UpTo(f)
    BY <2>8, <2>9, Zenon
  <2> HIDE DEF UpTo
  <2> QED BY <2>10
<1>7. PICK upTo : upTo = CHOOSE f : UpTo(f)
  OBVIOUS
<1>8. UpTo(upTo)
  <2> HIDE DEF UpTo
  <2> QED BY <1>6, <1>7
<1>9. T!Looked(looks) = upTo[N]
  BY <1>2, <1>7 DEF T!Looked
<1>10. upTo[0] = start /\ \A n \in 1..N : upTo[n] = T!Look(upTo[n - 1], looks[n])
  BY <1>3, <1>8
<1> HIDE DEF UpTo
<1>11. PICK Good : Good = {n \in 0..N : upTo[n] \in ImportStates(Texts) /\ SoFar(upTo[n], looks, n)}
  OBVIOUS
<1>12. 0..N \subseteq Good
  <2>1. 0 \in Good
    BY <1>4, <1>10, <1>11
  <2>2. ASSUME NEW n \in 1..N, n - 1 \in Good PROVE n \in Good
    <3>1. upTo[n - 1] \in ImportStates(Texts) /\ SoFar(upTo[n - 1], looks, n - 1)
      BY <1>11, <2>2
    <3>2. upTo[n] \in ImportStates(Texts) /\ SoFar(upTo[n], looks, n)
      BY <1>5, <1>10, <3>1
    <3> QED BY <1>11, <3>2
  <2> QED BY <2>1, <2>2, Reached
<1>13. PICK end : end = T!Looked(looks) /\ end \in ImportStates(Texts) /\ SoFar(end, looks, N)
  BY <1>9, <1>11, <1>12
<1>14. PICK r : r = T!ImportWithDiagnosis(s)
  OBVIOUS
<1>15. PICK condemned : condemned = \E k \in 1..N : Condemns(looks, k)
  OBVIOUS
<1>16. /\ r.opened => s.draws \/ \E k \in 1..N : looks[k].in
       /\ s.draws /\ ~r.opened => IF s.jev THEN condemned \/ Asked(looks, N) ELSE ~s.clickable
       /\ condemned /\ s.jev /\ ~r.opened => r.clicks > 0
  <2>1. CASE ~s.jev
    <3>1. r = [opened |-> s.draws /\ s.clickable, clicks |-> 1]
      BY <1>14, <2>1 DEF T!ImportWithDiagnosis
    <3> QED BY <2>1, <3>1
  <2>2. CASE s.jev /\ end.how = "opened"
    <3>1. r = [opened |-> TRUE, clicks |-> 0]
      BY <1>1, <1>13, <1>14, <2>2 DEF T!ImportWithDiagnosis
    <3> QED BY <1>13, <2>2, <3>1 DEF SoFar
  <2>3. CASE s.jev /\ end.how = "asking"
    <3>1. r = [opened |-> FALSE, clicks |-> 0]
      BY <1>1, <1>13, <1>14, <2>3 DEF T!ImportWithDiagnosis
    <3> QED BY <1>13, <1>15, <2>3, <3>1 DEF SoFar
  <2>4. CASE s.jev /\ end.how \in {"blind", "viewing", "rejected"} /\ (end.how = "blind" \/ ~s.clickable)
    <3>1. r = [opened |-> s.draws, clicks |-> end.clicks + 1]
      BY <1>1, <1>13, <1>14, <2>4 DEF T!ImportWithDiagnosis
    <3>2. end.clicks + 1 > 0
      BY <1>13 DEF ImportStates
    <3> QED BY <2>4, <3>1, <3>2
  <2>5. CASE s.jev /\ end.how = "viewing" /\ s.clickable
    <3>1. r = [opened |-> s.draws, clicks |-> 1]
      BY <1>1, <1>13, <1>14, <2>5 DEF T!ImportWithDiagnosis
    <3> QED BY <2>5, <3>1
  <2>6. CASE s.jev /\ end.how = "rejected" /\ s.clickable
    <3>1. r = [opened |-> FALSE, clicks |-> 1]
      BY <1>1, <1>13, <1>14, <2>6 DEF T!ImportWithDiagnosis
    <3>2. condemned
      BY <1>13, <1>15, <2>6 DEF SoFar
    <3> QED BY <2>6, <3>1, <3>2
  <2>7. end.how \in Outcomes
    BY <1>13 DEF ImportStates
  <2> QED BY <2>1, <2>2, <2>3, <2>4, <2>5, <2>6, <2>7 DEF Outcomes
<1> QED BY <1>1, <1>2, <1>14, <1>15, <1>16 DEF T!ImportIsFair, Condemns, Odd, Asked

-----------------------------------------------------------------------------
(* The segments of a slot *)

\* Reads that count, of any heroes with any scores, and the segments made of them.
ReadsOf(Guids, Scores) == [t : Int, guid : Guids, score : Scores]
SpansOf(Guids, Scores) == [guid : Guids, from_t : Int, reads : Seq(Scores)]
States(Guids, Scores) ==
    [done : Seq(SpansOf(Guids, Scores)), cur : SpansOf(Guids, Scores),
     pend : SpansOf(Guids, Scores) \cup {R!NoSegment}]

\* Each read is later than the one before it.
InOrder(pts) == \A i, j \in DOMAIN pts : i < j => pts[i].t < pts[j].t

\* Of the first n reads the m-th is seen again at once; what two reads in a row, the
\* first of them no later than the j-th, said last.
Again(pts, n, m) == m < n /\ pts[m].guid = pts[m + 1].guid
Tells(pts, n, j, guid) ==
    \/ guid = pts[1].guid /\ \A m \in 1..j : ~Again(pts, n, m)
    \/ \E m \in 1..j : /\ Again(pts, n, m) /\ guid = pts[m].guid
                       /\ \A l \in (m + 1)..j : ~Again(pts, n, l)

\* Time t lies in the k-th of the segments.
LiesIn(segs, k, t) == \A l \in DOMAIN segs : segs[l].from_t <= t <=> l <= k

\* Segments follow each other, each of another hero than the one before it, and those
\* after the first are seen twice.
Spans(segs) ==
    \A k, l \in DOMAIN segs : k < l =>
        /\ segs[k].from_t < segs[l].from_t
        /\ l = k + 1 => segs[k].guid # segs[l].guid
        /\ Len(segs[l].reads) >= 2

\* What is so after n reads.
SegmentsInv(st, pts, n) ==
    LET segs == Append(st.done, st.cur) IN
    /\ st.pend = IF pts[n].guid = st.cur.guid THEN R!NoSegment ELSE R!SegmentAt(pts[n])
    /\ Tells(pts, n, n, st.cur.guid)
    /\ \A l \in DOMAIN segs : segs[l].from_t <= pts[n].t
    /\ st.pend # R!NoSegment => \A l \in DOMAIN segs : segs[l].from_t < pts[n].t
    /\ Spans(segs)
    /\ \A j \in 1..n : \E k \in DOMAIN segs : LiesIn(segs, k, pts[j].t) /\ Tells(pts, n, j, segs[k].guid)

\* What is known of one read.
LEMMA ReadAt ==
    ASSUME NEW Guids, NEW Scores, NEW pts \in Seq(ReadsOf(Guids, Scores))
    PROVE  \A j \in 1..Len(pts) : pts[j].t \in Int /\ pts[j].guid \in Guids /\ pts[j].score \in Scores
<1> TAKE j \in 1..Len(pts)
<1>1. pts[j] \in ReadsOf(Guids, Scores)
  OBVIOUS
<1> QED BY <1>1 DEF ReadsOf

\* What is known of one segment.
LEMMA SpanAt ==
    ASSUME NEW Guids, NEW Scores, NEW segs \in Seq(SpansOf(Guids, Scores))
    PROVE  \A l \in DOMAIN segs :
             segs[l].from_t \in Int /\ segs[l].guid \in Guids /\ segs[l].reads \in Seq(Scores)
<1> TAKE l \in DOMAIN segs
<1>1. segs[l] \in SpansOf(Guids, Scores)
  OBVIOUS
<1> QED BY <1>1 DEF SpansOf

\* A read more that is not the one before it again tells nothing new; one that is tells
\* its hero from the one before it on.
LEMMA TellsMore ==
    ASSUME NEW Guids, NEW Scores, NEW pts \in Seq(ReadsOf(Guids, Scores)), NEW n \in 1..Len(pts), n # Len(pts),
           NEW j \in 1..n, NEW guid, Tells(pts, n, j, guid)
    PROVE  /\ j # n \/ pts[n].guid # pts[n + 1].guid => Tells(pts, n + 1, j, guid)
           /\ j = n /\ pts[n].guid # pts[n + 1].guid => Tells(pts, n + 1, n + 1, guid)
<1>1. \A m \in 1..n : m # n \/ pts[n].guid # pts[n + 1].guid => (Again(pts, n + 1, m) <=> Again(pts, n, m))
  BY DEF Again
<1>2. ~Again(pts, n + 1, n + 1) /\ ~Again(pts, n, n)
  BY DEF Again
<1>3. \A m \in 1..j : m \in 1..n /\ (j # n => m # n)
  OBVIOUS
<1>4. ASSUME j # n \/ pts[n].guid # pts[n + 1].guid PROVE Tells(pts, n + 1, j, guid)
  <2>1. \A m \in 1..j : Again(pts, n + 1, m) <=> Again(pts, n, m)
    BY <1>1, <1>3, <1>4
  <2>2. \A m \in 1..j : \A l \in (m + 1)..j : l \in 1..j
    OBVIOUS
  <2> QED BY <2>1, <2>2 DEF Tells
<1>5. ASSUME j = n, pts[n].guid # pts[n + 1].guid PROVE Tells(pts, n + 1, n + 1, guid)
  <2>1. \A m \in 1..n + 1 : Again(pts, n + 1, m) <=> m # n + 1 /\ Again(pts, n, m)
    BY <1>1, <1>2, <1>5
  <2>2. CASE guid = pts[1].guid /\ \A m \in 1..n : ~Again(pts, n, m)
    <3>1. \A m \in 1..n + 1 : ~Again(pts, n + 1, m)
      BY <2>1, <2>2
    <3> QED BY <2>2, <3>1 DEF Tells
  <2>3. CASE \E m \in 1..n : /\ Again(pts, n, m) /\ guid = pts[m].guid
                             /\ \A l \in (m + 1)..n : ~Again(pts, n, l)
    <3>1. PICK m \in 1..n : /\ Again(pts, n, m) /\ guid = pts[m].guid
                            /\ \A l \in (m + 1)..n : ~Again(pts, n, l)
      BY <2>3
    <3>2. m \in 1..n + 1 /\ Again(pts, n + 1, m)
      BY <2>1, <3>1
    <3>3. \A l \in (m + 1)..(n + 1) : ~Again(pts, n + 1, l)
      BY <2>1, <3>1
    <3> QED BY <3>1, <3>2, <3>3 DEF Tells
  <2> QED BY <1>5, <2>2, <2>3 DEF Tells
<1> QED BY <1>4, <1>5

\* A read that is the one before it again tells its hero, there and then.
LEMMA TellsAgain ==
    ASSUME NEW Guids, NEW Scores, NEW pts \in Seq(ReadsOf(Guids, Scores)), NEW n \in 1..Len(pts), n # Len(pts),
           pts[n].guid = pts[n + 1].guid
    PROVE  Tells(pts, n + 1, n, pts[n].guid) /\ Tells(pts, n + 1, n + 1, pts[n].guid)
<1>1. Again(pts, n + 1, n) /\ ~Again(pts, n + 1, n + 1)
  BY DEF Again
<1>2. \A l \in (n + 1)..(n + 1) : l = n + 1
  OBVIOUS
<1>3. n \in 1..n /\ n \in 1..n + 1 /\ (n + 1)..n = {}
  OBVIOUS
<1> QED BY <1>1, <1>2, <1>3 DEF Tells

\* Segments that only got more reads.
Grown(segs, new) ==
    /\ Len(new) = Len(segs)
    /\ \A l \in DOMAIN segs : /\ new[l].guid = segs[l].guid /\ new[l].from_t = segs[l].from_t
                              /\ Len(new[l].reads) >= Len(segs[l].reads)

\* More reads leave the segments and what lies in them.
LEMMA GrownAlike ==
    ASSUME NEW Guids, NEW Scores, NEW segs \in Seq(SpansOf(Guids, Scores)),
           NEW new \in Seq(SpansOf(Guids, Scores)), Grown(segs, new)
    PROVE  /\ DOMAIN new = DOMAIN segs
           /\ Spans(segs) => Spans(new)
           /\ \A k \in DOMAIN segs, t \in Int : LiesIn(segs, k, t) <=> LiesIn(new, k, t)
<1>1. DOMAIN new = DOMAIN segs
  BY DEF Grown
<1>2. ASSUME Spans(segs) PROVE Spans(new)
  <2>1. SUFFICES ASSUME NEW k \in DOMAIN new, NEW l \in DOMAIN new, k < l
                 PROVE  /\ new[k].from_t < new[l].from_t
                        /\ l = k + 1 => new[k].guid # new[l].guid
                        /\ Len(new[l].reads) >= 2
    BY DEF Spans
  <2>2. /\ new[k].from_t = segs[k].from_t /\ new[l].from_t = segs[l].from_t
        /\ new[k].guid = segs[k].guid /\ new[l].guid = segs[l].guid
        /\ Len(new[l].reads) >= Len(segs[l].reads)
    BY <1>1 DEF Grown
  <2>3. /\ segs[k].from_t < segs[l].from_t
        /\ l = k + 1 => segs[k].guid # segs[l].guid
        /\ Len(segs[l].reads) >= 2
    BY <1>1, <1>2, <2>1 DEF Spans
  <2>4. Len(new[l].reads) \in Nat /\ Len(segs[l].reads) \in Nat
    BY <1>1 DEF SpansOf
  <2> QED BY <2>2, <2>3, <2>4
<1>3. \A k \in DOMAIN segs, t \in Int : LiesIn(segs, k, t) <=> LiesIn(new, k, t)
  BY <1>1 DEF LiesIn, Grown
<1> QED BY <1>1, <1>2, <1>3

\* The last segment alone gets more reads.
LEMMA GrownAtEnd ==
    ASSUME NEW Guids, NEW Scores, NEW done \in Seq(SpansOf(Guids, Scores)),
           NEW was \in SpansOf(Guids, Scores), NEW is \in SpansOf(Guids, Scores),
           is.guid = was.guid, is.from_t = was.from_t, Len(is.reads) >= Len(was.reads)
    PROVE  Grown(Append(done, was), Append(done, is))
<1>1. PICK N \in Nat : N = Len(done)
  OBVIOUS
<1>2. /\ Len(Append(done, was)) = N + 1 /\ Len(Append(done, is)) = N + 1
      /\ DOMAIN Append(done, was) = 1..N + 1
      /\ Append(done, was)[N + 1] = was /\ Append(done, is)[N + 1] = is
      /\ \A l \in 1..N : Append(done, was)[l] = done[l] /\ Append(done, is)[l] = done[l]
  BY <1>1
<1>3. ASSUME NEW l \in 1..N + 1
      PROVE  /\ Append(done, is)[l].guid = Append(done, was)[l].guid
             /\ Append(done, is)[l].from_t = Append(done, was)[l].from_t
             /\ Len(Append(done, is)[l].reads) >= Len(Append(done, was)[l].reads)
  <2>1. CASE l = N + 1
    BY <1>2, <2>1
  <2>2. CASE l # N + 1
    <3>1. l \in 1..N /\ Append(done, was)[l] = done[l] /\ Append(done, is)[l] = done[l]
      BY <1>2, <2>2
    <3>2. done[l].reads \in Seq(Scores)
      BY <1>1, <3>1, SpanAt
    <3>3. Len(done[l].reads) \in Nat
      BY <3>2
    <3> QED BY <3>1, <3>3
  <2> QED BY <2>1, <2>2
<1> QED BY <1>2, <1>3 DEF Grown

\* The slot stays on its hero, or another one waits from now on: no segment is new.
LEMMA StaysOn ==
    ASSUME NEW Guids, NEW Scores, NEW pts \in Seq(ReadsOf(Guids, Scores)), InOrder(pts),
           NEW n \in 1..Len(pts), n # Len(pts), NEW st \in States(Guids, Scores), SegmentsInv(st, pts, n),
           NEW new \in States(Guids, Scores),
           Grown(Append(st.done, st.cur), Append(new.done, new.cur)), new.cur.guid = st.cur.guid,
           new.pend = IF pts[n + 1].guid = st.cur.guid THEN R!NoSegment ELSE R!SegmentAt(pts[n + 1]),
           pts[n + 1].guid = pts[n].guid => pts[n].guid = st.cur.guid
    PROVE  SegmentsInv(new, pts, n + 1)
<1>1. PICK segs : segs = Append(st.done, st.cur)
  OBVIOUS
<1>2. PICK grown : grown = Append(new.done, new.cur)
  OBVIOUS
<1>3. segs \in Seq(SpansOf(Guids, Scores)) /\ grown \in Seq(SpansOf(Guids, Scores)) /\ Grown(segs, grown)
  BY <1>1, <1>2 DEF States
<1>4. /\ n + 1 \in DOMAIN pts /\ n \in DOMAIN pts /\ pts[n].t < pts[n + 1].t
      /\ pts[n].t \in Int /\ pts[n + 1].t \in Int
  <2>1. n + 1 \in DOMAIN pts /\ n \in DOMAIN pts /\ n < n + 1 /\ DOMAIN pts = 1..Len(pts)
    OBVIOUS
  <2> QED BY <2>1, ReadAt DEF InOrder
<1>5. Len(segs) \in DOMAIN segs /\ segs[Len(segs)] = st.cur
  BY <1>1 DEF States
<1>6. /\ Tells(pts, n, n, st.cur.guid)
      /\ \A l \in DOMAIN segs : segs[l].from_t <= pts[n].t
      /\ Spans(segs)
      /\ \A j \in 1..n : \E k \in DOMAIN segs : LiesIn(segs, k, pts[j].t) /\ Tells(pts, n, j, segs[k].guid)
  BY <1>1 DEF SegmentsInv
<1>7. DOMAIN grown = DOMAIN segs /\ Spans(grown)
  BY <1>3, <1>6, GrownAlike
<1>8. \A l \in DOMAIN grown : grown[l].from_t < pts[n + 1].t
  <2> TAKE l \in DOMAIN grown
  <2>1. grown[l].from_t = segs[l].from_t /\ segs[l].from_t <= pts[n].t /\ segs[l].from_t \in Int
    BY <1>3, <1>6, <1>7, SpanAt DEF Grown
  <2> QED BY <1>4, <2>1
<1>9. Tells(pts, n + 1, n + 1, st.cur.guid) /\ Tells(pts, n + 1, n, st.cur.guid)
  <2>1. CASE pts[n].guid = pts[n + 1].guid
    BY <2>1, TellsAgain
  <2>2. CASE pts[n].guid # pts[n + 1].guid
    BY <1>6, <2>2, TellsMore
  <2> QED BY <2>1, <2>2
<1>10. LiesIn(grown, Len(segs), pts[n].t) /\ LiesIn(grown, Len(segs), pts[n + 1].t)
  <2>1. \A l \in DOMAIN grown : l <= Len(segs) /\ grown[l].from_t <= pts[n].t /\ grown[l].from_t <= pts[n + 1].t
    <3> TAKE l \in DOMAIN grown
    <3>1. grown[l].from_t = segs[l].from_t /\ segs[l].from_t <= pts[n].t /\ segs[l].from_t \in Int
      BY <1>3, <1>6, <1>7, SpanAt DEF Grown
    <3> QED BY <1>3, <1>4, <1>7, <3>1
  <2> QED BY <2>1 DEF LiesIn
<1>11. ASSUME NEW j \in 1..n + 1
       PROVE  \E k \in DOMAIN grown : LiesIn(grown, k, pts[j].t) /\ Tells(pts, n + 1, j, grown[k].guid)
  <2>1. CASE j \in {n, n + 1}
    <3>1. grown[Len(segs)].guid = st.cur.guid
      BY <1>3, <1>5 DEF Grown
    <3> QED BY <1>5, <1>7, <1>9, <1>10, <2>1, <3>1
  <2>2. CASE j \notin {n, n + 1}
    <3>1. j \in 1..n /\ j # n
      BY <2>2
    <3>2. PICK k \in DOMAIN segs : LiesIn(segs, k, pts[j].t) /\ Tells(pts, n, j, segs[k].guid)
      BY <1>6, <3>1
    <3>3. Tells(pts, n + 1, j, segs[k].guid)
      BY <3>1, <3>2, TellsMore
    <3>4. pts[j].t \in Int
      BY <3>1, ReadAt
    <3>5. LiesIn(grown, k, pts[j].t)
      BY <1>3, <3>2, <3>4, GrownAlike
    <3>6. grown[k].guid = segs[k].guid
      BY <1>3 DEF Grown
    <3> QED BY <1>7, <3>2, <3>3, <3>5, <3>6
  <2> QED BY <2>1, <2>2
<1>12. \A l \in DOMAIN grown : grown[l].from_t <= pts[n + 1].t
  <2> TAKE l \in DOMAIN grown
  <2>1. grown[l].from_t \in Int
    BY <1>3, SpanAt
  <2> QED BY <1>4, <1>8, <2>1
<1> QED BY <1>2, <1>7, <1>8, <1>9, <1>11, <1>12 DEF SegmentsInv

\* What waits is no segment that is none, and is one read of its hero.
LEMMA WaitsWith ==
    ASSUME NEW Guids, NEW Scores, NEW r \in ReadsOf(Guids, Scores)
    PROVE  /\ R!SegmentAt(r) # R!NoSegment /\ R!SegmentAt(r) \in SpansOf(Guids, Scores)
           /\ R!SegmentAt(r) = [guid |-> r.guid, from_t |-> r.t, reads |-> <<r.score>>]
<1>1. r.t \in Int /\ r.guid \in Guids /\ <<r.score>> \in Seq(Scores)
  BY DEF ReadsOf
<1>2. R!SegmentAt(r).reads = <<r.score>> /\ R!NoSegment.reads = <<>>
  BY DEF R!SegmentAt, R!NoSegment
<1>3. <<r.score>> # <<>>
  OBVIOUS
<1> QED BY <1>1, <1>2, <1>3 DEF R!SegmentAt, SpansOf

\* The hero that waited is read again: a segment begins where it waited from.
LEMMA SwapsTo ==
    ASSUME NEW Guids, NEW Scores, NEW pts \in Seq(ReadsOf(Guids, Scores)), InOrder(pts),
           NEW n \in 1..Len(pts), n # Len(pts), NEW st \in States(Guids, Scores), SegmentsInv(st, pts, n),
           pts[n].guid # st.cur.guid, pts[n + 1].guid = pts[n].guid,
           NEW new \in States(Guids, Scores), new.done = Append(st.done, st.cur), new.pend = R!NoSegment,
           new.cur.guid = pts[n].guid, new.cur.from_t = pts[n].t, Len(new.cur.reads) = 2
    PROVE  SegmentsInv(new, pts, n + 1)
<1>1. PICK segs : segs = Append(st.done, st.cur)
  OBVIOUS
<1>2. PICK grown : grown = Append(new.done, new.cur)
  OBVIOUS
<1>3. segs \in Seq(SpansOf(Guids, Scores)) /\ grown \in Seq(SpansOf(Guids, Scores))
  BY <1>1, <1>2 DEF States
<1>4. PICK N \in Nat : N = Len(segs) /\ N > 0
  BY <1>1 DEF States
<1>5. /\ Len(grown) = N + 1 /\ DOMAIN segs = 1..N /\ DOMAIN grown = 1..N + 1
      /\ grown[N + 1] = new.cur /\ \A l \in 1..N : grown[l] = segs[l]
  BY <1>1, <1>2, <1>3, <1>4
<1>6. segs[N] = st.cur
  BY <1>1, <1>4 DEF States
<1>7. /\ n + 1 \in DOMAIN pts /\ n \in DOMAIN pts /\ pts[n].t < pts[n + 1].t
      /\ pts[n].t \in Int /\ pts[n + 1].t \in Int
  <2>1. n + 1 \in DOMAIN pts /\ n \in DOMAIN pts /\ n < n + 1 /\ DOMAIN pts = 1..Len(pts)
    OBVIOUS
  <2> QED BY <2>1, ReadAt DEF InOrder
<1>8. st.pend # R!NoSegment
  <2>1. st.pend = R!SegmentAt(pts[n])
    BY DEF SegmentsInv
  <2>2. pts[n] \in ReadsOf(Guids, Scores)
    OBVIOUS
  <2> QED BY <2>1, <2>2, WaitsWith
<1>9. /\ Spans(segs) /\ \A l \in 1..N : segs[l].from_t < pts[n].t
      /\ \A j \in 1..n : \E k \in 1..N : LiesIn(segs, k, pts[j].t) /\ Tells(pts, n, j, segs[k].guid)
  BY <1>1, <1>5, <1>8 DEF SegmentsInv
<1>10. \A l \in 1..N : segs[l].from_t \in Int
  BY <1>3, <1>5, SpanAt
<1>11. Spans(grown)
  <2>1. SUFFICES ASSUME NEW k \in 1..N + 1, NEW l \in 1..N + 1, k < l
                 PROVE  /\ grown[k].from_t < grown[l].from_t
                        /\ l = k + 1 => grown[k].guid # grown[l].guid
                        /\ Len(grown[l].reads) >= 2
    BY <1>5 DEF Spans
  <2>2. CASE l = N + 1
    <3>1. k \in 1..N /\ grown[k] = segs[k] /\ grown[l] = new.cur
      BY <1>5, <2>1, <2>2
    <3>2. l = k + 1 => segs[k] = st.cur
      BY <1>6, <2>2
    <3>3. grown[k].from_t < grown[l].from_t
      BY <1>9, <3>1
    <3>4. l = k + 1 => grown[k].guid # grown[l].guid
      BY <3>1, <3>2
    <3>5. Len(grown[l].reads) = 2
      BY <3>1, Zenon
    <3> QED BY <3>3, <3>4, <3>5
  <2>3. CASE l # N + 1
    <3>1. k \in 1..N /\ l \in 1..N /\ grown[k] = segs[k] /\ grown[l] = segs[l]
      BY <1>5, <2>1, <2>3
    <3>2. k \in DOMAIN segs /\ l \in DOMAIN segs
      BY <1>5, <3>1
    <3>3. /\ segs[k].from_t < segs[l].from_t
          /\ l = k + 1 => segs[k].guid # segs[l].guid
          /\ Len(segs[l].reads) >= 2
      BY <1>9, <2>1, <3>2 DEF Spans
    <3> QED BY <3>1, <3>3
  <2> QED BY <2>2, <2>3
<1>12. \A l \in 1..N + 1 : /\ grown[l].from_t <= pts[n].t /\ grown[l].from_t < pts[n + 1].t
                           /\ grown[l].from_t <= pts[n + 1].t
  <2> TAKE l \in 1..N + 1
  <2>1. grown[l].from_t \in Int /\ grown[l].from_t <= pts[n].t
    <3>1. CASE l = N + 1
      BY <1>5, <1>7, <3>1
    <3>2. CASE l # N + 1
      <4>1. l \in 1..N
        BY <3>2
      <4> QED BY <1>5, <1>7, <1>9, <1>10, <4>1
    <3> QED BY <3>1, <3>2
  <2> QED BY <1>7, <2>1
<1>13. LiesIn(grown, N + 1, pts[n].t) /\ LiesIn(grown, N + 1, pts[n + 1].t)
  BY <1>5, <1>12 DEF LiesIn
<1>14. Tells(pts, n + 1, n, pts[n].guid) /\ Tells(pts, n + 1, n + 1, pts[n].guid)
  BY TellsAgain
<1>15. ASSUME NEW j \in 1..n + 1
       PROVE  \E k \in DOMAIN grown : LiesIn(grown, k, pts[j].t) /\ Tells(pts, n + 1, j, grown[k].guid)
  <2>1. CASE j \in {n, n + 1}
    <3>1. N + 1 \in DOMAIN grown /\ grown[N + 1].guid = pts[n].guid
      BY <1>5
    <3> QED BY <1>13, <1>14, <2>1, <3>1
  <2>2. CASE j \notin {n, n + 1}
    <3>1. j \in 1..n /\ j # n /\ j \in DOMAIN pts
      BY <2>2
    <3>2. PICK k \in 1..N : LiesIn(segs, k, pts[j].t) /\ Tells(pts, n, j, segs[k].guid)
      BY <1>9, <3>1
    <3>3. Tells(pts, n + 1, j, segs[k].guid)
      BY <3>1, <3>2, TellsMore
    <3>4. pts[j].t \in Int /\ pts[j].t < pts[n].t
      <4>1. pts[j].t \in Int
        BY <3>1, ReadAt
      <4>2. j < n
        BY <3>1
      <4> QED BY <1>7, <3>1, <4>1, <4>2 DEF InOrder
    <3>5. LiesIn(grown, k, pts[j].t)
      <4>1. \A l \in 1..N + 1 : grown[l].from_t <= pts[j].t <=> l <= k
        <5> TAKE l \in 1..N + 1
        <5>1. CASE l = N + 1
          BY <1>5, <1>7, <3>2, <3>4, <5>1
        <5>2. CASE l # N + 1
          <6>1. l \in 1..N
            BY <5>2
          <6> QED BY <1>5, <3>2, <6>1 DEF LiesIn
        <5> QED BY <5>1, <5>2
      <4> QED BY <1>5, <4>1 DEF LiesIn
    <3>6. grown[k].guid = segs[k].guid /\ k \in DOMAIN grown
      BY <1>5, <3>2
    <3> QED BY <3>3, <3>5, <3>6
  <2> QED BY <2>1, <2>2
<1> QED BY <1>2, <1>5, <1>11, <1>12, <1>14, <1>15 DEF SegmentsInv

\* A read more keeps what is so of the reads before it.
LEMMA StepIsKept ==
    ASSUME NEW Guids, NEW Scores, NEW pts \in Seq(ReadsOf(Guids, Scores)), InOrder(pts),
           NEW n \in 1..Len(pts), n # Len(pts), NEW st \in States(Guids, Scores), SegmentsInv(st, pts, n)
    PROVE  /\ R!SegmentStep(st, pts[n + 1]) \in States(Guids, Scores)
           /\ SegmentsInv(R!SegmentStep(st, pts[n + 1]), pts, n + 1)
<1>1. PICK r : r = pts[n + 1]
  OBVIOUS
<1>2. pts[n] \in ReadsOf(Guids, Scores) /\ r \in ReadsOf(Guids, Scores)
  BY <1>1
<1>3. r.score \in Scores /\ pts[n].score \in Scores /\ pts[n].t \in Int /\ pts[n].guid \in Guids
  BY <1>2 DEF ReadsOf
<1>4. PICK new : new = R!SegmentStep(st, r)
  OBVIOUS
<1>5. st.pend = IF pts[n].guid = st.cur.guid THEN R!NoSegment ELSE R!SegmentAt(pts[n])
  BY DEF SegmentsInv
<1>6. /\ st.done \in Seq(SpansOf(Guids, Scores)) /\ st.cur \in SpansOf(Guids, Scores)
      /\ st = [done |-> st.done, cur |-> st.cur, pend |-> st.pend]
  BY DEF States
<1>7. PICK guid \in Guids, from \in Int, was \in Seq(Scores) :
          st.cur = [guid |-> guid, from_t |-> from, reads |-> was]
  BY <1>6 DEF SpansOf
<1>8. st.pend.reads \in Seq(Scores) /\ Len(st.pend.reads) \in Nat
  <2>1. CASE st.pend = R!NoSegment
    BY <2>1 DEF R!NoSegment
  <2>2. CASE st.pend = R!SegmentAt(pts[n])
    <3>1. st.pend.reads = <<pts[n].score>>
      BY <1>2, <2>2, WaitsWith
    <3> QED BY <1>3, <3>1
  <2> QED BY <1>5, <2>1, <2>2
<1>9. CASE st.pend # R!NoSegment /\ r.guid = st.pend.guid
  <2>1. pts[n].guid # st.cur.guid /\ st.pend = [guid |-> pts[n].guid, from_t |-> pts[n].t, reads |-> <<pts[n].score>>]
    BY <1>2, <1>5, <1>9, WaitsWith
  <2>2. PICK both : both = Append(<<pts[n].score>>, r.score)
    OBVIOUS
  <2>3. PICK cur : cur = [guid |-> pts[n].guid, from_t |-> pts[n].t, reads |-> both]
    OBVIOUS
  <2>11. [st.pend EXCEPT !.reads = Append(@, r.score)] = cur
    <3>1. st.pend.reads = <<pts[n].score>>
      BY <2>1
    <3>2. \A more : [st.pend EXCEPT !.reads = more] = [guid |-> pts[n].guid, from_t |-> pts[n].t, reads |-> more]
      BY <2>1
    <3> QED BY <2>2, <2>3, <3>1, <3>2, Zenon
  <2>4. new = [done |-> Append(st.done, st.cur), cur |-> cur, pend |-> R!NoSegment]
    BY <1>4, <1>9, <2>11 DEF R!SegmentStep
  <2>5. both \in Seq(Scores) /\ Len(both) = 2
    <3>1. <<pts[n].score>> \in Seq(Scores) /\ Len(<<pts[n].score>>) = 1
      BY <1>3
    <3> QED BY <1>3, <2>2, <3>1
  <2>6. cur \in SpansOf(Guids, Scores) /\ Len(cur.reads) = 2
    BY <1>3, <2>3, <2>5 DEF SpansOf
  <2>7. Append(st.done, st.cur) \in Seq(SpansOf(Guids, Scores))
    BY <1>6
  <2>8. new \in States(Guids, Scores)
    BY <2>4, <2>6, <2>7 DEF States
  <2>9. pts[n + 1].guid = pts[n].guid
    BY <1>1, <1>9, <2>1
  <2>10. /\ new.done = Append(st.done, st.cur) /\ new.pend = R!NoSegment
         /\ new.cur.guid = pts[n].guid /\ new.cur.from_t = pts[n].t /\ Len(new.cur.reads) = 2
    BY <2>3, <2>4, <2>6
  <2> QED BY <1>1, <1>4, <2>1, <2>8, <2>9, <2>10, SwapsTo
<1>10. CASE ~(st.pend # R!NoSegment /\ r.guid = st.pend.guid)
  <2>1. PICK reads : reads = IF r.guid = st.cur.guid THEN was \o st.pend.reads \o <<r.score>>
                             ELSE was \o st.pend.reads
    OBVIOUS
  <2>2. PICK pend : pend = IF r.guid = st.cur.guid THEN R!NoSegment ELSE R!SegmentAt(r)
    OBVIOUS
  <2>3. PICK cur : cur = [guid |-> guid, from_t |-> from, reads |-> reads]
    OBVIOUS
  <2>4. reads \in Seq(Scores) /\ Len(reads) >= Len(was)
    <3>1. PICK a : a = was /\ a \in Seq(Scores)
      OBVIOUS
    <3>2. PICK b : b = st.pend.reads /\ b \in Seq(Scores)
      BY <1>8
    <3>3. PICK x \in Scores : x = r.score
      BY <1>3
    <3>4. PICK ab : ab = a \o b
      OBVIOUS
    <3>5. ab \in Seq(Scores) /\ Len(ab) >= Len(a)
      BY <3>1, <3>2, <3>4
    <3>6. ab \o <<x>> \in Seq(Scores) /\ Len(ab \o <<x>>) = Len(ab) + 1
      BY <3>5
    <3>7. Len(ab) \in Nat /\ Len(a) \in Nat
      BY <3>1, <3>5
    <3>8. reads = IF r.guid = st.cur.guid THEN ab \o <<x>> ELSE ab
      BY <2>1, <3>1, <3>2, <3>3, <3>4
    <3> QED BY <3>1, <3>5, <3>6, <3>7, <3>8
  <2>5. new = [done |-> st.done, cur |-> cur, pend |-> pend]
    <3>1. CASE r.guid = st.cur.guid
      <4>1. [st.cur EXCEPT !.reads = @ \o st.pend.reads \o <<r.score>>] = cur
        <5>1. st.cur.reads = was
          BY <1>7
        <5>2. \A more : [st.cur EXCEPT !.reads = more] = [guid |-> guid, from_t |-> from, reads |-> more]
          BY <1>7
        <5> QED BY <2>1, <2>3, <3>1, <5>1, <5>2, Zenon
      <4>2. new = [st EXCEPT !.cur.reads = @ \o st.pend.reads \o <<r.score>>, !.pend = R!NoSegment]
        BY <1>4, <1>10, <3>1 DEF R!SegmentStep
      <4> QED BY <1>6, <2>2, <3>1, <4>1, <4>2
    <3>2. CASE r.guid # st.cur.guid
      <4>1. [st.cur EXCEPT !.reads = @ \o st.pend.reads] = cur
        <5>1. st.cur.reads = was
          BY <1>7
        <5>2. \A more : [st.cur EXCEPT !.reads = more] = [guid |-> guid, from_t |-> from, reads |-> more]
          BY <1>7
        <5> QED BY <2>1, <2>3, <3>2, <5>1, <5>2, Zenon
      <4>2. new = [st EXCEPT !.cur.reads = @ \o st.pend.reads, !.pend = R!SegmentAt(r)]
        BY <1>4, <1>10, <3>2 DEF R!SegmentStep
      <4> QED BY <1>6, <2>2, <3>2, <4>1, <4>2
    <3> QED BY <3>1, <3>2
  <2>6. cur \in SpansOf(Guids, Scores) /\ pend \in SpansOf(Guids, Scores) \cup {R!NoSegment}
    <3>1. cur \in SpansOf(Guids, Scores)
      BY <1>7, <2>3, <2>4 DEF SpansOf
    <3>2. R!SegmentAt(r) \in SpansOf(Guids, Scores)
      BY <1>2, WaitsWith
    <3> QED BY <2>2, <3>1, <3>2
  <2>7. new \in States(Guids, Scores)
    BY <1>6, <2>5, <2>6 DEF States
  <2>8. Grown(Append(st.done, st.cur), Append(new.done, new.cur))
    <3>1. new.done = st.done /\ new.cur = cur
      BY <2>5
    <3>2. /\ cur.guid = st.cur.guid /\ cur.from_t = st.cur.from_t
          /\ Len(cur.reads) >= Len(st.cur.reads)
      BY <1>7, <2>3, <2>4
    <3> QED BY <1>6, <2>6, <3>1, <3>2, GrownAtEnd
  <2>9. new.cur.guid = st.cur.guid /\ new.pend = IF pts[n + 1].guid = st.cur.guid THEN R!NoSegment
                                                  ELSE R!SegmentAt(pts[n + 1])
    BY <1>1, <1>7, <2>2, <2>3, <2>5
  <2>10. pts[n + 1].guid = pts[n].guid => pts[n].guid = st.cur.guid
    <3>1. R!SegmentAt(pts[n]) # R!NoSegment /\ R!SegmentAt(pts[n]).guid = pts[n].guid
      BY <1>2, WaitsWith
    <3> QED BY <1>1, <1>5, <1>10, <3>1
  <2> QED BY <1>1, <1>4, <2>7, <2>8, <2>9, <2>10, StaysOn
<1> QED BY <1>9, <1>10

\* What a slot is on at a time is the segment the time lies in.
LEMMA ActiveIs ==
    ASSUME NEW Guids, NEW Scores, NEW segs \in Seq(SpansOf(Guids, Scores)), NEW k \in DOMAIN segs,
           NEW t \in Int, LiesIn(segs, k, t)
    PROVE  R!ActiveAt(segs, t) = segs[k].guid
<1>1. PICK N \in Nat : N = Len(segs) /\ DOMAIN segs = 1..N /\ k \in 1..N
  OBVIOUS
<1>2. PICK after : after = {i \in 1..Len(segs) : segs[i].from_t > t}
  OBVIOUS
<1>3. after = (k + 1)..N
  <2>1. \A i \in 1..N : segs[i].from_t > t <=> i > k
    <3> TAKE i \in 1..N
    <3>1. segs[i].from_t \in Int
      BY <1>1, SpanAt
    <3>2. segs[i].from_t <= t <=> i <= k
      BY <1>1 DEF LiesIn
    <3> QED BY <1>1, <3>1, <3>2
  <2>2. \A i \in 1..N : i \in after <=> i > k
    BY <1>1, <1>2, <2>1
  <2>3. after \subseteq 1..N
    BY <1>1, <1>2
  <2>4. \A i : i \in (k + 1)..N <=> i \in 1..N /\ i > k
    BY <1>1
  <2> QED BY <2>2, <2>3, <2>4
<1>4. PICK past : past = R!SelectInSeq(segs, LAMBDA g : g.from_t > t)
  OBVIOUS
<1>5. past = IF after # {} THEN R!Min(after) ELSE 0
  BY <1>2, <1>4 DEF R!SelectInSeq
<1>6. CASE k = N
  <2>1. past = 0
    BY <1>1, <1>3, <1>5, <1>6
  <2> QED BY <1>1, <1>4, <1>6, <2>1 DEF R!ActiveAt
<1>7. CASE k # N
  <2>1. k + 1 \in after /\ \A i \in after : k + 1 <= i
    BY <1>1, <1>3, <1>7
  <2>2. \A i \in after : (\A l \in after : i <= l) => i = k + 1
    BY <1>1, <1>3, <2>1
  <2>3. R!Min(after) = k + 1
    BY <2>1, <2>2 DEF R!Min
  <2>4. past = k + 1 /\ past - 1 = k /\ past # 0 /\ k # 0
    BY <1>1, <1>5, <2>1, <2>3
  <2> QED BY <1>4, <2>4 DEF R!ActiveAt
<1> QED BY <1>6, <1>7

\* What all the reads tell is what they confirm.
LEMMA ConfirmedIs ==
    ASSUME NEW Guids, NEW Scores, NEW pts \in Seq(ReadsOf(Guids, Scores)), NEW j \in 1..Len(pts), NEW guid,
           Tells(pts, Len(pts), j, guid)
    PROVE  R!Confirmed(pts, j) = guid
<1>1. PICK twice : twice = {m \in 1..j : m < Len(pts) /\ pts[m].guid = pts[m + 1].guid}
  OBVIOUS
<1>2. \A m \in 1..j : m \in twice <=> Again(pts, Len(pts), m)
  BY <1>1 DEF Again
<1>3. CASE guid = pts[1].guid /\ \A m \in 1..j : ~Again(pts, Len(pts), m)
  <2>1. twice = {}
    BY <1>1, <1>2, <1>3
  <2> QED BY <1>1, <1>3, <2>1 DEF R!Confirmed
<1>4. CASE \E m \in 1..j : /\ Again(pts, Len(pts), m) /\ guid = pts[m].guid
                           /\ \A l \in (m + 1)..j : ~Again(pts, Len(pts), l)
  <2>1. PICK m \in 1..j : /\ Again(pts, Len(pts), m) /\ guid = pts[m].guid
                          /\ \A l \in (m + 1)..j : ~Again(pts, Len(pts), l)
    BY <1>4
  <2>2. m \in twice /\ twice \subseteq 1..j
    BY <1>1, <1>2, <2>1
  <2>3. \A l \in twice : l <= m
    <3> SUFFICES ASSUME NEW l \in twice, ~(l <= m) PROVE FALSE
      OBVIOUS
    <3>1. l \in 1..j /\ l \in (m + 1)..j
      BY <2>2
    <3> QED BY <1>2, <2>1, <3>1
  <2>4. \A x \in twice : (\A l \in twice : l <= x) => x = m
    BY <2>2, <2>3
  <2>5. (CHOOSE x \in twice : \A n \in twice : n <= x) = m
    BY <2>2, <2>3, <2>4
  <2>6. twice # {}
    BY <2>2
  <2> QED BY <1>1, <2>1, <2>5, <2>6 DEF R!Confirmed
<1> QED BY <1>3, <1>4 DEF Tells

\* After the first read.
LEMMA FirstRead ==
    ASSUME NEW Guids, NEW Scores, NEW pts \in Seq(ReadsOf(Guids, Scores)), Len(pts) > 0,
           NEW st, st = [done |-> <<>>, cur |-> R!SegmentAt(pts[1]), pend |-> R!NoSegment]
    PROVE  st \in States(Guids, Scores) /\ SegmentsInv(st, pts, 1)
<1>1. 1 \in 1..Len(pts) /\ pts[1] \in ReadsOf(Guids, Scores) /\ pts[1].t \in Int
  <2>1. 1 \in 1..Len(pts)
    OBVIOUS
  <2> QED BY <2>1, ReadAt
<1>2. PICK cur \in SpansOf(Guids, Scores) : cur = R!SegmentAt(pts[1]) /\ cur.guid = pts[1].guid /\ cur.from_t = pts[1].t
  BY <1>1, WaitsWith
<1>3. st.done = <<>> /\ st.cur = cur /\ st.pend = R!NoSegment /\ <<>> \in Seq(SpansOf(Guids, Scores))
  BY <1>2
<1>4. st \in States(Guids, Scores)
  BY <1>2, <1>3 DEF States
<1>5. PICK segs : segs = Append(st.done, st.cur)
  OBVIOUS
<1>6. DOMAIN segs = {1} /\ segs[1] = cur
  BY <1>2, <1>3, <1>5
<1>7. Spans(segs)
  BY <1>6 DEF Spans
<1>8. LiesIn(segs, 1, pts[1].t)
  BY <1>1, <1>2, <1>6 DEF LiesIn
<1>9. Tells(pts, 1, 1, cur.guid)
  BY <1>2 DEF Tells, Again
<1>10. \A l \in DOMAIN segs : segs[l].from_t <= pts[1].t
  BY <1>1, <1>2, <1>6
<1>11. \A j \in 1..1 : \E k \in DOMAIN segs : LiesIn(segs, k, pts[j].t) /\ Tells(pts, 1, j, segs[k].guid)
  BY <1>6, <1>8, <1>9
<1>12. st.pend = IF pts[1].guid = st.cur.guid THEN R!NoSegment ELSE R!SegmentAt(pts[1])
  BY <1>2, <1>3
<1> QED BY <1>3, <1>4, <1>5, <1>7, <1>9, <1>10, <1>11, <1>12 DEF SegmentsInv

\* What is shown of the reads: whatever heroes are read in whatever order, with however
\* many misreads, a slot is at the time of each read on the hero that two reads in a row
\* said last.
HeroShown(segs, pts) ==
    /\ Spans(segs)
    /\ \A j \in DOMAIN pts : R!ActiveAt(segs, pts[j].t) = R!Confirmed(pts, j)

\* What waits at the end is noise.
LEMMA EndsWell ==
    ASSUME NEW Guids, NEW Scores, NEW pts \in Seq(ReadsOf(Guids, Scores)), Len(pts) > 0,
           NEW end \in States(Guids, Scores), SegmentsInv(end, pts, Len(pts))
    PROVE  HeroShown(Append(end.done, [end.cur EXCEPT !.reads = @ \o end.pend.reads]), pts)
<1>1. /\ end.done \in Seq(SpansOf(Guids, Scores)) /\ end.cur \in SpansOf(Guids, Scores)
      /\ end.pend \in SpansOf(Guids, Scores) \cup {R!NoSegment}
  BY DEF States
<1>2. PICK guid \in Guids, from \in Int, was \in Seq(Scores) :
          end.cur = [guid |-> guid, from_t |-> from, reads |-> was]
  BY <1>1 DEF SpansOf
<1>3. PICK more \in Seq(Scores) : more = end.pend.reads
  <2>1. CASE end.pend = R!NoSegment
    <3>1. end.pend.reads = <<>> /\ <<>> \in Seq(Scores)
      BY <2>1 DEF R!NoSegment
    <3> QED BY <3>1, Zenon
  <2>2. CASE end.pend \in SpansOf(Guids, Scores)
    <3>1. end.pend.reads \in Seq(Scores)
      BY <2>2 DEF SpansOf
    <3> QED BY <3>1, Zenon
  <2> QED BY <1>1, <2>1, <2>2
<1>4. PICK cur : cur = [end.cur EXCEPT !.reads = @ \o end.pend.reads]
  OBVIOUS
<1>5. cur = [guid |-> guid, from_t |-> from, reads |-> was \o more]
  <2>1. end.cur.reads = was
    BY <1>2
  <2>2. \A new : [end.cur EXCEPT !.reads = new] = [guid |-> guid, from_t |-> from, reads |-> new]
    BY <1>2
  <2> QED BY <1>3, <1>4, <2>1, <2>2, Zenon
<1>6. was \o more \in Seq(Scores) /\ Len(was \o more) >= Len(was)
  OBVIOUS
<1>7. cur \in SpansOf(Guids, Scores) /\ cur.guid = end.cur.guid /\ cur.from_t = end.cur.from_t
  BY <1>2, <1>5, <1>6 DEF SpansOf
<1>8. Len(cur.reads) >= Len(end.cur.reads)
  BY <1>2, <1>5, <1>6
<1>9. PICK segs \in Seq(SpansOf(Guids, Scores)) : segs = Append(end.done, end.cur)
  <2>1. Append(end.done, end.cur) \in Seq(SpansOf(Guids, Scores))
    BY <1>1
  <2> QED BY <2>1, Zenon
<1>10. PICK last \in Seq(SpansOf(Guids, Scores)) : last = Append(end.done, cur)
  <2>1. Append(end.done, cur) \in Seq(SpansOf(Guids, Scores))
    BY <1>1, <1>7
  <2> QED BY <2>1, Zenon
<1>11. Grown(segs, last)
  BY <1>1, <1>7, <1>8, <1>9, <1>10, GrownAtEnd
<1>12. /\ Spans(segs)
       /\ \A j \in 1..Len(pts) :
            \E k \in DOMAIN segs : LiesIn(segs, k, pts[j].t) /\ Tells(pts, Len(pts), j, segs[k].guid)
  BY <1>9 DEF SegmentsInv
<1>13. DOMAIN last = DOMAIN segs /\ Spans(last)
  BY <1>11, <1>12, GrownAlike
<1>14. ASSUME NEW j \in DOMAIN pts PROVE R!ActiveAt(last, pts[j].t) = R!Confirmed(pts, j)
  <2>1. j \in 1..Len(pts) /\ pts[j].t \in Int
    BY ReadAt
  <2>2. PICK k \in DOMAIN segs : LiesIn(segs, k, pts[j].t) /\ Tells(pts, Len(pts), j, segs[k].guid)
    BY <1>12, <2>1
  <2>3. LiesIn(last, k, pts[j].t)
    BY <1>11, <2>1, <2>2, GrownAlike
  <2>4. R!ActiveAt(last, pts[j].t) = last[k].guid
    BY <1>13, <2>1, <2>3, ActiveIs
  <2>5. R!Confirmed(pts, j) = segs[k].guid
    BY <2>1, <2>2, ConfirmedIs
  <2>6. last[k].guid = segs[k].guid
    BY <1>11 DEF Grown
  <2> QED BY <2>4, <2>5, <2>6
<1> QED BY <1>4, <1>10, <1>13, <1>14 DEF HeroShown

\* resolve.js segmentSlot: however many reads of whatever heroes, misread or not, a slot is
\* at the time of each of them on the hero that two reads in a row said last (before any
\* two did, on the first that was read), and its segments follow one another, each of
\* another hero than the one before it and, after the first, seen twice.
THEOREM SwapsAreSeenTwice ==
    ASSUME NEW Guids, NEW Scores, NEW reads, NEW from, NEW pts \in Seq(ReadsOf(Guids, Scores)),
           pts = R!Counted(reads, from), Len(pts) > 0, InOrder(pts)
    PROVE  HeroShown(R!SegmentSlot(reads, from), pts)
<1>1. PICK N \in Nat : N + 1 = Len(pts)
  <2>1. Len(pts) - 1 \in Nat /\ Len(pts) - 1 + 1 = Len(pts)
    OBVIOUS
  <2> QED BY <2>1
<1>2. Len(pts) - 1 = N
  BY <1>1
<1>3. PICK start : start = [done |-> <<>>, cur |-> R!SegmentAt(pts[1]), pend |-> R!NoSegment]
  OBVIOUS
<1>4. PICK Of : Of = States(Guids, Scores)
  OBVIOUS
<1>5. start \in Of /\ SegmentsInv(start, pts, 1)
  BY <1>3, <1>4, FirstRead
<1> DEFINE UpTo(f) == f = [n \in 0..N |->
                              IF n = 0 THEN [done |-> <<>>, cur |-> R!SegmentAt(pts[1]), pend |-> R!NoSegment]
                              ELSE R!SegmentStep(f[n - 1], pts[n + 1])]
<1>6. \A st \in Of, n \in 1..N : SegmentsInv(st, pts, n) =>
        R!SegmentStep(st, pts[n + 1]) \in Of /\ SegmentsInv(R!SegmentStep(st, pts[n + 1]), pts, n + 1)
  <2> HIDE DEF UpTo
  <2> TAKE st \in Of, n \in 1..N
  <2>1. n \in 1..Len(pts) /\ n # Len(pts)
    BY <1>1
  <2> QED BY <1>4, <2>1, StepIsKept
<1>7. \E f : UpTo(f)
  <2>1. PICK step : step = [x \in Of \X (1..N) |->
                              IF SegmentsInv(x[1], pts, x[2]) THEN R!SegmentStep(x[1], pts[x[2] + 1]) ELSE x[1]]
    OBVIOUS
  <2>2. step \in StepsOver(N, Of)
    <3> HIDE DEF UpTo
    <3>1. \A st \in Of, n \in 1..N :
            (IF SegmentsInv(st, pts, n) THEN R!SegmentStep(st, pts[n + 1]) ELSE st) \in Of
      BY <1>6
    <3> QED BY <2>1, <3>1 DEF StepsOver
  <2>3. PICK f : Trails(f, N, Of, start, step)
    <3> HIDE DEF UpTo
    <3> QED BY <1>5, <2>2, Stepwise
  <2>4. f \in [0..N -> Of] /\ f[0] = start /\ \A n \in 1..N : f[n] = step[<<f[n - 1], n>>]
    <3> HIDE DEF UpTo
    <3> QED BY <2>3 DEF Trails
  <2>5. ASSUME NEW n \in 1..N, SegmentsInv(f[n - 1], pts, n) PROVE f[n] = R!SegmentStep(f[n - 1], pts[n + 1])
    <3>1. n - 1 \in 0..N /\ f[n - 1] \in Of
      BY <2>4
    <3>2. <<f[n - 1], n>> \in Of \X (1..N)
      BY <3>1
    <3>3. step[<<f[n - 1], n>>] = R!SegmentStep(f[n - 1], pts[n + 1])
      BY <2>1, <2>5, <3>2
    <3> QED BY <2>4, <3>3
  <2>6. PICK Good : Good = {n \in 0..N : SegmentsInv(f[n], pts, n + 1)}
    OBVIOUS
  <2>7. 0..N \subseteq Good
    <3> HIDE DEF UpTo
    <3>1. 0 \in Good
      BY <1>5, <2>4, <2>6
    <3>2. ASSUME NEW n \in 1..N, n - 1 \in Good PROVE n \in Good
      <4>1. n - 1 \in 0..N /\ f[n - 1] \in Of /\ SegmentsInv(f[n - 1], pts, n)
        BY <2>4, <2>6, <3>2
      <4>2. SegmentsInv(f[n], pts, n + 1)
        BY <1>6, <2>5, <4>1
      <4> QED BY <2>6, <4>2
    <3> QED BY <3>1, <3>2, Reached
  <2>8. \A n \in 0..N : f[n] = IF n = 0 THEN [done |-> <<>>, cur |-> R!SegmentAt(pts[1]), pend |-> R!NoSegment]
                                        ELSE R!SegmentStep(f[n - 1], pts[n + 1])
    <3> TAKE n \in 0..N
    <3>1. CASE n = 0
      BY <1>3, <2>4, <3>1
    <3>2. CASE n # 0
      <4>1. n \in 1..N /\ n - 1 \in 0..N /\ n - 1 + 1 = n
        BY <3>2
      <4>2. SegmentsInv(f[n - 1], pts, n - 1 + 1)
        BY <2>6, <2>7, <4>1
      <4> QED BY <2>5, <3>2, <4>1, <4>2
    <3> QED BY <3>1, <3>2
  <2>9. f = [n \in 0..N |-> f[n]]
    BY <2>4
  <2>10. UpTo(f)
    BY <2>8, <2>9, Zenon
  <2> HIDE DEF UpTo
  <2> QED BY <2>10
<1>8. PICK upTo : upTo = CHOOSE f : UpTo(f)
  OBVIOUS
<1>9. UpTo(upTo)
  <2> HIDE DEF UpTo
  <2> QED BY <1>7, <1>8
<1>10. R!Segments(pts) = Append(upTo[N].done, [upTo[N].cur EXCEPT !.reads = @ \o upTo[N].pend.reads])
  BY <1>2, <1>8, Zenon DEF R!Segments
<1>11. upTo[0] = start /\ \A n \in 1..N : upTo[n] = R!SegmentStep(upTo[n - 1], pts[n + 1])
  BY <1>3, <1>9
<1> HIDE DEF UpTo
<1>12. PICK Good : Good = {n \in 0..N : upTo[n] \in Of /\ SegmentsInv(upTo[n], pts, n + 1)}
  OBVIOUS
<1>13. 0..N \subseteq Good
  <2>1. 0 \in Good
    BY <1>5, <1>11, <1>12
  <2>2. ASSUME NEW n \in 1..N, n - 1 \in Good PROVE n \in Good
    <3>1. upTo[n - 1] \in Of /\ SegmentsInv(upTo[n - 1], pts, n)
      BY <1>12, <2>2
    <3>2. upTo[n] \in Of /\ SegmentsInv(upTo[n], pts, n + 1)
      BY <1>6, <1>11, <3>1
    <3> QED BY <1>12, <3>2
  <2> QED BY <2>1, <2>2, Reached
<1>14. PICK end \in States(Guids, Scores) : end = upTo[N] /\ SegmentsInv(end, pts, Len(pts))
  BY <1>1, <1>4, <1>12, <1>13
<1>15. R!SegmentSlot(reads, from) = R!Segments(pts)
  <2>1. pts # <<>>
    OBVIOUS
  <2> QED BY <2>1 DEF R!SegmentSlot
<1> QED BY <1>10, <1>14, <1>15, EndsWell

-----------------------------------------------------------------------------
(* The season, whole *)

\* pure.js, app.js: whatever the season, the view of it and the player asked for, one season
\* is counted alike on every page, no match is left off the list it belongs on, and the
\* tables of a division agree.
THEOREM SeasonIsCountedAlike ==
    ASSUME part = "season" => IsSeason(sample),
           part = "league" => IsLeague(sample)
    PROVE  SeasonAgrees
<1>1. part = "season" => PagesAgree(sample)
  BY SeasonsAgree
<1>2. part = "league" => MatchesAreFound(sample) /\ TablesAgree(sample)
  BY EveryMatchIsFound, TablesAlwaysAgree
<1> QED BY <1>1, <1>2 DEF SeasonAgrees

-----------------------------------------------------------------------------
(* The sheet of a team, whole *)

\* app.js renderScoutBody: whatever drafts a season has, whichever team and window are
\* chosen, no panel of a sheet contradicts another; and whatever was captured, what is
\* drawn from it follows from games.
THEOREM SheetsAlwaysAddUp ==
    ASSUME part = "sheet" => AreDrafts(sample),
           part = "scout" => IsScouted(sample)
    PROVE  SheetAddsUp
<1>1. part = "sheet" => PanelsAgree(sample)
  BY PanelsAlwaysAgree
<1>2. part = "scout" => CapturesSpeakTrue(sample)
  BY CapturesAlwaysSpeakTrue
<1> QED BY <1>1, <1>2 DEF SheetAddsUp

-----------------------------------------------------------------------------
(* The ratings, whole *)

\* pure.js efficiencyRatings, rankPlayers, mergePlayerStats, powerRankings and compareAxes,
\* app.js renderPlayers and renderCompare: whatever a division, the parts of a merged row,
\* the matches played and the two teams compared, players and teams are measured alike.
THEOREM RatingsAreAlwaysFair ==
    ASSUME part = "players" => IsDivision(sample),
           part = "merged" => IsFiniteSet(DOMAIN sample) /\ \A i \in DOMAIN sample : IsLine(sample[i]),
           part = "elo" => IsLadder(sample),
           part = "compare" => IsComparison(sample)
    PROVE  RatingsAreFair
<1>1. part = "players" => PlayersAreFair(sample)
  BY PlayersAlwaysFair
<1>2. part = "merged" => MergeIsFair(sample)
  BY MergesAreFair
<1>3. part = "elo" => EloIsMoved(sample)
  BY EloAlwaysMoves
<1>4. part = "compare" => CompareIsEven(sample)
  BY ComparisonsAreEven
<1> QED BY <1>1, <1>2, <1>3, <1>4 DEF RatingsAreFair
=============================================================================
