----------------------------- MODULE Attribute -----------------------------
(***************************************************************************)
(* Who stands in which slot of the replay's HUD.  A name read is what the  *)
(* name matcher makes of it: its score against each player, in hundredths, *)
(* with the empty read scoring nothing.  Overwatch is role locked, so the  *)
(* role of the hero in a slot says which players it can be.                *)
(***************************************************************************)
EXTENDS Integers, FiniteSets, SequencesExt

Slots == 1..5
NoOne == 0
FLOOR == 45
MARGIN == 1
STRONG_NAME_SCORE == 75
AUTO_SIDE_MARGIN == 100
MIN_STRONG_NAMES == 2
ROLES == {"Tank", "Damage", "Support"}

Sum(f) == FoldFunction(+, 0, f)
Best(scores, among) == FoldSet(LAMBDA p, m : IF scores[p] > m THEN scores[p] ELSE m, 0, among)

-----------------------------------------------------------------------------
\* One sample's players.  reads[k] is the scores of slot k's name, role the role of
\* a player this game, slotRole the role of the hero seen in a slot ("none" when
\* it has none).
SlotsOf(slotRole, r) == {k \in Slots : slotRole[k] = r}
PoolOf(team, role, r) == {p \in team : role[p] = r}

\* The one ordering of a role's players that beats all others, if the names are
\* worth it: by their mean, or by one outright match.
GroupAssign(reads, slots, pool) ==
    LET perms == Bijection(slots, pool)
        Total(f) == Sum([k \in slots |-> reads[k][f[k]]])
        ahead == {f \in perms : \A g \in perms \ {f} : Total(f) - Total(g) >= MARGIN}
        Worth(f) == \/ Cardinality(perms) = 1
                    \/ Total(f) >= FLOOR * Cardinality(slots)
                    \/ \E k \in slots : reads[k][f[k]] >= STRONG_NAME_SCORE
        good == {f \in ahead : Worth(f)}
    IN  [k \in slots |-> IF good = {} THEN NoOne ELSE (CHOOSE f \in good : TRUE)[k]]

\* Where a role's slots and players do not match in number only an outright match
\* counts, of one slot with one player and of neither with another.
Rescue(reads, slots, pool) ==
    LET claims == {c \in slots \X pool : reads[c[1]][c[2]] >= STRONG_NAME_SCORE}
        sole == {c \in claims : \A d \in claims \ {c} : d[1] # c[1] /\ d[2] # c[2]}
    IN  [k \in slots |-> IF \E c \in sole : c[1] = k
                         THEN (CHOOSE c \in sole : c[1] = k)[2] ELSE NoOne]

Assign(reads, team, role, slotRole) ==
    LET Even(r) == Cardinality(SlotsOf(slotRole, r)) = Cardinality(PoolOf(team, role, r))
        odd == {r \in ROLES : SlotsOf(slotRole, r) # {} /\ ~Even(r)}
        oddSlots == UNION {SlotsOf(slotRole, r) : r \in odd}
        rescued == Rescue(reads, oddSlots, UNION {PoolOf(team, role, r) : r \in odd})
    IN  [k \in Slots |->
            IF slotRole[k] \notin ROLES THEN NoOne
            ELSE IF k \in oddSlots THEN rescued[k]
            ELSE GroupAssign(reads, SlotsOf(slotRole, slotRole[k]),
                             PoolOf(team, role, slotRole[k]))[k]]

-----------------------------------------------------------------------------
\* Which team is on the left, "a", "b" or unknown, from one sample's names.
Affinity(reads, roster) == Sum([k \in Slots |-> Best(reads[k], roster)])

ConfidentOrientation(left, right, a, b) ==
    LET direct == Affinity(left, a) + Affinity(right, b)
        swap == Affinity(left, b) + Affinity(right, a)
        got == IF direct >= swap THEN "a" ELSE "b"
        lead == IF direct >= swap THEN direct - swap ELSE swap - direct
        onLeft == IF got = "a" THEN a ELSE b
        onRight == IF got = "a" THEN b ELSE a
        strong == Cardinality({k \in Slots : Best(left[k], onLeft) >= STRONG_NAME_SCORE})
                + Cardinality({k \in Slots : Best(right[k], onRight) >= STRONG_NAME_SCORE})
    IN  IF lead < AUTO_SIDE_MARGIN \/ strong < MIN_STRONG_NAMES THEN "unknown" ELSE got

\* The mode of the samples that are sure, "a" before "b" on a tie.
Orientation(votes) ==
    LET n(o) == Cardinality({i \in DOMAIN votes : votes[i] = o})
    IN  IF n("a") = 0 /\ n("b") = 0 THEN "unknown" ELSE IF n("b") > n("a") THEN "b" ELSE "a"

-----------------------------------------------------------------------------
\* The player each slot is settled on: the one it was assigned most often.  A
\* player settled on two slots keeps the later one.
SettledOn(assigned, k) ==
    LET votes(p) == Cardinality({i \in DOMAIN assigned : assigned[i][k] = p})
        seen == {assigned[i][k] : i \in DOMAIN assigned} \ {NoOne}
    IN  IF seen = {} THEN NoOne
        ELSE CHOOSE p \in seen : \A q \in seen :
                votes(p) > votes(q) \/ (votes(p) = votes(q) /\ p <= q)

CanonicalSlot(assigned, p) ==
    LET mine == {k \in Slots : p # NoOne /\ SettledOn(assigned, k) = p}
    IN  IF mine = {} THEN 0 ELSE CHOOSE k \in mine : \A j \in mine : j <= k

\* One sample's cells in the settled order.  A cell whose player has a slot goes
\* there, of two the later one; the others stay where they are, unless taken.
Rekeyed(cells, ids, assigned, absent) ==
    [k \in Slots |->
        LET high == {j \in Slots : CanonicalSlot(assigned, ids[j]) = k}
        IN  IF high # {} THEN cells[CHOOSE j \in high : \A i \in high : i <= j]
            ELSE IF CanonicalSlot(assigned, ids[k]) = 0 THEN cells[k]
            ELSE absent]

\* The teams and the seats of a map, from its samples [left, right: reads; lcells,
\* rcells: heroes].
SeatsFrom(samples, a, b, role, heroRole) ==
    LET orient == Orientation([i \in DOMAIN samples |->
                      ConfidentOrientation(samples[i].left, samples[i].right, a, b)])
        RolesOf(cells) == [k \in Slots |-> heroRole[cells[k]]]
    IN  [orientation |-> orient,
         left |-> [i \in DOMAIN samples |->
                      Assign(samples[i].left, IF orient = "b" THEN b ELSE a, role,
                             RolesOf(samples[i].lcells))],
         right |-> [i \in DOMAIN samples |->
                      Assign(samples[i].right, IF orient = "b" THEN a ELSE b, role,
                             RolesOf(samples[i].rcells))]]

\* The heroes of each sample in the settled order, and the players of the slots.
AttributeFromSamples(samples, seats, absent) ==
    [left |-> [i \in DOMAIN samples |->
                  Rekeyed(samples[i].lcells, seats.left[i], seats.left, absent)],
     right |-> [i \in DOMAIN samples |->
                  Rekeyed(samples[i].rcells, seats.right[i], seats.right, absent)],
     ids |-> [x \in {"left", "right"} |-> [k \in Slots |->
                  IF CanonicalSlot(seats[x], SettledOn(seats[x], k)) = k
                  THEN SettledOn(seats[x], k) ELSE NoOne]]]

-----------------------------------------------------------------------------
\* A map of the teams 1..5 and 6..10 with player p on hero p, in which the player
\* s.leaver of the left team is gone from sample s.from on and the row closes up over
\* its place.  s.legible says what the name of each left player scores against its own;
\* a name that can be read at all scores 20 against the others, an empty place nothing.
RoleAt(p) == <<"Tank", "Damage", "Damage", "Support", "Support">>[1 + ((p - 1) % 5)]
Gone == 99
Here(s, i) == SelectSeq(<<1, 2, 3, 4, 5>>, LAMBDA p : i < s.from \/ p # s.leaver)
LeaverMap(s) ==
    LET own(p) == IF p > 5 THEN 100 ELSE s.legible[p]
        score(p, q) == IF p = q THEN own(p) ELSE IF own(p) = 0 THEN 0 ELSE 20
        Cells(i) == [k \in Slots |-> IF k <= Len(Here(s, i)) THEN Here(s, i)[k] ELSE Gone]
        Read(p) == [q \in 1..10 |-> IF p = Gone THEN 0 ELSE score(p, q)]
        One(i) == [left |-> [k \in Slots |-> Read(Cells(i)[k])], lcells |-> Cells(i),
                   right |-> [k \in Slots |-> Read(5 + k)], rcells |-> [k \in Slots |-> 5 + k]]
        home == IF s.flipped THEN 6..10 ELSE 1..5
    IN  [samples |-> [i \in 1..3 |-> One(i)], a |-> home, b |-> (1..10) \ home]
SeatsOf(m) == SeatsFrom(m.samples, m.a, m.b, [p \in 1..10 |-> RoleAt(p)],
                        [g \in (1..10) \cup {Gone} |-> IF g = Gone THEN "none" ELSE RoleAt(g)])

\* A row that closes up over a leaver does not hand its players' heroes to one another:
\* the teams are never taken for each other; a player who stays and whose name can be
\* read has its hero in one and the same slot all through; if the row was whole for most
\* of the map that slot is its own, the leaver has it while it is there, and with every name legible, the leaver's slot reads as empty
\* (attribute.js:77).
AttributionSurvivesLeaver(s) ==
    LET There(p) == {i \in 1..3 : p # s.leaver \/ (s.from = 3 /\ i < 3)}
    IN  \A m \in {LeaverMap(s)} : \A seats \in {SeatsOf(m)} :
        LET got == AttributeFromSamples(m.samples, seats, Gone) IN
        /\ seats.orientation = IF s.flipped THEN "b" ELSE "a"
        /\ \A p \in Slots : s.legible[p] = 100 =>
              \E k \in Slots : (s.from = 3 => k = p) /\ \A i \in There(p) : got.left[i][k] = p
        /\ s.from = 3 /\ (\A p \in Slots : s.legible[p] = 100) => got.left[3][s.leaver] = Gone
=============================================================================
