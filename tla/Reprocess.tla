----------------------------- MODULE Reprocess -----------------------------
(***************************************************************************)
(* A second look at a session that was captured with worse references      *)
(* (reprocess_hero_match.js) or a worse reading of the nameplates          *)
(* (reprocess_attribution.js).  There is no replay any more: only the      *)
(* strips the review kept, and what was resolved from all the frames.      *)
(*                                                                         *)
(* A sample of the first is [reads, again, saved, gallery]: what one       *)
(* player of a round was read as in each frame, what the new references    *)
(* read in the same frame, the frames whose strip was kept and whether     *)
(* all of these are on disk or the first alone.  A second player is the    *)
(* hero 9 in every frame and the others never pick.                        *)
(***************************************************************************)
EXTENDS Resolve

Frames(s) == DOMAIN s.reads
TimeOf(j) == 10 * j - 5             \* the first one is of the seconds before the round
EndOf(s) == TimeOf(Len(s.reads))
RoleOfHero == [g \in 0..99 |-> IF g < 10 THEN "Damage" ELSE "none"]
Cell(g) == [guid |-> g, score |-> 90]
Nobody5 == [x \in Sides |-> [k \in SlotNos |-> 10 + k]]

Frame(j, first) ==
    LET idle == [k \in SlotNos |-> Cell(UNSELECTED)]
    IN  [t |-> TimeOf(j), a |-> [idle EXCEPT ![1] = first, ![2] = Cell(9)], b |-> idle]

RoundOf(samples, to) == ResolveRound(1, samples, 0, to, RoleOfHero, Nobody5, 0)
OriginalRound(s) == RoundOf([j \in Frames(s) |-> Frame(j, Cell(s.reads[j]))], EndOf(s))

-----------------------------------------------------------------------------
(* reprocess_hero_match.js *)

\* The strips of a round: none unless its first frame was kept; those of the
\* other frames only where there is a gallery.
StripsOf(s) == IF 1 \notin s.saved THEN {} ELSE IF s.gallery THEN s.saved ELSE {1}

\* A slot that was nobody's or without a pick stays what it was: the tint of a
\* cell, not a match, said so.
Rematched(original, j, s, at) ==
    LET kept(side, k, c) == IF original[side][k].guid \in {ABSENT, UNSELECTED}
                            THEN Cell(original[side][k].guid) ELSE c
        f == Frame(j, Cell(s.again[j]))
    IN  [t |-> at, a |-> [k \in SlotNos |-> kept("a", k, f.a[k])],
         b |-> [k \in SlotNos |-> kept("b", k, f.b[k])]]

\* Without a gallery the one strip stands for a moment that counts.
NewSamples(s, original) ==
    LET js == SetToSortSeq(StripsOf(s), <)
    IN  [i \in DOMAIN js |-> Rematched(original, js[i], s,
                                       IF s.gallery THEN TimeOf(js[i]) ELSE original.from_t + 15)]

\* A side with a slot that was read before and is not now keeps all it had.
guardAgainstRegression(original, new) ==
    LET Side(x) == IF \E k \in SlotNos : original[x][k].guid # None /\ new[x][k].guid = None
                   THEN original[x] ELSE new[x]
    IN  [new EXCEPT !.a = Side("a"), !.b = Side("b")]

\* A map without a strip is left alone.
reprocessMap(s, original) ==
    LET From(samples) == IF samples = <<>> THEN original
                         ELSE guardAgainstRegression(original, RoundOf(samples, EndOf(s)))
    IN  From(NewSamples(s, original))

\* With worse evidence than the capture had nothing is lost: a slot that had a
\* hero has one, a slot that had none for a reason still has none; and where the
\* strips that count agree on a hero, the slot is that hero's, a swap the old
\* references flickered into being gone (reprocess_hero_match.js:102).
NothingIsLost(s) ==
    LET counts == {j \in StripsOf(s) : ~s.gallery \/ TimeOf(j) >= ASSEMBLE_GRACE_S}
    IN  \A old \in {OriginalRound(s)} : \A new \in {reprocessMap(s, old)} :
        /\ \A x \in Sides, k \in SlotNos :
             /\ old[x][k].guid # None => new[x][k].guid # None
             /\ old[x][k].guid \in {ABSENT, UNSELECTED} => new[x][k].guid = old[x][k].guid
        /\ \A h \in 1..8 :
             /\ counts # {} /\ \A j \in counts : s.again[j] = h
             /\ EndOf(s) >= 15
             /\ old.a[1].guid \notin {ABSENT, UNSELECTED}
             => new.a[1].guid = h /\ Len(new.a[1].segments) = 1

-----------------------------------------------------------------------------
(* reprocess_attribution.js: a map is the feed's teams 1..5 and 6..10, the  *)
(* second on the left strip if the map is flipped; which teams have a       *)
(* lineup; which names of a strip could be read at the capture and can be   *)
(* now (`was` and `now`); whether the reads of the capture were kept, which *)
(* strips still have a frame with names, the slots whose hero was not seen  *)
(* in the first round, and what an operator has to do with the map.         *)

N == INSTANCE Attribute

Across(x) == IF x = "a" THEN "b" ELSE "a"
InSlot(m, x, k) == k + (IF (x = "a") = m.flipped THEN 5 ELSE 0)
RolesOf10 == [p \in 1..10 |-> N!RoleAt(p)]

\* A name that is read scores 100 for its player and 20 for the others, an empty one nothing.
NamesRead(m, x, slots) ==
    [k \in SlotNos |-> [p \in 1..10 |-> IF k \notin slots THEN 0
                                        ELSE IF p = InSlot(m, x, k) THEN 100 ELSE 20]]
Assigned(reads, left, right, roles) ==
    [a |-> N!Assign(reads.a, left, RolesOf10, roles), b |-> N!Assign(reads.b, right, RolesOf10, roles)]

\* What the capture made of the names: the sides are called by the teams the names show
\* there, by the feed's order if the names do not tell.
Captured(m) ==
    LET Lineup == [f \in Sides |-> IF f \notin m.lineups THEN {} ELSE IF f = "a" THEN 1..5 ELSE 6..10]
        reads == [x \in Sides |-> NamesRead(m, x, m.was[x])]
        left == N!ConfidentOrientation(reads.a, reads.b, Lineup["a"], Lineup["b"])
        roster == [x \in Sides |-> Lineup[IF left = "b" THEN Across(x) ELSE x]]
    IN  [reads |-> reads, roster |-> roster, told |-> left # "unknown",
         ids |-> Assigned(reads, roster.a, roster.b, [k \in SlotNos |-> N!RoleAt(k)])]

HasNull(cap, x) == \E k \in SlotNos : cap.ids[x][k] = N!NoOne
Abstained(ids) == {s \in Sides \X SlotNos : ids[s[1]][s[2]] = N!NoOne}

needsReprocess(cap) == \E x \in Sides : HasNull(cap, x) /\ cap.roster[x] # {}
ReadAgain(m, cap) == {x \in m.framed : HasNull(cap, x) /\ cap.roster[x] # {}}

\* A side that is not read again has the names the capture kept, and run.js:913 keeps none.
NewReads(m, cap) ==
    [x \in Sides |-> IF x \in ReadAgain(m, cap) THEN NamesRead(m, x, m.now[x])
                     ELSE IF m.stored THEN cap.reads[x] ELSE NamesRead(m, x, {})]
LeftNow(m, cap) ==
    LET reads == NewReads(m, cap) IN N!ConfidentOrientation(reads.a, reads.b, cap.roster.a, cap.roster.b)

\* The whole map is assigned anew, both sides of it: where the names now say so each side
\* gets the players of the other's team, and is still called by its own.
NewIds(m, cap) ==
    LET left == IF LeftNow(m, cap) = "b" THEN "b" ELSE "a"
    IN  Assigned(NewReads(m, cap), cap.roster[left], cap.roster[Across(left)],
                 [k \in SlotNos |-> IF k \in m.unseen THEN "none" ELSE N!RoleAt(k)])

\* The flag of a slot follows its player, and a map nothing is flagged of any more needs no
\* eyes.  A map without an attribution, or that an operator has corrected, is left alone.
Reattributed(m, cap) ==
    IF m.corrected \/ ~m.attributed \/ ~needsReprocess(cap)
    THEN [ids |-> cap.ids, flagged |-> Abstained(cap.ids), status |-> m.status]
    ELSE LET ids == NewIds(m, cap)
         IN  [ids |-> ids, flagged |-> Abstained(ids),
              status |-> IF m.status = "unreviewed" /\ Abstained(ids) = {} /\ ~m.other THEN "reviewed"
                         ELSE m.status]

\* No map an operator has corrected is touched, nor one without a gap, and a map leaves the
\* operator's list only with nothing left to look at.  If the names told the teams apart,
\* now or at the capture, whoever is named afterwards does stand in that slot; and told
\* apart at the capture, a slot loses its player only where less is known of its side than
\* then: names that were not kept and not read again, a name read worse, a hero not seen.
\* A side without a gap keeps its players if its reads were kept; if not, it may lose all
\* but those their role alone tells.
OperatorsWordStands(m) ==
  \A cap \in {Captured(m)} : \A new \in {Reattributed(m, cap)} : \A now \in {LeftNow(m, cap)} :
    LET known(x) == IF x \in ReadAgain(m, cap) THEN m.now[x] ELSE IF m.stored THEN m.was[x] ELSE {}
        AsKnown(x) == m.unseen = {} /\ m.was[x] \subseteq known(x)
        touched == new.ids # cap.ids
    IN  /\ m.corrected \/ (\A x \in Sides : ~HasNull(cap, x)) => ~touched /\ new.status = m.status
        /\ new.status # m.status => m.status = "unreviewed" /\ new.flagged = {} /\ ~m.other
        /\ touched /\ (cap.told \/ now # "unknown")
           => \A x \in Sides, k \in SlotNos : new.ids[x][k] \in {N!NoOne, InSlot(m, x, k)}
        /\ cap.told => \A x \in Sides : AsKnown(x) =>
             \A k \in SlotNos : cap.ids[x][k] # N!NoOne => new.ids[x][k] = cap.ids[x][k]
=============================================================================
