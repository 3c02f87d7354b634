------------------------------ MODULE Resolve ------------------------------
(***************************************************************************)
(* From the reads of a captured map to the observations that are uploaded: *)
(* the vote, the segments of a slot, the hero a round presents and its     *)
(* flags, the operator's corrections, and the records made of the result.  *)
(*                                                                         *)
(* A hero is the rank of its guid in the order the code breaks ties in, 0  *)
(* is no guid; the states of a slot that are not heroes rank after the     *)
(* heroes ("A" after "0x").  Scores and shares are hundredths.             *)
(***************************************************************************)
EXTENDS Integers, FiniteSets, SequencesExt

None == 0
ABSENT == 91
DEAD == 92
UNSELECTED == 93
Custom == 94            \* a hero the operator typed in: "custom:"
Sentinels == {ABSENT, UNSELECTED, DEAD}

SUPPORT_MIN == 67
LOW_SCORE == 60
ASSEMBLE_GRACE_S == 10
BLANK_FRAME_ABSENT_MIN == 6
Sides == {"a", "b"}
SlotNos == 1..5

-----------------------------------------------------------------------------
\* The vote.
CountOf(s, x) == Cardinality({i \in DOMAIN s : s[i] = x})

\* The most frequent of a set of readings, ties by rank.
MostOf(s, among) ==
    IF among = {} THEN None
    ELSE CHOOSE x \in among : \A y \in among :
            \/ CountOf(s, x) > CountOf(s, y)
            \/ CountOf(s, x) = CountOf(s, y) /\ x <= y

Vote(s) ==
    LET best == MostOf(s, ToSet(s) \ {None})
        n == IF best = None THEN 0 ELSE CountOf(s, best)
    IN  [name |-> best, n |-> n, total |-> Len(s),
         contested |-> best # None /\ 2 * n <= Len(s)]

RunnerUp(s, winner) == MostOf(s, ToSet(s) \ {None, winner})

-----------------------------------------------------------------------------
\* The segments of a slot.  A read is [t, guid, score]; what counts is a read with
\* a guid after the round's first seconds.
Counted(reads, from) ==
    SelectSeq(reads, LAMBDA r : r.guid # None /\ r.t >= from + ASSEMBLE_GRACE_S)

NoSegment == [guid |-> None, from_t |-> 0, reads |-> <<>>]
SegmentAt(r) == [guid |-> r.guid, from_t |-> r.t, reads |-> <<r.score>>]

\* Mutant: one read of another hero is a swap.
SegmentStepAtOnce(st, r) ==
    IF r.guid = st.cur.guid
    THEN [st EXCEPT !.cur.reads = Append(@, r.score)]
    ELSE [st EXCEPT !.done = Append(@, st.cur), !.cur = SegmentAt(r)]

\* One more read: the hero that waits for its second read gets it; or the slot is
\* back on its hero and what waited was noise; or another hero waits from now on.
SegmentStep(st, r) ==
    IF st.pend # NoSegment /\ r.guid = st.pend.guid
    THEN [done |-> Append(st.done, st.cur),
          cur |-> [st.pend EXCEPT !.reads = Append(@, r.score)],
          pend |-> NoSegment]
    ELSE IF r.guid = st.cur.guid
    THEN [st EXCEPT !.cur.reads = @ \o st.pend.reads \o <<r.score>>, !.pend = NoSegment]
    ELSE [st EXCEPT !.cur.reads = @ \o st.pend.reads, !.pend = SegmentAt(r)]

\* After all the reads that count, at least one, what still waits is noise.
Segments(pts) ==
    LET upTo[n \in 0..Len(pts) - 1] ==
            IF n = 0 THEN [done |-> <<>>, cur |-> SegmentAt(pts[1]), pend |-> NoSegment]
            ELSE SegmentStep(upTo[n - 1], pts[n + 1])
        end == upTo[Len(pts) - 1]
    IN  Append(end.done, [end.cur EXCEPT !.reads = @ \o end.pend.reads])

SegmentSlot(reads, from) ==
    LET pts == Counted(reads, from)
    IN  IF pts = <<>> THEN <<>> ELSE Segments(pts)

\* The hero that is presented: the longest segment's, ties by rank.
Duration(segs, i, to) ==
    LET end == IF i < Len(segs) THEN segs[i + 1].from_t ELSE to
    IN  IF end < segs[i].from_t THEN 0 ELSE end - segs[i].from_t

Longest(segs, to, among) ==
    CHOOSE i \in among : \A j \in among :
        \/ Duration(segs, i, to) > Duration(segs, j, to)
        \/ Duration(segs, i, to) = Duration(segs, j, to) /\ segs[i].guid <= segs[j].guid

SegmentWinner(segs, to) ==
    LET win == Longest(segs, to, DOMAIN segs)
        others == {i \in DOMAIN segs : segs[i].guid # segs[win].guid}
        held[i \in 0..Len(segs)] == IF i = 0 THEN 0 ELSE held[i - 1] + Duration(segs, i, to)
    IN  IF segs = <<>> THEN [guid |-> None, held |-> 0, of |-> 0, alt |-> None]
        ELSE [guid |-> segs[win].guid,
              held |-> Duration(segs, win, to), of |-> held[Len(segs)],
              alt |-> IF others = {} THEN None ELSE segs[Longest(segs, to, others)].guid]

\* Roles are locked: a swap across two known roles is a misread.
CrossRoleSwap(segs, role) ==
    \E i \in 2..Len(segs) :
        LET p == role[segs[i - 1].guid] c == role[segs[i].guid]
        IN  p # "none" /\ c # "none" /\ p # c

-----------------------------------------------------------------------------
\* One slot of a round: what is presented of its segments, and the reasons to look at it.
Presented(reads, segs, picked, role, player) ==
    LET guids == [i \in DOMAIN reads |-> reads[i].guid]
        v == Vote(guids)
        contested == IF Len(segs) > 1 THEN 2 * picked.held <= picked.of ELSE v.contested
        scores == {reads[i].score : i \in {j \in DOMAIN reads : guids[j] = picked.guid}}
        doubts ==
            {f \in {"contested", "low-support", "low-score", "unknown-hero", "cross-role-swap"} :
                \/ f = "contested" /\ contested
                \/ f = "low-support" /\ ~contested /\ Len(segs) <= 1
                                     /\ 100 * v.n < SUPPORT_MIN * v.total
                \/ f = "low-score" /\ scores # {} /\ (\A s \in scores : s < LOW_SCORE)
                \/ f = "unknown-hero" /\ (picked.guid = Custom \/ role[picked.guid] = "none")
                \/ f = "cross-role-swap" /\ CrossRoleSwap(segs, role)}
        flags ==
            CASE picked.guid = None       -> {"no-read"}
              [] picked.guid = ABSENT     -> {"player-absent"}
              [] picked.guid = UNSELECTED -> {"not-picked"}
              [] OTHER                    -> doubts
    IN  [guid |-> picked.guid, contested |-> contested,
         alt |-> IF ~contested THEN None
                 ELSE IF picked.alt # None THEN picked.alt ELSE RunnerUp(guids, picked.guid),
         segments |-> segs, whole |-> FALSE, player |-> player,
         flags |-> flags \cup IF picked.guid # ABSENT /\ player = None
                              THEN {"attribution-abstained"} ELSE {}]

ResolveSlot(cells, from, to, role, player) ==
    LET OfSegments(reads, segs) == Presented(reads, segs, SegmentWinner(segs, to), role, player)
        OfReads(reads) == OfSegments(reads, SegmentSlot(reads, from))
    IN  OfReads(SelectSeq(cells, LAMBDA c : c.guid # DEAD))

EmptySlot(player) ==
    [guid |-> None, contested |-> FALSE, alt |-> None, segments |-> <<>>,
     whole |-> FALSE, player |-> player, flags |-> {}]

\* A frame of the map: its time and the cells of both sides.
BlankFrame(s) ==
    Cardinality({x \in Sides \X SlotNos : s[x[1]][x[2]].guid = ABSENT})
        >= BLANK_FRAME_ABSENT_MIN

SamplesIn(samples, from, to) == SelectSeq(samples, LAMBDA s : s.t >= from /\ s.t <= to)

\* A round of the map with its comps and its own flags.  A planned count of 0 is
\* none known.
ResolveRound(no, samples, from, to, role, players, planned) ==
    LET in == SamplesIn(samples, from, to)
        mine == SelectSeq(in, LAMBDA s : ~BlankFrame(s))
        comps == [x \in Sides |-> [k \in SlotNos |->
            IF mine = <<>> THEN EmptySlot(players[x][k])
            ELSE ResolveSlot([i \in DOMAIN mine |-> [t |-> mine[i].t] @@ mine[i][x][k]],
                             from, to, role, players[x][k])]]
    IN  comps @@
        [round_no |-> no, from_t |-> from,
         flags |-> (IF Len(mine) < Len(in) THEN {"takeover-frame"} ELSE {})
             \cup (IF mine = <<>> THEN {"round-unsampled"}
                   ELSE IF 2 * Len(mine) < planned THEN {"sparse-round"} ELSE {})]

BenignFlags == {"contested", "not-picked"}

NeedsReview(round) ==
    \/ round.flags # {}
    \/ \E x \in Sides, k \in SlotNos : round[x][k].flags \ BenignFlags # {}

-----------------------------------------------------------------------------
\* The operator's corrections, replayed over a round.  A correction is
\* [kind, side, slot, at, now]: of the segment that starts at "at", of the whole
\* slot, or of the player.  One of a segment on a slot that was corrected as a whole
\* is one of the slot.
Corrected(slot, c) ==
    LET i == SelectInSeq(slot.segments, LAMBDA g : g.from_t = c.at)
        kept == slot.flags \cap {"attribution-abstained"}
    IN  CASE c.kind = "player" ->
                [slot EXCEPT !.player = c.now, !.flags = @ \ {"attribution-abstained"}]
          [] c.kind = "hero" \/ (c.kind = "segment" /\ slot.whole) ->
                [slot EXCEPT !.guid = c.now, !.contested = FALSE, !.alt = None,
                             !.segments = <<>>, !.whole = TRUE, !.flags = kept]
          [] c.kind = "segment" /\ ~slot.whole /\ i = 0 -> slot
          [] c.kind = "segment" /\ ~slot.whole /\ i # 0 ->
                [slot EXCEPT !.segments = IF c.now = None THEN RemoveAt(@, i)
                                          ELSE [@ EXCEPT ![i].guid = c.now, ![i].reads = <<>>],
                             !.flags = kept]

ApplyCorrections(round, cs) ==
    FoldLeft(LAMBDA r, c : [r EXCEPT ![c.side][c.slot] = Corrected(@, c)], round, cs)

-----------------------------------------------------------------------------
\* The records.
IsHero(guid) == guid # None /\ guid \notin Sentinels

\* A slot corrected as a whole is one segment from the round's first second.
SlotSegments(slot, round) ==
    IF ~slot.whole THEN slot.segments
    ELSE IF slot.guid = None THEN <<>>
    ELSE <<[guid |-> slot.guid, from_t |-> round.from_t, reads |-> <<>>]>>

\* The segment a slot is in at a time: the last before the first that is later.
ActiveAt(segs, t) ==
    LET late == SelectInSeq(segs, LAMBDA g : g.from_t > t)
        n == IF late = 0 THEN Len(segs) ELSE late - 1
    IN  IF n = 0 THEN None ELSE segs[n].guid

\* A side's observations of a round, one for each time a segment of it starts.
SideObservations(round, x) ==
    LET segs == [k \in SlotNos |-> SlotSegments(round[x][k], round)]
        starts == UNION {{segs[k][i].from_t : i \in DOMAIN segs[k]} : k \in SlotNos}
        Pairs(t) == LET all == [k \in SlotNos |-> <<ActiveAt(segs[k], t), round[x][k].player>>]
                    IN  SelectSeq(all, LAMBDA p : IsHero(p[1]))
        At(t) == [side |-> x, ts |-> t, round_no |-> round.round_no, pairs |-> Pairs(t)]
        times == SetToSortSeq(starts, <)
    IN  SelectSeq([i \in DOMAIN times |-> At(times[i])], LAMBDA o : o.pairs # <<>>)

FromRounds(rounds) ==
    FlattenSeq([i \in DOMAIN rounds |->
        SideObservations(rounds[i], "a") \o SideObservations(rounds[i], "b")])

\* The record written at capture: one observation for each sample and side, each
\* player with the hero in the same slot.
RoundNoFor(t, rounds) ==
    SelectInSeq(rounds, LAMBDA r : t >= r.from_t /\ t <= r.to_t)

SampleObservations(samples, rounds, players) ==
    LET At(s, x) ==
            LET all == [k \in SlotNos |-> <<s[x][k].guid, players[x][k]>>]
            IN  [side |-> x, ts |-> s.t, round_no |-> RoundNoFor(s.t, rounds),
                 pairs |-> SelectSeq(all, LAMBDA p : IsHero(p[1]))]
        both == FlattenSeq([i \in DOMAIN samples |-> <<At(samples[i], "a"), At(samples[i], "b")>>])
    IN  SelectSeq(both, LAMBDA o : o.pairs # <<>>)

-----------------------------------------------------------------------------
\* A round of samples ten seconds apart in which one player is read as s.reads, a
\* second one always as the hero 9, and the others never pick; and its corrections,
\* [kind, at, now] of that first player.
ReadTimes(s) == [j \in DOMAIN s.reads |-> 10 * j]
SampleRound(s) ==
    LET cell(g) == [guid |-> g, score |-> 90]
        idle == [k \in SlotNos |-> cell(UNSELECTED)]
        samples == [j \in DOMAIN s.reads |->
            [t |-> 10 * j, b |-> idle, a |-> [idle EXCEPT ![1] = cell(s.reads[j]), ![2] = cell(9)]]]
        players == [x \in Sides |-> [k \in SlotNos |-> 10 + k]]
        round == ResolveRound(1, samples, 0, 10 * Len(s.reads),
                              [g \in 0..99 |-> IF g < 10 THEN "Damage" ELSE "none"], players, 0)
    IN  ApplyCorrections(round, [i \in DOMAIN s.cs |-> s.cs[i] @@ [side |-> "a", slot |-> 1]])

\* What a second look confirms: the hero of the latest two reads in a row that agree,
\* the first of them being when it came; before any, the first that was read.
Confirmed(pts, j) ==
    LET twice == {m \in 1..j : m < Len(pts) /\ pts[m].guid = pts[m + 1].guid}
    IN  IF twice = {} THEN pts[1].guid ELSE pts[CHOOSE m \in twice : \A n \in twice : n <= m].guid

\* The hero at time t, after one correction of the span that starts at c.at, or of all.
HeldAt(s, t) ==
    LET all == [j \in DOMAIN s.reads |-> [t |-> 10 * j, guid |-> s.reads[j]]]
        pts == SelectSeq(all, LAMBDA r : r.guid \notin {None, DEAD})
        upTo == {j \in DOMAIN pts : pts[j].t <= t}
        Starts == {j \in DOMAIN pts : j = 1 \/ Confirmed(pts, j) # Confirmed(pts, j - 1)}
        span == CHOOSE j \in Starts \cap upTo : \A i \in Starts \cap upTo : i <= j
        before == Starts \cap 1..(span - 1)
        c == s.cs[1]
    IN  IF s.cs # <<>> /\ c.kind = "hero" THEN c.now
        ELSE IF upTo = {} THEN None
        ELSE IF s.cs = <<>> \/ c.kind = "player" \/ pts[span].t # c.at THEN Confirmed(pts, span)
        ELSE IF c.now # None THEN c.now
        ELSE IF before = {} THEN None
        ELSE Confirmed(pts, CHOOSE j \in before : \A i \in before : i <= j)

\* What is shipped for a player at any sampled time, read off the last observation at
\* or before it, is the hero that two reads in a row confirmed, as the operator
\* corrected it: neither a single misread nor the silence of another slot changes it,
\* and a correction changes its own span only (resolve.js:112, emit.js:74).
ShippedIsConfirmed(s) ==
    LET player == IF s.cs # <<>> /\ s.cs[1].kind = "player" THEN s.cs[1].now ELSE 11
    IN  \A obs \in {SideObservations(SampleRound(s), "a")}, j \in DOMAIN s.reads :
            LET t == 10 * j
                upTo == {i \in DOMAIN obs : obs[i].ts <= t}
                got == obs[CHOOSE i \in upTo : \A k \in upTo : k <= i].pairs
            IN  ToSet(got) = {<<9, 12>>} \cup IF IsHero(HeldAt(s, t)) THEN {<<HeldAt(s, t), player>>} ELSE {}
=============================================================================
