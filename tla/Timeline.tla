------------------------------ MODULE Timeline ------------------------------
(***************************************************************************)
(* Reading the rounds of a map off the scrubber, and where to sample them. *)
(* A bar is a sequence of pixels, TRUE where it has the colour of a break; *)
(* spp is how many seconds a pixel is worth.  Times are whole seconds, but *)
(* for the quarter points of a round, which are only rounded to the grid.  *)
(***************************************************************************)
EXTENDS Integers, FiniteSets, SequencesExt

INTERVALS == {5, 10, 20, 30, 45, 60}
ASSEMBLE_STARTS_BY_S == 10

Abs(n) == IF n < 0 THEN -n ELSE n

\* n / d to the nearest whole number, a half upwards.
Rounded(n, d) == (2 * n + d) \div (2 * d)

-----------------------------------------------------------------------------
\* The runs of equal pixels.
Runs(flags) ==
    FoldLeft(LAMBDA runs, i :
                IF runs # <<>> /\ flags[i] = Last(runs).v
                THEN [runs EXCEPT ![Len(runs)].b = i]
                ELSE Append(runs, [v |-> flags[i], a |-> i, b |-> i]),
             <<>>, [i \in DOMAIN flags |-> i])

\* A run too short to be meaningful belongs to what is before it, and to a play
\* segment if nothing is.
Absorb(kept, r, minRun) ==
    LET short == r.b - r.a + 1 < minRun
    IN  CASE short /\ kept = <<>> -> <<[r EXCEPT !.v = FALSE]>>
          [] kept # <<>> /\ (short \/ r.v = Last(kept).v) -> [kept EXCEPT ![Len(kept)].b = r.b]
          [] OTHER -> Append(kept, r)

segments(flags, spp, minRun) ==
    LET kept == FoldLeft(LAMBDA k, r : Absorb(k, r, minRun), <<>>, Runs(flags))
    IN  [i \in DOMAIN kept |->
            [play |-> ~kept[i].v, from |-> (kept[i].a - 1) * spp, to |-> kept[i].b * spp]]

\* Neither a blip nor the assemble phase at the start of the bar is a round.
dropShortPlay(segs, minPlayS) ==
    [i \in DOMAIN segs |->
        [segs[i] EXCEPT !.play = @ /\ segs[i].to - segs[i].from >= minPlayS
                                   /\ segs[i].from > ASSEMBLE_STARTS_BY_S]]

Played(segs) == SelectSeq(segs, LAMBDA s : s.play)

-----------------------------------------------------------------------------
\* The reachable times inside a round, its closing edge not among them; for a
\* round with none, the reachable times nearest to its quarter points.
SegmentPlan(s, step) ==
    LET lo == (s.from + step - 1) \div step
        hi == (s.to - 1) \div step
    IN  IF lo > hi
        THEN {Rounded(3 * s.from + s.to, 4 * step) * step,
              Rounded(s.from + 3 * s.to, 4 * step) * step}
        ELSE {k * step : k \in lo..hi}

\* The times of all rounds, round after round, each at its first place.
planGrid(segs, step) ==
    LET rounds == {i \in DOMAIN segs : segs[i].play}
        times == UNION {SegmentPlan(segs[i], step) : i \in rounds}
        first == [t \in times |->
                    CHOOSE i \in rounds : /\ t \in SegmentPlan(segs[i], step)
                                          /\ \A j \in rounds : t \in SegmentPlan(segs[j], step) => i <= j]
        Before(t) == {u \in times : first[u] < first[t] \/ (first[u] = first[t] /\ u < t)}
    IN  [n \in 1..Cardinality(times) |-> CHOOSE t \in times : Cardinality(Before(t)) = n - 1]

-----------------------------------------------------------------------------
\* What one press is worth: the client's own interval nearest to what the knob
\* moved by, p pixels, at the rate it plays at, q pixels in a second; 0 if that is
\* near none of them.  Of two equally near the smaller one.
stepSecondsFrom(p, q) ==
    LET Off(v) == Abs(v * q - p)
        best == CHOOSE v \in INTERVALS : \A w \in INTERVALS :
                    Off(v) < Off(w) \/ (Off(v) = Off(w) /\ v <= w)
    IN  IF p <= 0 \/ q <= 0 \/ 5 * Off(best) > best * q THEN 0 ELSE best

\* Where the playhead is, in seconds, from its pixel.
secondsAt(x, ref) == ((x - ref.zeroX) * ref.stepS) \div ref.stepPx
xForSeconds(t, ref) == ref.zeroX + (t * ref.stepPx) \div ref.stepS

-----------------------------------------------------------------------------
\* A bar of runs of pixels, the first of colour `first`, with one pixel read wrong.
BarOf(s) ==
    LET start[i \in 1..Len(s.runs) + 1] == IF i = 1 THEN 1 ELSE start[i - 1] + s.runs[i - 1]
        RunAt(x) == CHOOSE i \in DOMAIN s.runs : start[i] <= x /\ x < start[i + 1]
    IN  [x \in 1..start[Len(s.runs) + 1] - 1 |-> s.first = (RunAt(x) % 2 = 1)]

SppOf == 10
RoundsRead(flags, minRun) == Played(dropShortPlay(segments(flags, SppOf, minRun), minRun * SppOf))

\* A tick on the bar is not a round: on a bar whose every run is twice as long as the
\* shortest that counts, one pixel that is read wrong, wherever it is, leaves as many
\* rounds, and moves no edge of one by more than the shortest run (timeline.js:46).
TicksMakeNoRound(s) ==
    LET bar == BarOf(s)
        true == RoundsRead(bar, s.minRun)
        read == RoundsRead([bar EXCEPT ![s.flip] = ~@], s.minRun)
    IN  s.flip \in DOMAIN bar =>
            /\ Len(read) = Len(true)
            /\ \A i \in DOMAIN true : /\ Abs(read[i].from - true[i].from) <= s.minRun * SppOf
                                      /\ Abs(read[i].to - true[i].to) <= s.minRun * SppOf
=============================================================================
