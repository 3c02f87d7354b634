------------------------------- MODULE Boards -------------------------------
(***************************************************************************)
(* The scrim page's scoreboard: lines from the OCR become ten rows, rows   *)
(* are joined to players, and the cumulative reads taken at the ends of    *)
(* rounds become what was done in each round.  A line is what kind of line *)
(* it is, what it says, and for a row its tokens, each by what the parser  *)
(* can make of it.                                                         *)
(***************************************************************************)
EXTENDS Integers, Sequences, FiniteSets, SequencesExt

Teams == {"a", "b"}
Unread == "?"
Missing == -1
\* A row that names its columns stands for none of them by position.
Unfielded == 0

\* num: a number; pct: one with a percent sign; zeros: several zeros run together; o: a
\* round letter by itself; pipe: a bar; weld: a number with junk stuck to it; word:
\* anything else.
Num(v) == [k |-> "num", v |-> v]
Odd(kind) == [k |-> kind, v |-> 0]

looksNumeric(t) == t.k \in {"num", "pct", "zeros"}
Unpiped(toks) == SelectSeq(toks, LAMBDA t : t.k # "pipe")

\* The last run of numbers and lone round letters, if there is a number in it: the
\* letters are zeros, and so is every digit of zeros that ran together.
zeroise(toks) ==
    LET tail(i) == \A j \in i..Len(toks) : looksNumeric(toks[j]) \/ toks[j].k \in {"o", "pipe"}
        sawDigit == \E i \in DOMAIN toks : tail(i) /\ looksNumeric(toks[i])
        As(i) == CASE sawDigit /\ tail(i) /\ toks[i].k = "o"     -> <<Num(0)>>
                   [] sawDigit /\ tail(i) /\ toks[i].k = "zeros" -> [n \in 1..toks[i].v |-> Num(0)]
                   [] OTHER                                      -> <<toks[i]>>
    IN  FlattenSeq([i \in DOMAIN toks |-> As(i)])

\* The first bar is a 1.
pipesToOnes(toks) ==
    LET bars == {i \in DOMAIN toks : toks[i].k = "pipe"}
    IN  [i \in DOMAIN toks |->
            IF i \in bars /\ \A j \in bars : i <= j THEN Num(1) ELSE toks[i]]

\* The numbers from the first one on, up to what is not one; a number with junk at its
\* end is still taken, and ends them.
Numbers(toks) ==
    LET t == Unpiped(toks)
        number == {i \in DOMAIN t : looksNumeric(t[i])}
        first == CHOOSE i \in number : \A j \in number : i <= j
        run == {i \in number : first..i \subseteq number}
        salvaged == {i \in DOMAIN t : t[i].k = "weld" /\ i - 1 \in run}
    IN  IF number = {} THEN <<>>
        ELSE [n \in 1..Cardinality(run \cup salvaged) |-> t[first + n - 1]]

Says(nums) == [i \in DOMAIN nums |-> IF nums[i].k = "zeros" THEN 0 ELSE nums[i].v]
\* The fifth column alone keeps its sign, parseInt drops it from the others.
Percentages(nums) == IF Len(nums) > 4 /\ nums[5].k = "pct" THEN 1 ELSE 0

NoEntry == [fields |-> Missing, vals |-> <<>>, percents |-> 0]

entryFromTokens(toks) ==
    LET all == Numbers(toks)
        nums == IF Len(all) = 7 THEN Tail(all) ELSE all
    IN  IF Len(nums) < 4 THEN NoEntry
        ELSE [fields |-> Len(nums), vals |-> Says(nums), percents |-> Percentages(nums)]

\* Mutant: a bar is a 1 wherever that makes another column.
RowReadEager(toks) ==
    LET retry == entryFromTokens(pipesToOnes(toks))
    IN  IF retry.fields = 6 THEN retry ELSE entryFromTokens(toks)

\* Only a row that is one column short is tried again with a bar as a 1, a separator's
\* as well as a digit's: nothing tells which the bar was.
RowRead(toks) ==
    LET entry == entryFromTokens(toks)
        retry == entryFromTokens(pipesToOnes(toks))
    IN  IF entry.fields = 5 /\ retry.fields = 6 THEN retry ELSE entry

\* Without a colon the name is what stands before the last six numbers.
NameOf(line, toks) ==
    LET t == Unpiped(toks)
        n == Len(t)
    IN  IF line.is = "colon" THEN line.who
        ELSE IF n > 6 /\ \A i \in n - 5..n : looksNumeric(t[i]) THEN line.who ELSE Unread

Row(line, role, team) ==
    LET Made(toks, entry) == [name |-> NameOf(line, toks), role |-> role, team |-> team,
                              fields |-> entry.fields, vals |-> entry.vals,
                              percents |-> entry.percents]
        Zeroised(toks) == Made(toks, RowRead(toks))
    IN  Zeroised(zeroise(line.toks))

\* A row that labels its values says its role, and has no columns to count.
Labelled(line, team) ==
    [name |-> line.who, role |-> line.role, team |-> team, fields |-> Unfielded,
     vals |-> Says(line.toks), percents |-> Percentages(line.toks)]

WithRow(st, row) == IF row.fields = Missing THEN st ELSE [st EXCEPT !.entries = Append(@, row)]

ParseLine(st, line) ==
    CASE line.is = "key"      -> st
      [] line.is = "legend"   -> [st EXCEPT !.role = line.who,
                                            !.legends = IF st.entries = <<>> THEN @ + 1 ELSE @]
      [] line.is = "team"     -> [st EXCEPT !.team = line.who, !.headed = TRUE]
      [] line.is = "time"     -> [st EXCEPT !.matchTime = line.who]
      [] line.is = "labelled" -> [st EXCEPT !.entries = Append(@, Labelled(line, st.team))]
      [] line.is \in {"row", "colon"} -> WithRow(st, Row(line, st.role, st.team))
      [] OTHER -> st

Layout(st) ==
    CASE st.headed -> "team"
      [] ~st.headed /\ st.legends >= 3 -> "slot"
      [] ~st.headed /\ st.legends = 1 -> "role"
      [] OTHER -> "unknown"

\* On a board that is not grouped by role, ten rows are five and five, whatever the
\* headers came out as, and a row's role is what it said itself.
Board(st, panel) ==
    LET byPosition == Layout(st) # "role" /\ Len(st.entries) = 10
        Settled(i) ==
            LET e == st.entries[i]
            IN  [e EXCEPT
                    !.team = IF byPosition THEN IF i <= 5 THEN "a" ELSE "b" ELSE @,
                    !.role = IF Layout(st) # "role" /\ e.fields # Unfielded THEN "none" ELSE @]
    IN  [entries |-> [i \in DOMAIN st.entries |-> Settled(i)], matchTime |-> st.matchTime,
         layout |-> Layout(st), panel |-> panel]

parse(lines) ==
    Board(FoldLeft(ParseLine, [role |-> "none", team |-> "none", headed |-> FALSE,
                               legends |-> 0, matchTime |-> "none", entries |-> <<>>], lines),
          \E i \in DOMAIN lines : lines[i].is = "panel")

-----------------------------------------------------------------------------
\* A name either is read or is not.  The bar's rosters are the two strips, and nothing
\* says which of them a team of the board is but the names.
bestIn(name, roster) == {i \in DOMAIN roster : roster[i] = name}

\* The strip that more names of a block are on.
stripForBlock(block, bar) ==
    LET found(s) == Cardinality({i \in DOMAIN block : bestIn(block[i].name, bar[s]) # {}})
    IN  CASE found("a") = found("b") -> "none"
          [] found("a") > found("b") -> "a"
          [] OTHER                   -> "b"

joinRows(parsed, bar) ==
    LET BlockOf(team) == SelectSeq(parsed.entries, LAMBDA e : e.team = team)
        Joined(team) ==
            LET block == BlockOf(team)
                strip == IF parsed.layout = "role" \/ block = <<>> THEN "none"
                         ELSE stripForBlock(block, bar)
                Slot(i) == IF strip = "none" THEN 0
                           ELSE IF bestIn(block[i].name, bar[strip]) # {}
                                THEN CHOOSE s \in bestIn(block[i].name, bar[strip]) : TRUE
                                ELSE i
            IN  [i \in DOMAIN block |->
                    [slot |-> Slot(i), team |-> team, val |-> block[i].vals[1],
                     player |-> IF Slot(i) = 0 THEN "none" ELSE bar[strip][Slot(i)]]]
    IN  Joined("a") \o Joined("b")

rowKey(r) ==
    IF r.player # "none" THEN <<"p", r.player, 0>> ELSE <<"s", r.team, r.slot>>

\* A round is the difference between two reads, value by value; the last row of a key
\* is the one a later read is compared with.
deltas(reads) ==
    LET Base(i, r) == {j \in DOMAIN reads[i].rows : rowKey(reads[i].rows[j]) = rowKey(r)}
        Was(i, r) == LET js == Base(i, r) IN reads[i].rows[CHOOSE j \in js : \A n \in js : n <= j].val
        Delta(i, r) ==
            IF i = 1 THEN r.val
            ELSE IF Base(i - 1, r) = {} THEN Missing
            ELSE IF r.val < Was(i - 1, r) THEN Missing ELSE r.val - Was(i - 1, r)
    IN  [i \in DOMAIN reads |->
            [round |-> reads[i].round,
             one |-> reads[i].covers = 1 /\ (i > 1 \/ reads[i].from_start),
             rows |-> [j \in DOMAIN reads[i].rows |->
                          [player |-> reads[i].rows[j].player,
                           val |-> Delta(i, reads[i].rows[j])]]]]

\* Ten rows, five of each team, six columns and at most one percentage in each, and the
\* time that identifies it.
validate(parsed) ==
    /\ Len(parsed.entries) = 10
    /\ Cardinality({i \in DOMAIN parsed.entries : parsed.entries[i].team = "a"}) = 5
    /\ \A i \in DOMAIN parsed.entries : parsed.entries[i].fields = 6 /\ parsed.entries[i].percents <= 1
    /\ parsed.matchTime # "none"

evaluateRead(parsed, bar, existing, round, skipped, fromStart) ==
    CASE parsed.panel /\ parsed.matchTime = "none" -> [status |-> "occluded"]
      [] ~(parsed.panel /\ parsed.matchTime = "none") /\ ~validate(parsed) -> [status |-> "invalid"]
      [] OTHER ->
            IF \E i \in DOMAIN existing : existing[i].match_time = parsed.matchTime
            THEN [status |-> "duplicate"]
            ELSE [status |-> "ok",
                  read |-> [round |-> round, match_time |-> parsed.matchTime,
                            covers |-> skipped + 1, from_start |-> fromStart,
                            rows |-> joinRows(parsed, bar)]]

\* The end of a round: a read that is not good is only passed by skipping it, and the
\* skip is counted for the next.
Boundary(st, parsed, bar, round) ==
    LET r == evaluateRead(parsed, bar, st.reads, round, st.skips, st.reads # <<>> \/ round = 1)
    IN  IF r.status = "ok" THEN [reads |-> Append(st.reads, r.read), skips |-> 0]
        ELSE [st EXCEPT !.skips = @ + 1]

-----------------------------------------------------------------------------
\* A row as the mode draws it, and what the OCR may make of it: any zero a round
\* letter, the first two zeros run together, one column lost or drawn as a bar, junk
\* stuck to the last number, the separator behind a column (or before the first) a bar.
NoBar == -1
DrawnRows(Values) ==
    {[vals |-> v, o |-> o, together |-> w, lost |-> h, junk |-> j, bar |-> b] :
        v \in Values, o \in BOOLEAN, w \in BOOLEAN, h \in -6..6, j \in BOOLEAN, b \in NoBar..6}

\* lost < 0: that column is dropped; lost > 0: it is a bar, as only a 1 can be.
Drawable(s) ==
    /\ s.lost > 0 => s.vals[s.lost] = 1
    /\ s.together => s.vals[1] = 0 /\ s.vals[2] = 0 /\ s.lost \notin {-1, -2} /\ s.bar # 1

AsRead(s) ==
    LET Cell(i) ==
            CASE s.lost = -i                               -> <<>>
              [] s.lost = i                                -> <<Odd("pipe")>>
              [] s.lost \notin {i, -i} /\ s.together /\ i = 1 -> <<[k |-> "zeros", v |-> 2]>>
              [] s.lost \notin {i, -i} /\ s.together /\ i = 2 -> <<>>
              [] OTHER -> IF s.o /\ s.vals[i] = 0 THEN <<Odd("o")>>
                          ELSE IF s.junk /\ i = 6 THEN <<[k |-> "weld", v |-> s.vals[i]]>>
                          ELSE <<Num(s.vals[i])>>
        Behind(i) == IF s.bar = i THEN <<Odd("pipe")>> ELSE <<>>
    IN  <<Odd("word")>> \o Behind(0) \o FlattenSeq([i \in 1..6 |-> Cell(i) \o Behind(i)])

\* Junk at the end of a row leaves its round letters and its zeros run together as they
\* are, so that these columns are lost with it.
Whole(s) == s.junk => ~s.o /\ ~s.together

\* No number changes its column in a row that lost none, whatever bars stand in it, nor in
\* one whose 1 came out as its first bar, and such a row does come out with six columns if
\* a digit was left in it.  A row that lost a column and has a bar of a separator comes out
\* with six as well: one column is gone from it and a 1 is put in at that bar, so that what
\* is accepted says something else in every column between the two (scoreboard.js:150, "the
\* confidently-wrong failure this parser exists to avoid").
ColumnsStay(s) ==
    LET r == RowRead(zeroise(AsRead(s)))
        hasBar == s.lost > 0 \/ s.bar # NoBar
        itsOwnBar == s.lost > 0 /\ (s.bar = NoBar \/ s.lost <= s.bar)
    IN  /\ r.fields = 6 /\ Whole(s) /\ (s.lost = 0 \/ itsOwnBar) => r.vals = s.vals
        /\ r.fields = 6 /\ r.vals # s.vals
           => hasBar /\ \E gone, at \in 1..6 : r.vals = InsertAt(RemoveAt(s.vals, gone), at, 1)
        /\ /\ s.lost >= 0 /\ ~s.junk
           /\ s.o => \E i \in 1..6 \ {s.lost} : s.vals[i] # 0 \/ (s.together /\ i <= 2)
           => r.fields = 6

\* A map of three rounds, seen from one of them on; each round's end is read with the
\* names of some rows, skipped, or read without moving on from the one before.
Bar == [a |-> <<"p1", "p2", "p3", "p4", "p5">>, b |-> <<"q1", "q2", "q3", "q4", "q5">>]
Done(team, i, round) == ((IF team = "a" THEN 7 ELSE 4) * i + 3 * round) % 5
Total(team, i, from, to) == FoldLeft(LAMBDA sum, r : sum + Done(team, i, from + r - 1), 0,
                                     [r \in 1..to - from + 1 |-> r])
RowsNamed == {{}, {<<"a", 3>>}, {<<"a", 2>>, <<"b", 2>>}, {"b"} \X (1..5), Teams \X (1..5),
              (Teams \X (1..5)) \ {<<"a", 1>>}}
ScrimMaps ==
    [flipped : BOOLEAN, first : 1..2,
     end : [1..3 -> [how : {"read"}, named : RowsNamed]
                    \cup [how : {"skip", "again"}, named : {Teams \X (1..5)}]]]

NameOn(s, team, i) == Bar[IF s.flipped THEN IF team = "a" THEN "b" ELSE "a" ELSE team][i]
BoardAt(s, round, named) ==
    LET Drawn(team, i) ==
            [is |-> "row", who |-> NameOn(s, team, i), role |-> "none",
             toks |-> (IF <<team, i>> \in named THEN <<Odd("word")>> ELSE <<>>)
                      \o <<Num(Total(team, i, 1, round))>>
                      \o [c \in 1..5 |-> IF c = 4 THEN [k |-> "pct", v |-> 0] ELSE Num(0)]]
        Line(is, who) == [is |-> is, who |-> who, role |-> "none", toks |-> <<>>]
    IN  <<Line("key", ""), Line("team", "a")>> \o [i \in 1..5 |-> Drawn("a", i)]
        \o <<Line("team", "b")>> \o [i \in 1..5 |-> Drawn("b", i)]
        \o <<Line("time", <<"end", round>>)>>

\* "again": the playhead is where the last good read was taken.
AtEnd(s) ==
    LET Hidden(parsed, how) == IF how = "skip" THEN [parsed EXCEPT !.matchTime = "none"] ELSE parsed
        Step(st, round) ==
            LET e == s.end[round]
                at == IF e.how = "again" /\ st.reads # <<>> THEN Last(st.reads).round ELSE round
            IN  Boundary(st, Hidden(parse(BoardAt(s, at, e.named)), e.how), Bar, round)
    IN  FoldLeft(Step, [reads |-> <<>>, skips |-> 0], [r \in 1..4 - s.first |-> s.first + r - 1])

\* What is said of a player is what that player did between the two reads, whichever
\* strip the team is on and whichever names were read; it is said of one round only if
\* it was one; and it is said if every name was read.
DeltasAreTrue(s) ==
  \A reads \in {AtEnd(s).reads} :
    LET From(i) == IF i = 1 THEN 1 ELSE reads[i - 1].round + 1
        Theirs(name, i) ==
            LET where == CHOOSE w \in Teams \X (1..5) : NameOn(s, w[1], w[2]) = name
            IN  Total(where[1], where[2], From(i), reads[i].round)
        AllNamed(i) == s.end[reads[i].round].named = Teams \X (1..5)
    IN  \A i \in DOMAIN reads :
          \A d \in {deltas(reads)[i]} :
                /\ d.one => From(i) = reads[i].round
                /\ \A j \in DOMAIN d.rows :
                      LET r == d.rows[j]
                      IN  /\ r.player # "none" /\ r.val # Missing => r.val = Theirs(r.player, i)
                          /\ AllNamed(i) /\ (i = 1 \/ AllNamed(i - 1))
                             => r.player # "none" /\ r.val # Missing
=============================================================================
