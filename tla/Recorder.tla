---- MODULE Recorder ----
(* A recorded chunk of menu input and its replay                            *)
(* (tools/replay_bot/recorder.js).                                          *)
(*                                                                          *)
(* The operator performs a step once, with a real code; the raw button,     *)
(* wheel and key transitions are paired into gestures, placed relative to   *)
(* the client area, and the code is replaced by a placeholder.  A replay    *)
(* puts the gestures where the window is now, with the next code.  A point  *)
(* is <<x, y>>, a code is a sequence of keys, times are milliseconds.       *)
EXTENDS Integers, Sequences, SequencesExt, FiniteSetsExt

MAX_WAIT_MS     == 3000
MIN_WAIT_MS     == 100
DEFAULT_HOLD_MS == 60
DRAG_MIN_PX     == 6
DRAG_PATH_POINTS == 8
WHEEL_NOTCH     == 120
WHEEL_GAP_MS    == 400
CODE == <<"$CODE">>         \* the placeholder, which no code equals
None == [kind |-> "none"]

Less(p, o) == <<p[1] - o[1], p[2] - o[2]>>
Plus(p, o) == <<p[1] + o[1], p[2] + o[2]>>
Strays(p, q) == \E i \in 1..2 : p[i] - q[i] > DRAG_MIN_PX \/ q[i] - p[i] > DRAG_MIN_PX
Round(a, b) == (2 * a + b) \div (2 * b)

-----------------------------------------------------------------------------
(* From raw transitions to gestures.                                        *)

Start(t) == [out |-> <<>>, downs |-> {}, active |-> "", wheel |-> None, last |-> t]

Push(acc, ev, from, to) ==
    [acc EXCEPT !.out  = Append(@, ev @@ [waitMs |-> Max({0, Min({MAX_WAIT_MS, from - acc.last})}),
                                          holdMs |-> Max({1, to - from})]),
                !.last = to]

FlushWheel(acc, o) ==
    LET w == acc.wheel IN
    IF w = None THEN acc
    ELSE [Push(acc, [type |-> "scroll", at |-> Less(w.at, o),
                     notches |-> Round(w.delta, WHEEL_NOTCH)], w.from, w.to)
          EXCEPT !.wheel = None]

Thin(path, n) ==
    IF Len(path) <= n THEN path
    ELSE [i \in 1..n |-> path[1 + Round((i - 1) * (Len(path) - 1), n - 1)]]

Held(acc, id)    == {d \in acc.downs : d.id = id}
Released(acc, id) == [acc EXCEPT !.downs = {d \in @ : d.id # id}]
Presses(acc, id, e) ==
    [acc EXCEPT !.downs = {d \in @ : d.id # id} \cup {[id |-> id, ev |-> e, moves |-> <<>>]}]

Moves(acc, e) ==
    [acc EXCEPT !.downs = {IF d.id = acc.active THEN [d EXCEPT !.moves = Append(@, e.at)] ELSE d
                           : d \in @}]

Turns(acc, e, o) ==
    LET w == acc.wheel
        run == w # None /\ (w.delta > 0) = (e.delta > 0) /\ e.t - w.to <= WHEEL_GAP_MS
    IN IF run THEN [acc EXCEPT !.wheel.delta = @ + e.delta, !.wheel.to = e.t]
       ELSE [FlushWheel(acc, o) EXCEPT
                !.wheel = [at |-> e.at, delta |-> e.delta, from |-> e.t, to |-> e.t]]

\* The press is what the UI acts on; a press that strayed is a drag.
Releases(acc, e, o) ==
    LET d == CHOOSE h \in Held(acc, e.button) : TRUE
        free == [Released(acc, e.button) EXCEPT !.active = IF @ = e.button THEN "" ELSE @]
        strayed == \E p \in Range(Append(d.moves, e.at)) : Strays(p, d.ev.at)
        click == [type |-> "click", button |-> e.button, at |-> Less(d.ev.at, o)]
        drag  == [type |-> "drag", button |-> e.button, at |-> Less(d.ev.at, o), to |-> Less(e.at, o),
                  path |-> LET thin == Thin(d.moves, DRAG_PATH_POINTS)
                           IN [i \in DOMAIN thin |-> Less(thin[i], o)]]
    IN Push(free, IF strayed THEN drag ELSE click, d.ev.t, e.t)

KeyComesUp(acc, e) ==
    LET d == CHOOSE h \in Held(acc, <<"key", e.key>>) : TRUE IN
    Push(Released(acc, <<"key", e.key>>),
         [type |-> "key", key |-> e.key, mods |-> d.ev.mods], d.ev.t, e.t)

Transition(was, e, o) ==
    LET acc == IF e.type = "wheel" THEN was ELSE FlushWheel(was, o) IN
    CASE e.type = "down"    -> [Presses(acc, e.button, e) EXCEPT !.active = e.button]
      [] e.type = "move"    -> Moves(acc, e)
      [] e.type = "wheel"   -> Turns(acc, e, o)
      [] e.type = "keydown" -> Presses(acc, <<"key", e.key>>, e)
      [] e.type = "up" /\ Held(acc, e.button) # {} -> Releases(acc, e, o)
      [] e.type = "keyup" /\ Held(acc, <<"key", e.key>>) # {} -> KeyComesUp(acc, e)
      [] OTHER -> acc       \* an up whose down is from before the recording

Normalise(raw, o) ==
    FlushWheel(FoldLeft(LAMBDA acc, e : Transition(acc, e, o),
                        Start(IF raw = <<>> THEN 0 ELSE raw[1].t), raw), o).out

-----------------------------------------------------------------------------
(* The recording's own code becomes the placeholder.                        *)

\* A code replaced only in its first keys, the plausible slip of the slice.
SubstituteFirst(events, code) ==
    LET at == {i \in 1..Len(events) : events[i].type = "key" /\ events[i].key = code[1]} IN
    IF at = {} THEN [events |-> events, found |-> FALSE]
    ELSE [events |-> ReplaceAt(events, Min(at), [type |-> "text", value |-> CODE,
                          waitMs |-> events[Min(at)].waitMs, holdMs |-> DEFAULT_HOLD_MS]),
          found |-> TRUE]

\* Ctrl+V is the code arriving; else a contiguous run spelling the whole of it.
SubstituteCode(events, code) ==
    LET pastes == {i \in 1..Len(events) : /\ events[i].type = "key" /\ events[i].key = "V"
                                          /\ "ctrl" \in events[i].mods}
        n == Len(code)
        spells == {i \in 1..(Len(events) - n + 1) :
                      \A j \in 1..n : /\ events[i + j - 1].type = "key"
                                      /\ events[i + j - 1].key = code[j]}
        Put(i, k, type) ==
            [events |-> SubSeq(events, 1, i - 1)
                        \o <<[type |-> type, value |-> CODE, waitMs |-> events[i].waitMs,
                              holdMs |-> DEFAULT_HOLD_MS]>>
                        \o SubSeq(events, i + k, Len(events)),
             found |-> TRUE]
    IN IF pastes # {} THEN Put(Min(pastes), 1, "paste")
       ELSE IF n > 0 /\ spells # {} THEN Put(Min(spells), n, "text")
       ELSE [events |-> events, found |-> FALSE]

Build(raw, rect, code) ==
    LET sub == SubstituteCode(Normalise(raw, rect.o), code)
    IN [client |-> rect.size, events |-> sub.events, codeFound |-> sub.found]

\* The recording file: a line may be empty, or start with a byte order mark.
ParseRaw(lines) ==
    LET told == SelectSeq(lines, LAMBDA l : l.holds # <<>>)
    IN [i \in DOMAIN told |-> told[i].holds[1]]

Record(lines, rect, code) == Build(ParseRaw(lines), rect, code)

-----------------------------------------------------------------------------
(* Playing a chunk into the window as it is now.                            *)

NeedsCode(chunk) == \E e \in Range(chunk.events) : e.type \in {"text", "paste"} /\ e.value = CODE

Validate(chunk, rect, code) ==
    /\ chunk.events # <<>>
    /\ chunk.client = rect.size
    /\ NeedsCode(chunk) => code # <<>>

Scale(ms, speed) == IF speed = 1 THEN ms ELSE Max({MIN_WAIT_MS, Round(ms, speed)})

ResolveEvent(e, rect, code, speed) ==
    LET ev == [e EXCEPT !.waitMs = Scale(@, speed)] IN
    CASE e.type = "drag" ->
            [ev EXCEPT !.at = Plus(@, rect.o), !.to = Plus(@, rect.o),
                       !.path = [i \in DOMAIN @ |-> Plus(@[i], rect.o)]]
      [] e.type \in {"click", "scroll"} -> [ev EXCEPT !.at = Plus(@, rect.o)]
      [] e.type \in {"text", "paste"} -> [ev EXCEPT !.value = IF @ = CODE THEN code ELSE @]
      [] OTHER -> ev

\* What is sent to the machine: nothing at all when the chunk is refused.
Resolve(chunk, rect, code, speed) ==
    IF Validate(chunk, rect, code)
    THEN [i \in DOMAIN chunk.events |-> ResolveEvent(chunk.events[i], rect, code, speed)]
    ELSE <<>>

\* The first line of the answer that is the one asked for, or an error.
ContractLine(said, what) ==
    LET at == {i \in DOMAIN said : said[i].say \in {what, "ERR"}}
    IN IF at = {} THEN [say |-> "none"] ELSE said[Min(at)]

\* play_input.ps1: `o.stuck` is the event it cannot do (0: it can do each one).
\* A dry run takes no focus and sends nothing, and does all the rest.
Player(plan, o) ==
    LET done == CASE ~o.dry /\ ~o.front          -> 0
                  [] (o.dry \/ o.front) /\ o.stuck \in DOMAIN plan -> o.stuck - 1
                  [] OTHER                     -> Len(plan)
    IN [sent |-> IF o.dry THEN <<>> ELSE SubSeq(plan, 1, done),
        said |-> o.notes \o (IF o.dry THEN [i \in 1..done |-> [say |-> "WOULD"]] ELSE <<>>)
                 \o (IF done = Len(plan) THEN <<[say |-> "PLAYED", n |-> done]>>
                                         ELSE <<[say |-> "ERR"]>>)]

RunPlan(chunk, rect, o) ==
    IF ~Validate(chunk, rect, o.code)
    THEN [ok |-> FALSE, planned |-> 0, sent |-> <<>>, would |-> <<>>]
    ELSE LET plan == Resolve(chunk, rect, o.code, o.speed)
             out  == Player(plan, o)
             m    == ContractLine(out.said, "PLAYED")
         IN [ok |-> m.say = "PLAYED", planned |-> Len(plan), sent |-> out.sent,
             would |-> SelectSeq(out.said, LAMBDA l : l.say = "WOULD")]

-----------------------------------------------------------------------------
(* Importing a code (run.js): the chunk is played but for its last click,   *)
(* which confirms whatever dialog came up.  A vision model, when there is   *)
(* one, says which; a poll of the screen is a look.                         *)
JEV_ACTIONABLE == {"already_imported", "incompatible_version", "invalid_or_not_found"}
JEV_IMPORT_STATES == JEV_ACTIONABLE \cup {"match_imported", "still_loading", "unrecognized"}

\* A look: is the replay up (`in`), what does the banner say (`Blank`: nothing),
\* and what does the model make of it ("unanswered": the call failed).
Blank == "blank"
Looks == [in : BOOLEAN, text : {Blank, "a", "b"}, sure : BOOLEAN,
          choice : JEV_IMPORT_STATES \cup {"unanswered"}]

Gives(acc, how) == [acc EXCEPT !.how = how, !.clicks = @ + 1]

Look(acc, l) ==
    CASE acc.how # "asking" -> acc
      [] acc.how = "asking" /\ l.in -> [acc EXCEPT !.how = "opened"]
      [] acc.how = "asking" /\ ~l.in /\ l.choice = "unanswered" -> [acc EXCEPT !.how = "blind"]
      [] OTHER ->
           CASE l.choice = "match_imported" /\ l.sure -> Gives(acc, "viewing")
             [] l.choice \in JEV_ACTIONABLE /\ l.sure -> Gives(acc, "rejected")
             [] l.choice = "unrecognized" /\ l.text # Blank ->
                  IF acc.last = l.text THEN Gives(acc, "rejected") ELSE [acc EXCEPT !.last = l.text]
             [] OTHER -> [acc EXCEPT !.last = Blank]

\* What the looks come to.
Looked(looks) ==
    LET upTo[n \in 0..Len(looks)] ==
          IF n = 0 THEN [how |-> "asking", clicks |-> 0, last |-> Blank] ELSE Look(upTo[n - 1], looks[n])
    IN  upTo[Len(looks)]

\* `draws`: the replay comes up within a wait of its own; `clickable`: the last
\* click can be sent.  What is not a diagnosis falls back to click and wait.
ImportWithDiagnosis(s) ==
    LET end  == Looked(s.looks)
        open == [opened |-> s.draws, clicks |-> 1]
    IN IF ~s.jev THEN [opened |-> s.draws /\ s.clickable, clicks |-> 1]
       ELSE CASE end.how = "opened"  -> [opened |-> TRUE, clicks |-> 0]
              [] end.how = "asking"  -> [opened |-> FALSE, clicks |-> 0]
              [] end.how = "blind" -> [open EXCEPT !.clicks = end.clicks + 1]
              [] end.how \in {"viewing", "rejected"} /\ ~s.clickable ->
                   [open EXCEPT !.clicks = end.clicks + 1]
              [] end.how = "viewing" /\ s.clickable -> open
              [] end.how = "rejected" /\ s.clickable -> [opened |-> FALSE, clicks |-> 1]

(* Nothing the model says or fails to say loses a replay that is up: an     *)
(* import whose replay draws fails only on an answer that was sure, on a    *)
(* text read twice in a row, when the clock ran out while it was asking, or *)
(* when the click that shows it could not be sent.  It never reports a      *)
(* replay that did not draw.                                                *)
ImportIsFair(s) ==
    LET r == ImportWithDiagnosis(s)
        n == Len(s.looks)
        before(k) == \A i \in 1..k : ~s.looks[i].in /\ s.looks[i].choice # "unanswered"
        odd(k) == s.looks[k].choice = "unrecognized" /\ s.looks[k].text # Blank
        condemned == \E k \in 1..n :
                        /\ before(k)
                        /\ \/ s.looks[k].choice \in JEV_ACTIONABLE /\ s.looks[k].sure
                           \/ k > 1 /\ odd(k) /\ odd(k - 1) /\ s.looks[k - 1].text = s.looks[k].text
    IN /\ r.opened => s.draws \/ \E k \in 1..n : s.looks[k].in
       /\ s.draws /\ ~r.opened => IF s.jev THEN condemned \/ before(n) ELSE ~s.clickable
       /\ condemned /\ s.jev /\ ~r.opened => r.clicks > 0

-----------------------------------------------------------------------------
(* A hand at the window: the transitions a script of gestures makes, seen   *)
(* from the corner of the client area at `o`.  Each gesture starts a second *)
(* after the last one ended; keys of a "roll" overlap.                      *)

Hand(g, o, t) ==
    LET Key(k, mods, from, to) ==
            <<[type |-> "keydown", key |-> k, mods |-> mods, t |-> from],
              [type |-> "keyup", key |-> k, t |-> to]>>
    IN CASE g.do = "click" ->
               <<[type |-> "down", button |-> "left", at |-> Plus(g.at, o), t |-> t],
                 [type |-> "move", at |-> Plus(g.at, Plus(o, <<3, 2>>)), t |-> t + 40],
                 [type |-> "up", button |-> "left", at |-> Plus(g.at, Plus(o, <<4, 2>>)), t |-> t + 80]>>
         [] g.do = "drag" ->
               <<[type |-> "down", button |-> "left", at |-> Plus(g.at, o), t |-> t],
                 [type |-> "move", at |-> Plus(g.to, o), t |-> t + 40],
                 [type |-> "up", button |-> "left", at |-> Plus(g.at, o), t |-> t + 80]>>
         [] g.do = "turn" ->
               [i \in 1..3 |-> [type |-> "wheel", at |-> Plus(g.at, o), delta |-> g.by, t |-> t + 40 * (i - 1)]]
         [] g.do = "key"  -> Key(g.key, g.mods, t, t + 80)
         [] g.do = "roll" ->
               LET a == Key(g.keys[1], {}, t, t + 60)
                   b == Key(g.keys[2], {}, t + 30, t + 80)
               IN <<a[1], b[1], a[2], b[2]>>

HandsOf(script, o) ==
    <<[type |-> "up", button |-> "left", at |-> o, t |-> 0]>>
        \o FlattenSeq([i \in DOMAIN script |-> Hand(script[i], o, 1000 * i)])

\* The recorder's file: a mark before the first line, an empty last one.
AsFiled(raw) ==
    [i \in 1..(Len(raw) + 1) |-> [mark |-> i = 1, holds |-> IF i > Len(raw) THEN <<>> ELSE <<raw[i]>>]]

(* What the script means to the game: the keys pressed one by one, every    *)
(* other gesture at its place relative to the window.                       *)
Meant(g) ==
    CASE g.do = "click" -> <<[act |-> "click", at |-> g.at]>>
      [] g.do = "drag"  -> <<[act |-> "drag", at |-> g.at, to |-> g.at]>>
      [] g.do = "turn"  -> <<[act |-> "scroll", at |-> g.at, n |-> 3 * (g.by \div WHEEL_NOTCH)]>>
      [] g.do = "key"   -> <<[act |-> "key", key |-> g.key, mods |-> g.mods]>>
      [] g.do = "roll"  -> [i \in 1..2 |-> [act |-> "key", key |-> g.keys[i], mods |-> {}]]

(* What a plan does, seen from the window's corner.                         *)
Done(e, o) ==
    CASE e.type = "click"  -> <<[act |-> "click", at |-> Less(e.at, o)]>>
      [] e.type = "drag"   -> <<[act |-> "drag", at |-> Less(e.at, o), to |-> Less(e.to, o)]>>
      [] e.type = "scroll" -> <<[act |-> "scroll", at |-> Less(e.at, o), n |-> e.notches]>>
      [] e.type = "key"    -> <<[act |-> "key", key |-> e.key, mods |-> e.mods]>>
      [] e.type = "text"   -> [i \in DOMAIN e.value |-> [act |-> "key", key |-> e.value[i], mods |-> {}]]
      [] e.type = "paste"  -> <<[act |-> "paste", value |-> e.value]>>

Spelled(code) == [i \in DOMAIN code |-> [act |-> "key", key |-> code[i], mods |-> {}]]
Paste == [act |-> "key", key |-> "V", mods |-> {"ctrl"}]

(* `meant` with the first paste of it, or else the first spelling of the    *)
(* recording's own code, become the new code.                               *)
WithCode(meant, own, new) ==
    LET n == Len(own)
        pastes == {i \in DOMAIN meant : meant[i] = Paste}
        spells == {i \in 1..(Len(meant) - n + 1) : SubSeq(meant, i, i + n - 1) = Spelled(own)}
    IN IF pastes # {} THEN ReplaceAt(meant, Min(pastes), [act |-> "paste", value |-> new])
       ELSE IF spells # {}
       THEN SubSeq(meant, 1, Min(spells) - 1) \o Spelled(new)
               \o SubSeq(meant, Min(spells) + n, Len(meant))
       ELSE meant

(* A chunk played into a window that has moved does, gesture for gesture,   *)
(* what the operator did in the recording, with the code of the replay at   *)
(* hand where the recording had its own; into a window of another size, or  *)
(* without the code it needs, it sends nothing.                             *)
PlayedAsRecorded(s) ==
    LET meant == FlattenSeq([i \in DOMAIN s.script |-> Meant(s.script[i])])
        here  == [o |-> <<100, 40>>, size |-> <<16, 9>>]
        chunk == Record(AsFiled(HandsOf(s.script, here.o)), here, s.own)
        plan  == Resolve(chunk, s.rect, s.code, s.speed)
        wanted == WithCode(meant, s.own, s.code)
    IN IF s.rect.size # here.size \/ (s.code = <<>> /\ wanted # meant)
       THEN plan = <<>>
       ELSE FlattenSeq([i \in DOMAIN plan |-> Done(plan[i], s.rect.o)]) = wanted

(* A plan is reported as played exactly when all of it was sent, a dry run  *)
(* sends nothing, and a plan that walked clean falls over in the window     *)
(* only where the window itself is not to be had.                           *)
PlayedIsSent(s) ==
    LET here  == [o |-> <<100, 40>>, size |-> <<16, 9>>]
        chunk == Record(AsFiled(HandsOf(s.script, here.o)), here, s.own)
        live  == RunPlan(chunk, s.rect, [s.o EXCEPT !.dry = FALSE])
        walk  == RunPlan(chunk, s.rect, [s.o EXCEPT !.dry = TRUE])
    IN /\ live.ok <=> live.sent # <<>> /\ Len(live.sent) = live.planned
       /\ walk.sent = <<>>
       /\ walk.ok => Len(walk.would) = walk.planned /\ (s.o.front <=> live.ok)

(* The gestures, and the recordings of up to `n` of them.                   *)
Gestures ==
    {[do |-> "click", at |-> <<5, 5>>], [do |-> "drag", at |-> <<5, 5>>, to |-> <<5, 90>>],
     [do |-> "turn", at |-> <<8, 8>>, by |-> WHEEL_NOTCH],
     [do |-> "turn", at |-> <<8, 8>>, by |-> -WHEEL_NOTCH],
     [do |-> "key", key |-> "V", mods |-> {}], [do |-> "key", key |-> "7", mods |-> {}],
     [do |-> "key", key |-> "V", mods |-> {"ctrl"}],
     [do |-> "roll", keys |-> <<"V", "7">>], [do |-> "roll", keys |-> <<"7", "V">>]}

Recordings(n) ==
    [script : UNION {[1..k -> Gestures] : k \in 1..n}, own : {<<"V", "7">>},
     rect : {[o |-> <<300, 10>>, size |-> <<16, 9>>], [o |-> <<100, 40>>, size |-> <<19, 10>>]},
     code : {<<>>, <<"Q", "Q", "7">>}, speed : {1, 3}]

Plays ==
    LET o == [dry : {FALSE}, front : BOOLEAN, stuck : 0..3, speed : {1},
              notes : {<<>>, <<[say |-> "note"]>>}, code : {<<>>, <<"Q", "Q">>}]
    IN [script : [1..2 -> Gestures], own : {<<"V", "7">>}, o : o,
        rect : {[o |-> <<300, 10>>, size |-> <<16, 9>>], [o |-> <<100, 40>>, size |-> <<19, 10>>]}]

(* Up to `n` looks; of those that are taken alike, one stands for all.      *)
Imports(n) ==
    LET alike(l) == /\ l.in => l.choice = "still_loading" /\ l.text = Blank /\ ~l.sure
                    /\ ~l.in => l.choice \in {"unrecognized", "still_loading"} \/ l.text = "a"
                    /\ ~l.in => l.choice \in {"match_imported", "already_imported"} \/ l.sure
        looks == {l \in Looks : alike(l)}
    IN [looks : UNION {[1..k -> looks] : k \in 1..n}, jev : BOOLEAN, draws : BOOLEAN, clickable : BOOLEAN]
=============================================================================
