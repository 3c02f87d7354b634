------------------------------ MODULE Queues -------------------------------
(***************************************************************************)
(* What is left to capture, worked out twice: by the dashboard from the    *)
(* matches it was built with (pure.js scoutQueue), and by the replay bot   *)
(* from the codes of the capture feed (queue.js pending, and the pruning   *)
(* of its attempts by the same rule).  A code dies with a patch: all games *)
(* finished on the day of the wipe or earlier, by a later day in a region  *)
(* the patch reached later.                                                *)
(*                                                                         *)
(* A sample is a feed: [wipe, regional, games], a game being [region,      *)
(* club, day, coded, captured]; days count from 1, and 0 is a game whose   *)
(* end was never recorded, or a wipe that never was.  A view of the page   *)
(* shows divisions of one region.                                          *)
(***************************************************************************)
EXTENDS Integers, FiniteSets

Unrecorded == 0

\* The later of the global date and the region's own.
effectiveWipe(s, region) ==
  IF region \in DOMAIN s.regional /\ s.regional[region] > s.wipe THEN s.regional[region] ELSE s.wipe

-----------------------------------------------------------------------------
(* The dashboard *)

\* Mutant: a code of the day of the wipe is alive.
DiesBefore(s, g) == g.day # Unrecorded /\ g.day < effectiveWipe(s, g.region)

codeDeadFor(s, g) == g.day # Unrecorded /\ g.day <= effectiveWipe(s, g.region)

\* Coded, not captured, not dead.
scoutQueue(s) == {g \in s.games : g.coded /\ ~g.captured /\ ~codeDeadFor(s, g)}

\* The line of a team's sheet about its own games.
coverageState(s, club) ==
  LET all == {g \in s.games : g.club = club /\ g.coded}
      scoutable == {g \in all : g.captured \/ ~codeDeadFor(s, g)}
      done == {g \in all : g.captured}
  IN CASE all = {} -> "none" [] all # {} /\ scoutable = {} -> "wiped"
       [] scoutable # {} /\ done = scoutable -> "full" [] OTHER -> "partial"

\* The queue of a view: the badge, the line under the title.
viewQueue(s, view) == {g \in scoutQueue(s) : g.region = view}

\* What stands for the code of a game of the view, on a match's card, its tab
\* and its panel; the region is the view's, not the game's.
codeDead(s, view, g) == codeDeadFor(s, [g EXCEPT !.region = view])
codeBit(s, view, g) == IF ~g.coded THEN "no replay" ELSE IF codeDead(s, view, g) THEN "wiped" ELSE "code"

scoutedCount(games) == [done |-> Cardinality({g \in games : g.captured}), total |-> Cardinality(games)]

\* The coverage card of a team's sheet: its codes to click, and the line
\* that stands where there are none.
coverageCard(s, view, club) ==
  LET replays == {g \in s.games : g.region = view /\ g.club = club /\ g.coded}
      scoutable == {g \in replays : g.captured \/ ~codeDead(s, view, g)}
      todo == {g \in scoutable : ~g.captured}
      line == coverageState(s, club)
  IN [codes |-> IF line = "wiped" THEN {} ELSE todo, lost |-> replays \ scoutable,
      line |-> IF line = "wiped" \/ todo = {} THEN line ELSE "codes"]

\* The codes behind a row of evidence know the global date only: one is in
\* the cell itself, several open in a window.
codeLookup(s, keys) == {[g |-> g, dead |-> g.day # Unrecorded /\ g.day <= s.wipe] :
                          g \in {h \in keys : h.coded}}
codesCell(s, keys) ==
  LET found == codeLookup(s, keys) IN
  CASE found = {} -> "none"
    [] Cardinality(found) = 1 -> IF \E r \in found : r.dead THEN "wiped" ELSE "code"
    [] OTHER -> "window"

\* What a panel of captures says of its sample: the days it covers, and
\* whether all of them are before the wipe.
capSample(s) ==
  LET days == {g.day : g \in {h \in s.games : h.captured}} \ {Unrecorded}
      Ends(d, e) == \A x \in days : d <= x /\ x <= e
  IN IF days = {} THEN [n |-> 0, stale |-> FALSE]
     ELSE CHOOSE c \in [n : {Cardinality({h \in s.games : h.captured /\ h.day # Unrecorded})},
                        from : days, to : days, stale : BOOLEAN] :
            Ends(c.from, c.to) /\ c.stale = (c.to <= s.wipe)

\* The line under the title.  A page [season, upcoming, ahead]: whether the
\* season has a number, which regions have fixtures, whether the day the next
\* season starts is ahead.
seasonNote(page, live) ==
  CASE live \/ ~page.season -> "none"
    [] ~live /\ page.season /\ page.upcoming # {} -> "division"
    [] OTHER -> IF page.ahead THEN "finished, next starts" ELSE "finished"

\* Who may capture: a session in the browser, that names an admin and has
\* not expired.
isAdminSession(session) == session = "admin"

wipeNote(s, view, page, session) ==
  LET q == viewQueue(s, view) IN
  IF s.wipe = Unrecorded \/ q = {} \/ ~isAdminSession(session) THEN seasonNote(page, q # {})
  ELSE "capture"

\* The division a visit opens: the one of the last visit, if there still is one.
pickDivision(stored, views) == IF views = <<>> THEN "none"
                               ELSE IF \E i \in DOMAIN views : views[i] = stored THEN stored ELSE views[1]

-----------------------------------------------------------------------------
(* The bot *)

\* The feed holds the games that have a code; one without a date has a day
\* that sorts after every other ("undefined").
Day(g) == IF g.day = Unrecorded THEN 99 ELSE g.day
isDead(s, g) == ~(Day(g) > effectiveWipe(s, g.region))

\* Filters of regions and of clubs; none means all.
matchesAny(x, wanted) == wanted = {} \/ x \in wanted

pending(s, regions, clubs) ==
  {g \in s.games : /\ g.coded /\ ~isDead(s, g) /\ ~g.captured
                   /\ matchesAny(g.region, regions) /\ matchesAny(g.club, clubs)}

\* The attempts that are forgotten: those of codes that are dead.
expiredKeys(s) == {g \in s.games : g.coded /\ isDead(s, g)}

-----------------------------------------------------------------------------
(* The scrim page, of a code that is entered into it on the day it was      *)
(* played (session.js): it knows the global date only, and a code of the    *)
(* day of the wipe is alive to it.                                          *)

classifyCode(s, g) ==
  [league |-> g.coded, dead |-> g.day # Unrecorded /\ g.day < s.wipe]

-----------------------------------------------------------------------------

\* The page and the bot mean the same games: what the page still wants
\* captured is what the bot would run, for every choice of a region or a
\* club; a code the bot forgets its attempts of is wanted by neither, and one
\* the scrim page or a row of evidence calls dead is dead to all.
OneQueue(s) ==
  LET regions == {g.region : g \in s.games}  clubs == {g.club : g \in s.games} IN
  /\ \A Rs \in SUBSET regions, Cs \in SUBSET clubs :
       pending(s, Rs, Cs) = {g \in scoutQueue(s) : matchesAny(g.region, Rs) /\ matchesAny(g.club, Cs)}
  /\ expiredKeys(s) \cap scoutQueue(s) = {}
  /\ \A g \in s.games : /\ classifyCode(s, g).dead => codeDeadFor(s, g) /\ isDead(s, g)
                        /\ codesCell(s, {g}) = "wiped" => codeDeadFor(s, g) /\ isDead(s, g)

\* Every number of a view is of the same codes: a code can be clicked on a
\* card exactly while the game is in the queue or was captured in time; a
\* sheet has codes exactly while its line says there are games left, none of
\* them lost; a team all of whose games are captured has none left; and a
\* sample said to be from before the patch holds no game that could still be
\* captured.
OneView(s, view) ==
  LET games == {g \in s.games : g.region = view} IN
  /\ {g \in games : ~g.captured /\ codeBit(s, view, g) = "code"} = viewQueue(s, view)
  /\ \A club \in {g.club : g \in games} :
       LET card == coverageCard(s, view, club)
           count == scoutedCount({g \in games : g.club = club}) IN
       /\ card.codes = {g \in viewQueue(s, view) : g.club = club}
       /\ card.codes \cap card.lost = {}
       /\ (card.codes # {}) <=> (coverageState(s, club) = "partial")
       /\ count.done = count.total => card.codes = {}
  /\ capSample(s).stale => \A g \in games : g.captured /\ g.day # Unrecorded => codeDead(s, view, g)

\* The line under the title tells nobody that the season is over while a
\* fixture of any division is to come or a code of the view is alive, asks
\* for captures only where there are some, and no one but an admin.
NoteIsTrue(s, view, page, session) ==
  LET note == wipeNote(s, view, page, session) IN
  /\ note \in {"finished", "finished, next starts"} => page.upcoming = {} /\ viewQueue(s, view) = {}
  /\ note = "division" => viewQueue(s, view) = {}
  /\ note = "capture" => viewQueue(s, view) # {} /\ session = "admin"
  /\ note = "none" /\ page.season => viewQueue(s, view) # {}

\* The page is never left on a division that is gone.
OpensAView(views) ==
  \A stored \in views \cup {"gone"} : pickDivision(stored, <<"NA", "EMEA">>) \in {"NA", "EMEA"}

\* A feed whose days have numbers (the bot takes 99 for a day that never comes), of clubs
\* that play in one region each.
GamesOf(Rs, Cs) == [region : Rs, club : Cs, day : 0..98, coded : BOOLEAN, captured : BOOLEAN]
IsFeed(s, Rs, Cs) ==
    /\ s.games \subseteq GamesOf(Rs, Cs) /\ IsFiniteSet(s.games)
    /\ \A g, h \in s.games : g.club = h.club => g.region = h.region
    /\ s.wipe \in 0..98 /\ \A r \in DOMAIN s.regional : s.regional[r] \in 0..98

QueuesAgree(s) ==
  LET regions == {g.region : g \in s.games} IN
  /\ OneQueue(s)
  /\ \A view \in regions :
       /\ OneView(s, view)
       /\ \A page \in [season : BOOLEAN, upcoming : SUBSET regions, ahead : BOOLEAN],
            session \in {"no session", "guest", "expired", "admin"} : NoteIsTrue(s, view, page, session)
  /\ OpensAView(regions)
=============================================================================
