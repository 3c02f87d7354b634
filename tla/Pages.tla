------------------------------- MODULE Pages -------------------------------
(***************************************************************************)
(* Moving about the dashboard (app.js): the division on view, the screen   *)
(* in the page, what the screen is about, and the address that names it.   *)
(* A click draws a screen and writes its hash; the write, the back button  *)
(* and an edited address each raise a hashchange event, and the handler    *)
(* draws what the hash says unless it is the one show() wrote itself.      *)
(*                                                                         *)
(* Divisions, teams, matches and players are model values in name order.   *)
(***************************************************************************)
EXTENDS Integers, Sequences, FiniteSets

CONSTANTS
  Views,       \* sequence of the views: each a set of divisions
  Regions,     \* view -> its region; 0, when its name tells none
  Upcoming,    \* the views of which nothing has been played
  TeamsOf,     \* division -> its teams
  MatchesOf,   \* division -> its matches, the bracket included
  HomesOf,     \* player -> the divisions played in, most maps first
  MaxMoves     \* bound: clicks, links and steps back that are followed

VARIABLES
  view, scoutTeam, prep, matchId, compared, player,   \* app.js's variables of those names
  shown,      \* the content of the page: [id, of, options, notice]
  hash,       \* location.hash
  handled,    \* HANDLED_HASH
  event,      \* a hashchange event is due
  past,       \* the entries behind the current one
  moves

pagesVars == <<view, scoutTeam, prep, matchId, compared, player, shown, hash, handled, event, past, moves>>
subject == <<scoutTeam, prep, matchId, compared, player>>

Tabs == {"overview", "scout", "players", "meta", "matches"}
Nothing == 0
Names(v) == UNION {TeamsOf[d] : d \in Views[v]}
Lowest(S) == IF S = {} THEN Nothing ELSE CHOOSE x \in S : \A y \in S : x <= y
AllTeams == UNION {TeamsOf[d] : d \in DOMAIN TeamsOf}
AllMatches == UNION {MatchesOf[d] : d \in DOMAIN MatchesOf}

\* The first view of a single one of these divisions.
SingleView(divisions) ==
  Lowest({v \in DOMAIN Views : Cardinality(Views[v]) = 1 /\ Views[v] \subseteq divisions})
ViewOfTeam(t) == SingleView({d \in DOMAIN TeamsOf : t \in TeamsOf[d]})
ViewOfMatch(m) == SingleView({d \in DOMAIN MatchesOf : m \in MatchesOf[d]})
ViewOfPlayer(n) == IF HomesOf[n] = <<>> THEN Nothing ELSE SingleView({HomesOf[n][1]})

Hash(k, of) == [k |-> k, of |-> of]

hashFor(id) ==
  CASE id = "matchdetail" /\ matchId' # Nothing -> Hash("match", matchId')
    [] id = "compare" /\ Nothing \notin {compared'[1], compared'[2]} -> Hash("compare", compared')
    [] id = "scout" /\ scoutTeam' # Nothing -> Hash(IF prep' THEN "prep" ELSE "team", scoutTeam')
    [] id = "playerdetail" /\ player' # Nothing -> Hash("player", player')
    [] OTHER -> Hash(id, Nothing)

-----------------------------------------------------------------------------
(* Drawing *)

\* The team and the draft on view are those of the division.
Switch(v) == view' = v /\ scoutTeam' = Lowest(Names(v))

\* To the view that knows the subject, where there is one and it is needed.
SwitchTo(v) == IF v = Nothing THEN UNCHANGED <<view, scoutTeam>> ELSE Switch(v)

WriteHash(h, due) ==
  /\ hash' = h
  /\ IF h = hash THEN event' = due /\ UNCHANGED past ELSE event' = TRUE /\ past' = Append(past, hash)

\* A division that has not started: but for its fixtures, and what a link opens
\* without it, a page says what it waits for.
viewIsUpcoming(v) == v \in Upcoming

\* show(id): the content is drawn, and the hash that names it written and
\* taken as handled.  A match that is not in the division shows the list.
Show(id, before, due) ==
  LET real == IF id = "matchdetail" /\ ~\E d \in Views[view'] : matchId' \in MatchesOf[d]
              THEN "matches" ELSE id
      of == CASE real = "matchdetail" -> matchId' [] real = "scout" -> scoutTeam'
              [] real = "playerdetail" -> player' [] real = "compare" -> compared' [] OTHER -> Nothing
  IN /\ shown' = [id |-> real, of |-> of, options |-> Names(view'),
                  notice |-> viewIsUpcoming(view') /\ real \in Tabs \ {"matches"}]
     /\ WriteHash(hashFor(real), due)
     /\ handled' = IF hash' = hash THEN before ELSE hash'

Draw(id) == Show(id, handled, event)
Move == moves < MaxMoves /\ moves' = moves + 1

Pair(v, a, b) ==
  LET first == IF a \in Names(v) THEN a ELSE Lowest(Names(v)) IN
  <<first, IF b \in Names(v) THEN b ELSE Lowest(Names(v) \ {first})>>

-----------------------------------------------------------------------------
(* Clicks *)

ClickTab == /\ Move /\ \E id \in Tabs : UNCHANGED <<view, subject>> /\ Draw(id)

\* The switcher: a row of the regions, each opening its first view, and a row of
\* the views of the region that is shown.
First(r) == Lowest({v \in DOMAIN Views : Regions[v] = r})
DivNav == IF Len(Views) < 2 THEN {}
          ELSE {First(Regions[v]) : v \in DOMAIN Views}
                 \cup {v \in DOMAIN Views : Regions[v] = Regions[view]}

PickDivision ==
  /\ Move /\ \E v \in DivNav :
       /\ Switch(v) /\ UNCHANGED <<prep, matchId, compared, player>>
       /\ Draw(CASE shown.id = "matchdetail" -> "matches" [] shown.id = "compare" -> "scout"
                 [] shown.id = "playerdetail" -> "players"
                 [] shown.id = "blank" -> "overview" [] OTHER -> shown.id)

gotoScout ==
  /\ Move /\ \E t \in AllTeams :
       /\ view' = IF t \in Names(view) \/ ViewOfTeam(t) = Nothing THEN view ELSE ViewOfTeam(t)
       /\ scoutTeam' = t
       /\ UNCHANGED <<prep, matchId, compared, player>> /\ Draw("scout")

openMatch ==
  /\ Move /\ \E m \in AllMatches :
       /\ SwitchTo(ViewOfMatch(m)) /\ matchId' = m
       /\ UNCHANGED <<prep, compared, player>> /\ Draw("matchdetail")

GoToPlayer(n) == /\ SwitchTo(ViewOfPlayer(n)) /\ player' = n
                 /\ UNCHANGED <<prep, matchId, compared>> /\ Draw("playerdetail")
gotoPlayer == Move /\ \E n \in DOMAIN HomesOf : GoToPlayer(n)

\* The button of the scout page compares the team with another of its view.
gotoCompare ==
  /\ Move /\ shown.id = "scout" /\ ~shown.notice /\ Names(view) \ {scoutTeam} # {}
  /\ compared' = Pair(view, scoutTeam, Lowest(Names(view) \ {scoutTeam}))
  /\ UNCHANGED <<view, scoutTeam, prep, matchId, player>> /\ Draw("compare")

\* The select and the button of the scout page draw its body again and write
\* the hash without marking it as handled.
ScoutControl ==
  /\ Move /\ shown.id = "scout" /\ ~shown.notice
  /\ \/ \E t \in shown.options : scoutTeam' = t /\ UNCHANGED prep
     \/ prep' = ~prep /\ UNCHANGED scoutTeam
  /\ shown' = [shown EXCEPT !.of = scoutTeam']
  /\ UNCHANGED <<view, matchId, compared, player, handled>>
  /\ WriteHash(hashFor("scout"), event)

-----------------------------------------------------------------------------
(* The address *)

\* The window's back button, or an address typed or pasted over the old one.
Back == /\ Move /\ past # <<>>
        /\ hash' = past[Len(past)] /\ past' = SubSeq(past, 1, Len(past) - 1) /\ event' = TRUE
        /\ UNCHANGED <<view, subject, shown, handled>>

Links == {Hash(k, t) : k \in {"team", "prep"}, t \in AllTeams} \cup {Hash("match", m) : m \in AllMatches}
           \cup {Hash("player", n) : n \in DOMAIN HomesOf} \cup {Hash(id, Nothing) : id \in Tabs}
           \cup {Hash("compare", Pair(v, Nothing, Nothing)) : v \in DOMAIN Views}
OpenLink == /\ Move /\ \E h \in Links \ {hash} : WriteHash(h, event)
            /\ UNCHANGED <<view, subject, shown, handled>>

\* A team, a match or a pair of teams is looked up, its division put on view,
\* and the division's select set to it: the page has no such select any more
\* and the handler ends there.  Only what no division knows goes on.
LookedUp(h) == CASE h.k \in {"team", "prep"} -> ViewOfTeam(h.of)
                 [] h.k = "match" -> ViewOfMatch(h.of)
                 [] h.k = "compare" -> ViewOfTeam(h.of[1])
                 [] OTHER -> Nothing

Throws(h) == LookedUp(h) # Nothing

hashDispatch ==
  /\ event /\ UNCHANGED moves
  /\ \/ /\ hash = handled
        /\ event' = FALSE /\ UNCHANGED <<view, subject, shown, hash, handled, past>>
     \/ /\ hash # handled /\ Throws(hash)
        /\ Switch(LookedUp(hash))
        /\ prep' = IF hash.k \in {"team", "prep"} THEN hash.k = "prep" ELSE prep
        /\ handled' = hash /\ event' = FALSE
        /\ UNCHANGED <<matchId, compared, player, shown, hash, past>>
     \/ /\ hash # handled /\ ~Throws(hash)
        /\ IF hash.k = "player" /\ HomesOf[hash.of] # <<>>
           THEN /\ SwitchTo(ViewOfPlayer(hash.of)) /\ player' = hash.of
                /\ UNCHANGED <<prep, matchId, compared>> /\ Show("playerdetail", hash, FALSE)
           ELSE /\ UNCHANGED <<view, subject>>
                /\ Show(CASE hash.k \in Tabs -> hash.k [] hash.k = "player" -> "players"
                          [] OTHER -> "overview", hash, FALSE)

\* The page opens with the address it was given, on the division remembered.
PagesInit ==
  /\ view \in DOMAIN Views /\ scoutTeam = Lowest(Names(view)) /\ prep = FALSE
  /\ matchId = Nothing /\ player = Nothing /\ compared = <<Nothing, Nothing>>
  /\ shown = [id |-> "blank", of |-> Nothing, options |-> {}, notice |-> FALSE]
  /\ hash \in Links /\ handled = Hash("blank", Nothing) /\ event = TRUE
  /\ past = <<>> /\ moves = 0

PagesNext == \/ hashDispatch
             \/ /\ ~event
                /\ \/ ClickTab \/ PickDivision \/ gotoScout \/ openMatch \/ gotoPlayer \/ gotoCompare
                   \/ ScoutControl \/ Back \/ OpenLink

PagesSpec == PagesInit /\ [][PagesNext]_pagesVars

-----------------------------------------------------------------------------
(* What the page promises *)

PagesTypeOK ==
  /\ view \in DOMAIN Views /\ scoutTeam \in AllTeams \cup {Nothing} /\ prep \in BOOLEAN
  /\ matchId \in AllMatches \cup {Nothing} /\ player \in DOMAIN HomesOf \cup {Nothing}
  /\ event \in BOOLEAN /\ moves \in 0..MaxMoves

\* The hash is the source of truth for which screen the page is on: once it
\* has been handled, a link to a team's sheet, or a step back to one, has
\* that team on the page.  The code ends the handler halfway.
HashIsTheScreen ==
  ~event /\ hash.k \in {"team", "prep"} => shown.id = "scout" /\ shown.of = hash.of
=============================================================================
