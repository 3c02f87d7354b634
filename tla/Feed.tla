-------------------------------- MODULE Feed --------------------------------
(***************************************************************************)
(* What the bot is given to do, and what the operator is told of it: the   *)
(* run tab of the review page (review/server.js) shows a backlog and the   *)
(* failures and starts a run with the filters that are set (run.js         *)
(* parseArgs, main), codes may be named by hand (run.js synthesise), and   *)
(* codes to practise on are looked up on a public site (scrape_codes.js).  *)
(*                                                                         *)
(* The name of a division or a team is its set of words: a filter is met   *)
(* by a name that contains it.  A code is [code, key, division, region,    *)
(* teams, day] and the feed a sequence of them; the ledger gives the keys  *)
(* that were tried a [status, fails].  Days count from 1.                  *)
(***************************************************************************)
EXTENDS Integers, FiniteSets, SequencesExt

Q == INSTANCE Queues

FAIL_RETRY_CAP == 3
LOOP_FAIL_STREAK_CAP == 8

-----------------------------------------------------------------------------
(* The backlog *)

\* A failure below the cap is tried again; everything else was done.
isDoneEntry(v) == ~(v.status = "failed" /\ v.fails < FAIL_RETRY_CAP)
attemptedKeys(attempts) == {k \in DOMAIN attempts : isDoneEntry(attempts[k])}

matchesAny(name, wanted) == wanted = {} \/ \E w \in wanted : w \subseteq name

\* A finite set as a list, each of its elements after those that come before it.
InOrder(S, Before(_, _)) ==
    [n \in 1..Cardinality(S) |-> CHOOSE x \in S : Cardinality({y \in S : Before(y, x)}) = n - 1]

\* Alive, not done, of the divisions and of the teams that are asked for;
\* those of a day in the order of the feed.
Takes(s, divisions, teams, c) ==
    /\ ~Q!isDead([wipe |-> s.wipe, regional |-> s.regional], c)
    /\ c.key \notin attemptedKeys(s.attempts)
    /\ matchesAny(c.division, divisions)
    /\ \E t \in c.teams : matchesAny(t, teams)
Pending(s, divisions, teams, newestFirst) ==
    LET Before(i, j) == IF s.codes[i].day = s.codes[j].day THEN i < j
                        ELSE (s.codes[i].day < s.codes[j].day) = ~newestFirst
        order == InOrder({i \in DOMAIN s.codes : Takes(s, divisions, teams, s.codes[i])}, Before)
    IN  [n \in DOMAIN order |-> s.codes[order[n]]]

feedRows(s, filters) == Pending(s, filters.divisions, filters.teams, FALSE)

\* The filters there are to choose from.
filterOptions(s) ==
    [divisions |-> {c.division : c \in ToSet(s.codes)}, teams |-> UNION {c.teams : c \in ToSet(s.codes)}]

-----------------------------------------------------------------------------
(* A run that is started from the page *)

\* The flags a request becomes: a loop cycles its stack with more patience and
\* has no filters.  No flag is 0 or no words.
buildRunArgs(body) ==
    IF body.loop
    THEN [stack |-> TRUE, divisions |-> {}, teams |-> {}, limit |-> body.limit,
          cap |-> IF body.cap = 0 THEN LOOP_FAIL_STREAK_CAP ELSE body.cap]
    ELSE [stack |-> FALSE, divisions |-> body.divisions, teams |-> body.teams, limit |-> body.limit, cap |-> 0]

\* What the run reads of them, with what is not given as it is by default.
parseArgs(argv) ==
    [looping |-> argv.stack, divisions |-> argv.divisions, teams |-> argv.teams, limit |-> argv.limit,
     newestFirst |-> FALSE, failStreakCap |-> IF argv.cap = 0 THEN 2 ELSE argv.cap]

\* Its queue; only a finite one is cut at the limit.
RunQueue(s, body) ==
    LET args == parseArgs(buildRunArgs(body))
        queue == IF args.looping THEN <<>>
                 ELSE Pending(s, args.divisions, args.teams, args.newestFirst)
    IN  IF args.limit > 0 /\ args.limit < Len(queue) /\ ~args.looping
        THEN SubSeq(queue, 1, args.limit) ELSE queue

\* Codes named by hand, by place: one of the feed is the game it is, another
\* is made up.
synthesise(s, codes) ==
    [i \in DOMAIN codes |->
        LET known == {j \in DOMAIN s.codes : s.codes[j].code = codes[i]}
        IN  IF known = {} THEN [code |-> codes[i], key |-> <<"adhoc", i>>]
            ELSE [code |-> codes[i], key |-> s.codes[Max(known)].key]]

-----------------------------------------------------------------------------
(* What became of the attempts *)

attemptsTally(attempts) ==
    LET failed == {k \in DOMAIN attempts : attempts[k].status = "failed"}
    IN  [done |-> Cardinality(DOMAIN attempts \ failed), failed |-> Cardinality(failed),
         total |-> Cardinality(DOMAIN attempts)]

failureList(attempts) ==
    {[key |-> k, needs_manual |-> attempts[k].fails >= FAIL_RETRY_CAP] :
        k \in {l \in DOMAIN attempts : attempts[l].status = "failed"}}

\* A backlog: codes of a day, each of a game in which some team plays, no two games with
\* one code; and a ledger of attempts.
IsBacklog(s) ==
    /\ Len(s.codes) \in Nat /\ DOMAIN s.codes = 1..Len(s.codes)
    /\ \A i \in DOMAIN s.codes : s.codes[i].day \in Int /\ s.codes[i].teams # {}
    /\ \A i, j \in DOMAIN s.codes : s.codes[i].code = s.codes[j].code => s.codes[i].key = s.codes[j].key
    /\ IsFiniteSet(DOMAIN s.attempts)
    /\ \A k \in DOMAIN s.attempts : s.attempts[k].fails \in Int

\* The run does what the page shows: with any filters and any limit its queue is
\* the beginning of the backlog as those filters show it, a loop has none of it;
\* every choice the page offers shows something that is alive and not done, if
\* there is any; the failures the page calls for a hand are those that no run
\* takes by itself any more, and the others are still in the backlog while their
\* code is alive; and a code named by hand that is a game of the feed is recorded
\* as that game (server.js:150, run.js:170).
RunsWhatIsShown(s) ==
    LET body(d, t, n, b) == [loop |-> b, divisions |-> d, teams |-> t, limit |-> n, cap |-> 0]
        shown == feedRows(s, [divisions |-> {}, teams |-> {}])
        options == filterOptions(s)
        Alive(c) == ~Q!isDead([wipe |-> s.wipe, regional |-> s.regional], c)
    IN  /\ \A d \in SUBSET s.asked.divisions, t \in SUBSET s.asked.teams, n \in 0..2 :
             LET rows == feedRows(s, [divisions |-> d, teams |-> t]) IN
             /\ RunQueue(s, body(d, t, n, FALSE)) = SubSeq(rows, 1, IF n = 0 \/ n > Len(rows) THEN Len(rows) ELSE n)
             /\ RunQueue(s, body(d, t, n, TRUE)) = <<>>
             /\ ToSet(rows) \subseteq ToSet(shown)
        /\ ToSet(shown) =
             UNION {ToSet(feedRows(s, [divisions |-> {d}, teams |-> {}])) : d \in options.divisions}
        /\ ToSet(shown) =
             UNION {ToSet(feedRows(s, [divisions |-> {}, teams |-> {t}])) : t \in options.teams}
        /\ \A f \in failureList(s.attempts), c \in ToSet(s.codes) :
             f.key = c.key /\ Alive(c) => (f.needs_manual <=> c \notin ToSet(shown))
        /\ attemptsTally(s.attempts).failed = Cardinality(failureList(s.attempts))
        /\ \A c \in ToSet(s.codes) : synthesise(s, <<"unknown", c.code>>)[2].key = c.key

-----------------------------------------------------------------------------
(* A feed of the day.  The button asks the worker for a new one and looks   *)
(* for it in git a while later.  What happens is a sequence of events, one  *)
(* that cannot happen changes nothing: a click, the worker's answer to one, *)
(* the look, the build of the site (external) and midnight.                 *)

RefreshEvents == {"click", "accepted", "refused", "look", "gitFails", "built", "midnight"}
Yesterdays == [refresh |-> "none", toldOn |-> 0, local |-> 1, origin |-> 1, today |-> 2, asking |-> 0, due |-> 0]

feedFreshness(q) == q.local = q.today
Told(q, what) == [q EXCEPT !.refresh = what, !.toldOn = q.today]

\* The click: refused while one is pending, which is so only once the worker has answered.
RefreshFeed(q) ==
    CASE q.refresh = "pending" -> q
      [] q.refresh # "pending" /\ feedFreshness(q) -> Told(q, "fresh")
      [] OTHER -> [q EXCEPT !.asking = @ + 1]

startRefresh(q, event) ==
    CASE event = "click" -> RefreshFeed(q)
      [] event = "accepted" /\ q.asking > 0 -> Told([q EXCEPT !.asking = @ - 1, !.due = @ + 1], "pending")
      [] event = "refused" /\ q.asking > 0 -> Told([q EXCEPT !.asking = @ - 1], "failed")
      [] event = "look" /\ q.due > 0 ->
           LET seen == [q EXCEPT !.local = q.origin, !.due = @ - 1]
           IN  Told(seen, IF feedFreshness(seen) THEN "done" ELSE "stale")
      [] event = "gitFails" /\ q.due > 0 -> Told([q EXCEPT !.due = @ - 1], "failed")
      [] event = "built" -> [q EXCEPT !.origin = q.today]
      [] event = "midnight" -> [q EXCEPT !.today = @ + 1]
      [] OTHER -> q

\* Where a sequence of events leads.
After(events) ==
    LET upTo[n \in 0..Len(events)] ==
          IF n = 0 THEN Yesterdays ELSE startRefresh(upTo[n - 1], events[n])
    IN  upTo[Len(events)]

\* Without a feed of the day a run of the queue refuses to start.
FeedAllows(q, staleOk) == feedFreshness(q) \/ staleOk

\* However clicks, answers and looks come in: as long as the page says that a refresh is
\* pending somebody will look, so the button is not dead for good; and a day's run starts
\* on the day the page says the feed is there, whoever refreshed once more since
\* (server.js:241, run.js:587).
FeedIsAsTold(events) ==
    LET q == After(events)
    IN  /\ q.refresh = "pending" => q.due > 0
        /\ q.refresh \in {"done", "fresh"} /\ q.toldOn = q.today => FeedAllows(q, FALSE)
        /\ q.local <= q.origin /\ q.origin <= q.today

-----------------------------------------------------------------------------
(* Codes to practise on.  A page is a sequence of replays, the newest       *)
(* first, a replay [code, ours, valid, secs, patch, key]: whether it is of  *)
(* the kind asked for, whether the site could verify it, its length (0: not *)
(* said), the patch it was made on, and of how many players there is an     *)
(* answer key (-1: there never will be one).                                *)

MIN_SECONDS == 240

\* What was ever opened: by the runs, by hand, and by any contribution.
spentCodes(s) == s.ledger \cup s.seen \cup s.out

Worth(spent, r) ==
    /\ r.ours /\ r.code \notin spent /\ r.valid
    /\ ~(r.secs # 0 /\ r.secs < MIN_SECONDS)

\* The places <<page, line>> of some pages, the replay of one, and those of them that are worth it.
PlacesOn(s, pages) == UNION {{n} \X DOMAIN s.pages[n] : n \in pages}
Of(s, at) == s.pages[at[1]][at[2]]
WorthOn(s, spent, pages) == {at \in PlacesOn(s, pages) : Worth(spent, Of(s, at))}

\* A page is fetched until one is empty, or there is three times what is wanted.
PagesRead(s, spent) ==
    {n \in DOMAIN s.pages : \A k \in 1..n : /\ s.pages[k] # <<>>
                                            /\ Cardinality(WorthOn(s, spent, 1..k - 1)) < 3 * s.want}
Found(s, spent) == WorthOn(s, spent, PagesRead(s, spent))
Sooner(a, b) == a[1] < b[1] \/ (a[1] = b[1] /\ a[2] < b[2])

\* Of the patch of the first one found, with an answer key to come, the fullest
\* key first.
Picked(s) ==
    LET found == Found(s, spentCodes(s))
        keyed == {at \in found : /\ \E b \in found : /\ \A c \in found : b = c \/ Sooner(b, c)
                                                     /\ Of(s, at).patch = Of(s, b).patch
                                 /\ Of(s, at).key # -1
                                 /\ s.gradeable => Of(s, at).key >= 10}
        Before(a, b) == IF Of(s, a).key = Of(s, b).key THEN Sooner(a, b) ELSE Of(s, a).key > Of(s, b).key
        order == InOrder(keyed, Before)
    IN  [k \in 1..Min({Cardinality(keyed), s.want}) |-> Of(s, order[k])]

\* A site: finitely many pages of replays, the newest patch first.
IsSite(s) ==
    /\ Len(s.pages) \in Nat /\ DOMAIN s.pages = 1..Len(s.pages)
    /\ \A n \in DOMAIN s.pages : Len(s.pages[n]) \in Nat /\ DOMAIN s.pages[n] = 1..Len(s.pages[n])
    /\ \A at \in PlacesOn(s, DOMAIN s.pages) :
         Of(s, at).key \in Nat \cup {-1} /\ Of(s, at).patch \in Int /\ Of(s, at).secs \in Int
    /\ \A a, b \in PlacesOn(s, DOMAIN s.pages) : Sooner(a, b) => Of(s, b).patch <= Of(s, a).patch
    /\ s.want \in Nat

\* An import is not wasted on a code that is offered: it was never opened, it is
\* of the right kind, verified and long enough, of the newest patch any code
\* worth the name is of, and no code with a fuller key was left out for it
\* (scrape_codes.js:33).
OffersAreFresh(s) ==
    \A picked \in {Picked(s)}, found \in {{Of(s, at) : at \in Found(s, spentCodes(s))}} :
        /\ Len(picked) <= s.want
        /\ \A i \in DOMAIN picked :
             LET r == picked[i] IN
             /\ r.code \notin s.ledger \cup s.seen \cup s.out
             /\ r.ours /\ r.valid /\ (r.secs = 0 \/ r.secs >= MIN_SECONDS)
             /\ r.key # -1
             /\ \A q \in found :
                  /\ q.patch <= r.patch
                  /\ q.patch = r.patch /\ q.key > r.key => q \in ToSet(picked)
=============================================================================
