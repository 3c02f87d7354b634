# Formal models of OWDB (faceit-scout)

OWDB scouts team compositions in the FACEIT Overwatch league. `faceit_sync`
crawls match data into SQLite; captures of replays (by hand in a browser, or by
the unattended replay bot) arrive as one JSON file per contributor; a GitHub
workflow merges both into the page at owdb.io, and the page's script counts,
ranks and draws what was merged. This directory holds TLA+ models of these parts,
TLC configurations that check them on small instances, and TLAPS proofs of the
properties that matter most for every instance.

Run from this directory:

    tlc -workers 2 -config Codes_codes.cfg MCCodes          # and the other runs
    tlapm RunLoopProofs.tla                                 # and the other proofs

`PROJECT.json` is the index: the components, the runs and their properties, the
mutants each property is tested with, the source lines each definition models,
the hazards, the findings and the theorems.

## 1. The system

| Component | State | Operations | Hard because | Modules |
|---|---|---|---|---|
| Replay bot, unattended loop (`tools/replay_bot/run.js`, `clientstate.js`, `queue.js`, `codestack.js`, `input.js`) | attempt ledger, contribution file, code stack file, stop and pause flags; in memory a copy of the ledger, the queue, the failure streak; the game client's screen | start, checkpoint, take a code, log, clear menus, import, wait, capture, save, leave, stop, pause, interrupt | every file is rewritten whole, the process may die between any two writes, codes work once, and the client can only be watched | `ReplayClient`, `RunLoop` |
| Replay bot, the PowerShell host (`host.js`, `grab.js`, `input.js`) | the child process, the request under way, those behind it, timers | request, answer, time-out, exit, fall back to a script | four callbacks settle one request, in any order | `Host` |
| Replay bot, capture and recognition (`phases.js`, `driver.js`, `timeline.js`, `resolve.js`, `vote.js`, `emit.js`, `attribute.js`, `recorder.js`, `reprocess_*.js`) | the open replay, what the bot makes of its bar, samples and kept frames | pause, raise the panels, calibrate, read the rounds, seek, sample; then vote, segment, attribute, correct, ship | keys are dropped or sent twice, reads are wrong, and everything later rests on them | `Capture`, `Timeline`, `Resolve`, `Reprocess`, `Attribute`, `Recorder` |
| Review server (`review/server.js`, `page.html`, `review_out.js`, `prune_frames.js`, `scrape_codes.js`) | review file per session, frames on disk, the operator's page; the run tab | save, finalize, upload, prune; go, stop, retry, refresh feed | it shares files with a run that rewrites them from memory | `Review`, `Feed`, `RunLoop` |
| Console (`console/server.js`, `timing.js`) | session, waits, loop child, pause flag | run a phase, save a wait, start, pause, stop, kill | phases and the child drive one client, and both can outlive a request | `Console`, `RunLoop` |
| Claim room (`infra/upload-worker/worker.js`) | claims in memory and in storage, sockets with attachments, an alarm | connect, identify, claim, unclaim, close, alarm, hibernate | the object loses its memory between two events | `Claims`, `ClaimRoom` |
| Upload worker, the rest | KV: names, rate limit, refresh claim; files on GitHub | upload, refresh, sessions, admin | KV has no compare-and-set; reads and writes lie around awaits | `Upload`, `Refresh` |
| Build workflow (`.github/workflows/update.yml`) | one running and one pending job, the newest database cache, main | triggers, gate, fetch, merge, export, save, push | jobs replace each other, main moves under them, and errors are tolerated | `Site`, `SiteBuild` |
| Merge (`owdb/contribute.py`) | contributor files, overrides, exclusions | validate, order, first wins | which contributor owns a contested map | `Site` |
| Ingest (`faceit_sync/sync.py`, `db.py`, `client.py`, `cli.py`) | rows per match; per run the teams asked for, the matches met, the back-fill set | seed, crawl, ingest, skip, back-fill | the graph of teams grows while it is walked, FACEIT changes, calls fail | `SyncCrawl` |
| Dashboard (`faceit_sync/dashboard/app.js`, `pure.js`) | the division, screen, subject and hash; the draft tree | navigate, draft; count, rank, compare, draw | some thirty panels count the same season each in its own way | `Pages`, `Draft`, `Bracket`, `Queues`, `Season`, `League`, `Sheet`, `Scout`, `Ratings` |
| Browser capture app (`docs/capture/`) | page local | a wizard over a shared screen | shares names, queues and claims with the bot | `Attribute`, `Queues` in part |
| Scrims (`docs/capture/scrim.html`, `scoreboard.js`, `engine/opponents.js`, `engine/boardreads.js`) | aliases and groups in the browser's storage, the active scrim | read a scoreboard, tell the opponent, correct it | everything is learned from noisy reads and must be unlearned | `Boards`, `Scrims` |
| Desktop capture (`owdb/*.py` but for the merge), evaluation and build tools | process local | interactive capture; one-shot scripts | - | not modelled (section 7) |

How they meet. The loop, the review server and the console are three processes
that share files under `tools/replay_bot/state` and `out`; the loop and the
console's phases share the game client, through one host process each. The capture
page and the review server upload to the worker, which commits the contributor's
whole file to main; that push triggers the workflow. The worker's `/refresh`
dispatches the workflow too. The workflow runs both `faceit-sync fetch` commands,
merges, exports, and pushes `docs/index.html`, of which it is the only writer. The
dashboard and the bot work out what is left to capture from two different files of
one build. Scouts of the capture page see each other's claims through the claim room.

What makes each part correct:

* loop: a code is imported at most as often as the retry cap allows, whatever
  dies; the ledger never says more than the files hold; no captured map is lost;
  a record is filed under the game that was on screen; a stop ends the run;
* host: a caller that waits is woken, and what it asked for is done;
* capture: a sample was taken where it says; what is uploaded is what two reads in
  a row confirmed, of the player it is said of, as the operator corrected it;
* review: what is uploaded is what the operator saw, and the frames of what is
  still to be looked at stay on disk;
* console: a phase leaves no trace and never meets the loop;
* claim room: claims survive hibernation, are held only by admins, pass only
  through being free, survive the closing of one of two tabs, and end when stale;
* upload: a name's file stays its owner's, and the roster is the list of the files;
* refresh: one build per cooldown, and no cooldown without a build;
* workflow: every page that appears is the merge of what is on main; uploads and
  finished matches reach it; matches do not leave it;
* ingest: a crawl stores everything in its reach whatever failed beside it, later
  crawls catch up, and replay codes that appear in time are found;
* dashboard: the panels agree with each other, nobody is lost or counted twice, a
  draft is legal, a shown place stands, and a link opens what it names;
* scrims: a row of the scoreboard that lost no number keeps each in its column, a
  difference is what was done in between, and a denial is forgotten only by being taught
  again.

## 2. The modules

| Module | What it is |
|---|---|
| `ReplayClient` | the Overwatch client as the bot meets it: screens, the ring of recent imports, faults. External: taken from how `src/` uses it |
| `RunLoop` | extends `ReplayClient` with `main()` of `run.js` and the operator's handlers |
| `Host` | `host.js` with its process, and the callers' fall-back |
| `Capture`, `Timeline`, `Resolve`, `Attribute`, `Reprocess`, `Recorder` | one open replay; the functions from its frames to the records that are uploaded; the recorded menu chunks |
| `Review`, `Feed` | the review files, the page, the upload and the pruning; what a run is given to do |
| `Console` | phases and the loop child |
| `Claims`, `ClaimRoom` | what the room promises; the Durable Object that implements it |
| `Upload`, `Refresh` | the worker's upload and its `/refresh` |
| `Site`, `SiteBuild` | the abstract published page; the workflow that implements it |
| `SyncCrawl` | the two fetch commands, against a FACEIT that changes |
| `Pages`, `Draft`, `Bracket` | the dashboard's state: navigation, the draft simulator, the playoff bracket |
| `Queues`, `Season`, `League`, `Sheet`, `Scout`, `Ratings` | what its panels compute |
| `Boards`, `Scrims` | the scrim page: the scoreboard, the opponent |
| `MC*` | the instances TLC checks |
| `*Proofs` | the theorems: `RunLoopProofs`, `ClaimRoomProofs`, `SiteProofs` and `SyncProofs` about the module of that name, `BotProofs` about `Console`, `Review` and `Host`, `IntakeProofs` about `Upload`, `Refresh`, `Capture` and `Scrims`, `PartsProofs` about `Draft`, `Bracket`, `Queues`, `Feed`, the import of `Recorder` and the segments of `Resolve`, `CountsProofs` about `Season`, `League`, `Scout` and `Sheet` |

Composition: `RunLoop` extends `ReplayClient`, `SiteBuild` extends `Site`;
`Capture` extends `Timeline`, `Reprocess` extends `Resolve`, and `League` and
`Sheet` extend `Season`; `Feed` uses `Queues` through an INSTANCE, and `ClaimRoom` implements `Claims`
by a refinement mapping. What shares nothing with each other is put side by side in one
instance: `MCCodes` has the league's queue, the code stack (`RunLoop` once more, as
`OnStack`, with its own constants) and the claim room, `MCPublish` the crawl and the
workflow, `MCParts` the rest. A constant `Parts` names those a run takes; the first state
chooses one of them, that one moves, and the variables of the others keep their first
values. Such a sum has just the behaviours of its parts one by one, so a property of one
part is checked in it as it would be alone.

In the modules of functions an intermediate result is passed on as the parameter of
an operator of its own where a LET would nest: TLC counts the evaluations of every
expanded LET, and its start-up grows with them.

### RunLoop and ReplayClient

An action is the code between two awaits, or between two file writes. `pc` is the
place in `main()`; the variables of the process are its locals (`state`, `maps`,
`consecutive`, `loopFailures`, `stopRequested`), the variables of the files are
what survives (`ledger`, `out`, `stack`, `stopFlag`, `pauseFlag`). `Exit` forgets
the first and keeps the second. `Go`, `Stop` and `Retry` are the review server's
handlers, `TogglePause` the console's and the hotkey's, `Interrupt` Ctrl-C.
`Looping` selects `--code-stack`.

The client is a screen, the game that is loading or open, and how many imports ago
each code was imported. It rejects a code that is still in the ring. `Faults` says
what may go wrong: a refused code, a lost focus, a capture that throws, a dropped
ESC, a missed click, a late draw, a probe that fails, a dead process, a torn file.

Two games of one match share a time stamp in the queue. The contribution file is
one file: league runs of one day share it, and a run of another day writes a new
one and leaves it alone. The recorded chunks, the timing table and `--limit` are
left out; they change when and how often, not what.

### Host

`host` is the module's state: `ready`, `child`, the `current` request and the
`queue`, the armed `timers`, and every process it ever started with how far that is.
`call` is the bot's last call and what it waits for (a start, an answer, the script),
`carried` what the client saw of each call. Every callback is an action: `Ready`,
`GiveUp` (the start takes too long), `StartError`, `OnLine` (an answer), `Exit`,
`Timeout`; `Carry` and `Die` are the process itself, and `Becomes` the promises a
callback settles. History variables name the two situations in which the code does
not keep its promise: a process that was gone with a request in its hands (`cut`),
and an exit heard after the next process was started (`late`).

### Capture and the functions behind it

`Capture` is one map, from the pause to the record: a variable `client` is the truth
(playing or not, controls and panel up or not, where the playhead is, what a press is
worth), and `scale`, `pos`, `seek` are what the bot believes. Keys are
dropped or doubled, a press is measured, the bar may be invisible. `phase` walks
through `phases.js`; the samples carry whether they were taken where they say. The
step may be one an earlier map of the session was measured by (`sessionStepS`), also when
the client was restarted since and skips by another (`Outdated`).

`Timeline` (bar to rounds), `Resolve` (vote, segments, rounds, corrections, the
emitted observations), `Attribute` (players to slots), `Reprocess` (a second look with
better references or names) and `Recorder` (pairing raw transitions to gestures,
playing them, importing with a diagnosis) are functions, checked over all inputs of a
bounded set against a statement of what they are for.

The second look at the names (`Reattributed`) is taken as it is: a map with a gap is
assigned anew as a whole, the side without a gap too, from what is read now and what the
capture had stored. The bot stores no reads (`run.js:913`), so a side that is not read
again is assigned from nothing and keeps the players its roles tell; and where the names
turn the orientation over, each side gets the other team's players under its old label.
`OperatorsWordStands`, a part of `ShippedIsConfirmed`, says what holds in spite of that:
corrected maps and maps without a gap are left alone; where the names told the teams apart,
whoever is named stands in that slot; and a side of which as much is known as at the
capture loses nobody.

### Review and Feed

`review` holds the session files with the name inside each (0: none), `mem` the copy
of the run that is up and writes whole, `page` the operator's copy with its `dirty`
mark, `posting` a save on its way to whichever file was newest when it was sent,
`sending` an upload, `frames` the day each game's frames were kept. A session is the
day its run started. `Feed` has the run tab: the backlog and the failures as the page
shows them, the flags a request becomes, what the run then takes, what `/refresh-feed`
says, and the codes to practise on.

### Console

`waitIs` is the wait in memory, `override` the file, `busy` the phase that runs and
the wait to put back after it; `session` what is held across phases; `loop` the child
and how often it was interrupted; `orphan` a child whose console is gone. One wait
stands for all of them, since each is put back alike.

### Claims and ClaimRoom

`claims` is `this.claims`, `Unloaded` after hibernation; `stored` is what
`storage` holds. HTTP handlers load the table first, socket handlers do not, which
is the code's behaviour: a claim message on an unloaded table throws (the action is
disabled), a close frees nothing. `identify` is two actions, since a session is
verified across an await; no other handler lets an event in between. Time is
counted in ticks; a due alarm is delivered before time goes on. `Claims` knows
owners, ages and tabs only; the mapping takes `stored`, `age` and the sockets that
are bound.

### Upload and Refresh

A request of `Upload` is at one of its awaits: the record of the key, the head of the
file, the commit by the version it saw, the record again. Versions are handed out in
order, a commit on an older one is refused. A key is an account's own, or a name that
the first token to use it owns. `crossed` are the keys two installs were at together,
or whose request died between file and record. `Refresh` is one KV key, read, written,
read back, and deleted by a failed dispatch; KV is taken as an atomic register and the
values written as distinct, both the strongest they can be: what fails here fails on
the real store. The TTL is as long as the cooldown; no request lasts that long.

### Site and SiteBuild

The merge decides each map alone, so one captured map stands for all. A
contributor's file is its view of that map: none, one without the replay code, one
whose code agrees with FACEIT, or one FACEIT contradicts. `PageOf` is validation,
first wins by order of submission, verified views first, overrides and exclusions,
joined with the number of batches of finished matches the database holds. `Show`
lets a page appear only if it is the merge of the contributions then on main.

`SiteBuild` has the triggers (upload, override, other pushes, both crons,
dispatches), the concurrency group, the job's steps and its failures; the 9pm cron and a
dispatch make one kind of job, since only the gate, which both get through, tells them
apart. Taken from
how GitHub works: a job checks out the commit it was triggered at, the bot's push
triggers nothing, one job runs and one waits, and a newer waiting job replaces an
older. A shadow cron finds the one of the day before gone. Every build commits,
because `data.json` carries the time it was built.

### SyncCrawl

FACEIT is a status, a set of codes and an age for each match. `FetchSeeds` is
`fetch --matches-file`, `FetchAll` is `fetch`: the championships of the database,
regular seasons before playoffs, and for each the loop over the teams known so far.
`Ingest` is one transaction with its skip and back-fill decisions. Any call may fail
after its retries and the process may die between two transactions. The matches of
a list are ingested in any order, which allows more than the code does. The ages
`fresh`, `recent` and `old` are the two back-fill windows.

Left out: enumeration with an API key, `--force-refresh`, `--dry-run`,
`fetch --championship`, back-filling names, sync_log, placeholders whose teams are
filled in later, and what a match is made of.

### The dashboard

`Pages` has `app.js`'s own variables (view, team, match, pair, player), what is drawn
(`shown`), the address (`hash`, `past`), the one `show()` wrote (`handled`) and a
hashchange that is due; clicks, the back button and links are actions. `Draft` is
`renderSim`: the choices are kept by path (`tree`), and every action draws the page
anew, each game from the games before it on its line. `Bracket` lets the league draw
and end matches in every order and recomputes `playoffPlacements` and the drawn columns.

The other modules are functions of a season. `Queues`: what is left to capture, by the
page and by the bot. `Season`: a player's record in each division, by map and by mode,
beside that of the teams, and the page of a player. `League`: hero win rates, comps, the
pool, the lists of matches and the search in them. `Sheet`: a team's picks, bans,
replies, setups, targets, and the two fields its bans are measured against, that of the
tendencies (every match) and that of the glance card (the regular season). `Scout`:
modal comps, matchups against a plan, the price of a ban. `Ratings`: efficiency ratings,
the Players tab in its three views, the merged row of a player of two teams, both Elo
rankings, the axes of a comparison; numbers are whole there (hundredths of a rating,
tenths of an Elo point), and an Elo lead beyond `Far` counts as one of `Far`. Wording,
layout and colour are left out; what a panel lists, and in which order, is not.

### Boards and Scrims

A line of the OCR is what kind of line it is and, for a row, its tokens by what the
parser can make of each (a number, a bar taken for a 1, a letter that is a digit). A
bar may be a 1 or a separator, and the retry of a row that is one number short takes the
first of them for a 1: `ColumnsStay` says that a row that lost no number, or whose 1 is its
first bar, keeps every number in its column, and that a row that lost one comes out as that
row with one number gone and one 1 put in, which the code accepts.
`parse` folds them to ten rows; `joinRows` gives them to players; `deltas` makes of two
reads what was done in between. `Scrims` is the opponent's identity: a reading is
matched, what it concludes is written at once (`aliases`, `groups`, `scrim`), and the
operator may say "not them".

## 3. The runs

| Run | Instance | Distinct states | What it shows |
|---|---|---|---|
| `codes` | league runs: 2 games, ring of 2, caps of 2, one retry of each key press; code stack: 3 codes, ring of 1; claim room: 2 maps, 4 sockets of 3 accounts, stale after 1 tick, alarm every 2 | 890 thousand | the ledger, the contribution files and the client stay consistent across crashes, retries, stops and interrupts, and a stopped run ends; the rotation keeps every code and comes around to each that is not to be retired; the claim room's properties, and that it implements `Claims` |
| `publish` | workflow: 2 contributors, 2 batches, 2 commits, 2 failures of any kind; crawl: 3 championships, 5 matches, 4 teams, 3 events (changes on FACEIT, failed calls, kills) | 1.5 million | the page implements `Site`, uploads and matches reach it; the crawl is complete, catches up and finds codes |
| `parts` | the parts of `MCParts`, below | 2.6 million | 19 properties of the parts that stand alone |
| `run_stop`, `run_retry_lost`, `run_retired`, `room_drop`, `sync_just_stored`, `refresh_twice`, `glance`, `links`, `host_night` | as above, of one part, or smaller | - | each refutes a sentence of the repository (section 6) |

The parts of `parts` that move:

| Part | Instance | Properties |
|---|---|---|
| `refresh` | 3 requests | `CooldownHolds` |
| `upload` | 2 requests, 2 accounts of which one is an admin, 2 tokens, 3 versions | `RosterIsTheFiles`, `FileIsTheOwners` |
| `review` | 2 days, 2 games of which one is flagged, 1 edit | `UploadIsAsShown`, `FlaggedFramesKept` |
| `capture` | a map of 200 seconds with two rounds, presses of 30 and 60 seconds, a remembered step that may be outdated, rates 10 % off, 2 swaps, a death | `SamplesAreWhereTheySay`, `EveryCompHasAFrame` |
| `console` | 3 values of a wait, 2 replays | `PhasesLeaveNoTrace` |
| `host` | 4 calls | `HostServes` |
| `draft` | 7 maps of 5 modes, 4 heroes of 3 roles, 3 teams, 3 clicks | `DraftsAreLegal` |
| `bracket` | 6 teams in 8 places, 14 matches in any order | `PlacementsStand` |
| `scrims` | 2 squads, 8 readings, 2 groups | `DenialForgets` |

The functions are checked over every value of `sample`, a bounded set of inputs:

| Property | Inputs |
|---|---|
| `ShippedIsConfirmed` | `timeline`: bars of four runs with one pixel flipped; `resolve`: five reads of a slot and a correction; `reprocess`: three frames read twice; `renamed`: ten players named at the capture and again, each side with its names read in full, in part or not at all, with and without stored reads; `attribute`: five players, one of whom leaves |
| `BoardReadsAreTrue` | `rows`: rows of six columns with what OCR does to them, a lost column, a 1 as a bar, a separator as a bar and junk at the end together; `boards`: two reads of a round and the names on them |
| `QueuesAgree` | `queues`: two games around a patch; `feed`: three codes and a ledger; `scrape`: pages of a site; `fresh`: five events around a feed refresh |
| `SeasonAgrees` | `season`: two matches of two games, a transfer, playoffs; `league`: two matches with captures |
| `SheetAddsUp` | `sheet`: two matches of two drafts; `scout`: three captured games against a plan, pools of two teams |
| `RatingsAreFair` | `players`: five players of two teams; `merged`: three rows; `elo`: three matches; `compare`: two teams of eight axes |
| `PlayedAsRecorded` | `recorder`: three gestures, windows, codes; `plays`: which calls fail; `import`: what the diagnosis answers |

What the properties leave out. Where the code has nothing to prevent a case, the property
names the case and speaks of the rest: `RecordIsRight` of replays that draw before the bot
stops waiting (`run.js:511`); `StaleIsPruned` of claims an alarm watches; `CooldownHolds` of
requests that did not race (`refresh_twice` shows the race); `FileIsTheOwners` of names not
claimed by two installs at once; `FlaggedFramesKept` of maps not captured over another day's
review; `SamplesAreWhereTheySay` of seeks whose playhead was seen and of a step that is still
the client's; `PhasesLeaveNoTrace` of waits not saved under a phase; `UploadIsAsShown` of
clicks nothing was captured under; `DenialForgets` of a denial until a later reading of the
team; `PlayedAsRecorded` of keys released in the order they were pressed.

Why the bounds are enough. The caps of the loop are 2 or 3 where the code has 3 and 8,
so every limit is reached, crossed and reached again by another code; two games are what
the ledger, the ring and the queue can confuse, three codes what a rotation can get
wrong. Two tabs of one admin, one tab of another and one account that is not an admin
are the cases the room tells apart; one tick without a heartbeat makes a claim stale,
and the alarm that comes every second one finds it so. Two contributors contest one map;
two commits outrun both the running and the waiting job, and two failures cover a
failure while another is being made up for. Of three requests one can win, one lose and
one come late. The crawl's instance has a division whose teams are known only by chain,
playoffs whose second pair is known only through the first and the division, and a cup
without teams, which ends the crawl of a night. Its first match is over when all begins,
just now without codes or days ago with some of them, so that three events are enough
for a match to be stored in either window, to gain a code there and for the call that
would fetch it to fail. Two uploads meet on one key; two days are a session and the
next. A captured map has a round before and a round after the half, a break between, a
swap in each and a death in the second. Of the functions, each input set has the cases
the code branches on: ties, empty sides, zero, one below and one at every floor, the
first and the last of a list.

Each property of a passing run has a mutant: a change of one mapped definition of
the kind a plausible bug would make (a dropped guard, a swapped order, a past bug
the comments tell of), under which TLC finds the property violated. The mutated
operators stand beside the definitions they replace.

TLC checks for deadlock in every run but four. `parts` and `glance` have functions, which
have no steps, and parts whose bound (clicks, calls, edits, matches) ends a behaviour;
`links` stops after `MaxMoves` moves and `host_night` when the run has ended.

## 4. Fairness

Fairness is assumed in `CodesFairSpec` of `MCCodes` and `PublishFairSpec` of `MCPublish`,
of each part's own steps. The liveness properties are written "again and again": a stop
flag, a stale page, a stale claim or an unfinished run does not stand for ever, which also
holds of a part that does not move.

* `RunLoop`: weak fairness of the loop's steps and of the client's drawing, for the league
  and for the stack. Node runs a pending await to its end and every wait of `run.js` has a
  timeout. The operator owes nothing; `RunEnds` and `EveryCodeComesAround` therefore leave
  a paused run out. `EveryCodeComesAround` also leaves out a code that failed after its
  import as often as the cap. The documents say such a code is skipped, which is
  `RetiredIsSkipped`; `run_retired` refutes it.
* `ClaimRoom`: weak fairness of the alarm and of time. The platform delivers a due
  alarm; no fairness of any scout.
* `SiteBuild`: weak fairness of the job's steps and of the nightly cron. GitHub
  runs an admitted job to an end; the cron may be late, not absent. Failures and
  commits are bounded by `MaxTrouble` and `MaxEdits`, so the liveness properties say
  what happens once they stop.
* `SyncCrawl`: weak fairness of the crawl and of the first command. The workflow
  runs both every night. `CodesArrive` is said of the windows as the code counts them,
  from when a match finished; that the documents count from when it was stored is
  `JustStoredIsDue`, which `sync_just_stored` refutes.
* the parts of `MCParts`, `Pages`, `Host`: no fairness and no liveness; that a caller of
  the host is woken is said as an invariant (a timer is armed for whoever waits).

## 5. The proofs

TLC checks an instance; the theorems hold for every value of the constants under the
named assumptions of the modules (`ClientAssumption`, `RunAssumption`, `RoomAssumption`,
`SiteAssumption`, `BuildAssumption`, `NoJobIsNone`, `RefreshAssumption`,
`SyncAssumption`, `ReviewAssumption`, `ConsoleAssumption`, `UploadAssumption`,
`HostAssumption`, `ScrimsAssumption`, `DraftAssumption`: types, and that a name for
nobody is nobody's name; `RatingsAssumption`: how often either of two teams wins adds up
to always; `BracketAssumption`: a bracket is a sequence of matches and has the least
power of two of places with room for its teams; `CaptureAssumption` also bounds how far
off the measured playback rate is, by -12 and +16 percent: outside of that a 5 may be
taken for a 10 or a 20 for a 30, and a sample is not where it says;
`StructureAssumption`: the segments of a bar are read from left to right). TLC evaluates
the same assumptions in the runs.

| Module | Theorems | Argument |
|---|---|---|
| `RunLoopProofs` | `TypeCorrect`, `TriesAreBounded`, `TriedCodesAreLogged`, `CapturedGamesAreOnDisk`, `NoMapIsLost`, `StackIsKept`, `RecordsAreRight` | `LedgerInv`: an entry is at the cap only when it failed, the queue holds no finished code, a code being worked is marked opened. `TriesInv`: how often a code was imported is bounded by what its entry tells, in the file and in memory, and a code about to be imported has a try to spare. `CaptureInv`: the records in memory are those on disk. `ShownInv`: the client loads only while the bot waits for it, and an import starts with no replay open |
| `ClaimRoomProofs` | `TypeCorrect`, `Durable`, `AdminsOnly`, `OwnersFree`, `TabsKeep`, `AlarmRemains`, `RoomImplementsClaims` | `RoomInv`: a socket has an attachment only for an admin, and memory, when there, is storage |
| `SiteProofs` | `TypeCorrect`, `SiteImplemented`, `DataKept`, `UploadsAreCarried` | `BuildInv`: a job not behind has the tree of main, what it built is the merge of its own commit, and nothing fetched exceeds the feed. `DataInv`: a database is as new as the page unless a fetch with errors made it. `UploadInv`: a failed job that carried the head is counted |
| `SyncProofs` | `TypeCorrect`, `CrawlReachesAll` | `CrawlInv`: in the championship under way each match met waits, failed or is stored, each team asked for failed or had its list met, and no division is crawled after a playoff |
| `BotProofs`, review | `ReviewTypeCorrect`, `UploadsAreAsShown`, `FramesAreKept` | `ReviewInv`: a session's file has a name, one click is at work at a time, and, with nothing between the page and its file, what is not saved is known to be dirty and what is on its way is what the page shows. `FramesInv`: the write times grow, and as long as sessions did not mix, all flagged maps that wait for the site are in the newest session, and their frames were kept between its day and its last write |
| `BotProofs`, console | `ConsoleTypeCorrect`, `NoTraceIsLeft` | `ConsoleInv`: outside a phase the wait in memory is the file's, inside one the wait to put back is, and a phase has no loop beside it |
| `IntakeProofs`, upload | `UploadInvHolds`, `FilesStayTheirAuthors`, `RosterHolds` | `UploadInv`: the sender of a request fits its key, and, keys in `crossed` aside, requests on one key have one sender, a request let through is the recorded owner's, and a file's author is the record's unless the request that wrote it has still to note it |
| `IntakeProofs`, refresh | `OneBuildPerCooldown`, `NoCooldownForNothing` | `OneAtWork`: without a race one request at most is under way and holds the claim. `ClaimHeld`: a claim has a holder at work, or has fired |
| `BotProofs`, host | `HostInvHolds`, `HostCallsAreServed` | `HostInv`: what is asked for is the last call at most or waits behind it with a timer, a start is settled unless the call waits for it, and, until the exit of an old process is heard after the next was started, one process at most is alive and works on one request, and every call that is over was carried out |
| `IntakeProofs`, capture | `PlanIsOrdered`, `SamplesAreTrue`, `FramesShowEveryComp` | A plan goes up, and the round of a time goes up with it, so a plan takes one round after another (`PlanGoesAlong`). `CaptureInv`: a press measured from the start is taken for what it is, or the step is the chosen one an earlier map remembered, the position is where the playhead was last seen, and the sample the next one is compared with is of the round sampled now |
| `IntakeProofs`, scrims | `ScrimsTypeCorrect`, `CorrectionsForget` | `ScrimsInv`: the identity on show is a team of the league or a group and fits the names that were read; proved together with `DenialForgets` |
| `PartsProofs`, draft | `DraftTypeCorrect`, `EveryDraftIsLegal` | `DraftTypeOK` is inductive, and where it holds every line is legal: along a line each game adds one map that was free and one ban per side that its side could still make (`GameIsFair`, `LineFollows`). A map and a hero can be suggested because of finitely many things one leads (`BestOf`) |
| `PartsProofs`, bracket | `PlacesAreKept` | `RowsInv`: the rows keep their types. A match that is through stays as it is, so once the first round is drawn a group of losers on the table is the same group later |
| `PartsProofs`, queues | `QueuesAlwaysAgree`, `RunsAlwaysWhatIsShown`, `OffersAreAlwaysFresh`, `PagesAndBotAgree` | No steps: the readings of one feed are compared, under `IsFeed` (finitely many games, days and wipes between 0 and 98, as 99 stands for none, and a club plays in one region), `IsBacklog` and `IsSite`. A list in order takes from a set the same beginning whichever filter is applied first, and the pages of a site are read up to one place for good |
| `PartsProofs`, feed of the day | `FeedsAreAsTold` | `FeedInv`, along any sequence of events: the day of the local feed is not after that of git, nor that after today; while a refresh is pending a look is due; and what was called done or fresh today is of today |
| `PartsProofs`, import | `ImportsAreFair` | `SoFar`, along any sequence of looks: while the diagnosis asks, no look has condemned the import, nothing was clicked, and the text kept is the one read last; what ends it is a look that says so |
| `PartsProofs`, segments | `SwapsAreSeenTwice` | `SegmentsInv`, along any reads in order of time: what waits is the last read or nothing, each read lies in a segment of the hero that two reads in a row said last before or at it, and the segments begin one after another, each of another hero and, after the first, seen twice |
| `CountsProofs`, season | `SeasonsAgree` | No steps: under `IsSeason` (matches and maps told apart by their numbers, finitely many, two teams on every map played, captures of the rostered) a player's games are, one for one, the maps a roster names the player in (`GamesAre`). What a record counts by map, mode or spell are classes of these, apart from each other, so the sums are their number (`SumOfClasses`), and each class is inside that of the team (`InsideClasses`). A list by a strict order of finitely many has each once (`Listed`) |
| `CountsProofs`, league | `EveryMatchIsFound`, `TablesAlwaysAgree` | Under `IsLeague` (a season, and teams by names that no player and no hero has, as the search tells them apart by the name alone). Comps, win rates and tiles count pairs of a team and a map; each is a set of such pairs inside another one. A pool counts pairs of a player and a map, which are pairs of a team and a map one for one where no two of a team play a hero |
| `CountsProofs`, scout | `CapturesAlwaysSpeakTrue` | Under `IsScouted` (lineups and plans of known heroes, a game at least, a round for every captured team). The anchors of the first games determine the next one (`AnchorsExist`), so the newest game anchors all that share its comp, and the largest cluster is no smaller. Two heroes that are each in six of ten games meet in one, as two such sets are too large to be apart. What counter-scout asks for is the most that any game had, three at most. A hero that is 1.3 times the field in every team would be above the sum it is part of (`SumScales`), and of one seat's two heroes one backs up the other |
| `CountsProofs`, sheet | `SheetsAgree`, `FieldsAreFair` | Under `AreDrafts` (finitely many matches, a team's told apart by when they were, and one ban of a team on a map). The window is the first places of a list in order (`WindowIs`, `Enumerated`). With one ban of a team on a map the tally of first bans found, of all bans and of bans by map count the same maps (`BansAre`, `GlanceCounts`, `BansByMap`), so the four greatest of one are the four greatest of the other, and a most common opener is among them. Were every map worth listing no worse than the listed one, the rounded mean would be no more than its rounded rate (`RatesRound`, `WorstHasBetter`). Two heroes that each open six games of ten open one together. The field is the sum of its teams, and summed over them a share that is half as much again for each would be more than the whole (`TeamsMakeTheField`, `NotMoreByAll`). What the glance card's league share lacks of a team's bans is no ban of the regular season (`LackedInPlayoffs`); without playoffs the two fields are one, and 1.6 times a share of it is more than half as much again (`SignatureIsMore`) |
| `CountsProofs`, players | `PlayersAlwaysFair` | Under `IsDivision` (rows with known roles and whole numbers). A stat's scores in a group sum to nothing or less, as each is rounded down and their exact values cancel (`ScoresAre`); summed over players and stats in either order (`SumsSwap`) not all of a group can be above it (`SomebodyBelow`). The scores go up with the stat and a mean goes up with its terms (`NoBetterNoHigher`). The comparison of `rankPlayers` is a strict total order on any rows, the unknown last (`ByValueIs`), so two tables that give a pair the same values give it the same order; and the seats are classes apart, one to a player who has one (`SeatIs`, `SumOfClasses`) |
| `CountsProofs`, Elo, merged rows, comparison | `EloAlwaysMoves`, `MergesAreFair`, `ComparisonsAreEven` | `EloInv`, along any sequence of matches: both sums are the teams' times 1500, who played only walkovers has 1500 by maps, who did not lose is at 1500 or above and who did not win at 1500 or below; a match keeps it because the two expectations add up to one (`BothMove`, `MatchMoves`). A weighted mean lies between the least and the greatest of what it is of (`WeightedLies`), rounding keeps that, and a sum is the same in any order (`SumMoves`, `MergedMoves`). An axis divides by one cap on both sides, and the quotient goes up with the value (`QuotientsRise`, `AxisEndIs`) |
| `PartsProofs`, season, sheet and ratings | `SeasonIsCountedAlike`, `SheetsAlwaysAddUp`, `RatingsAreAlwaysFair` | The three properties of `parts`, each for all of its parts, from the theorems of `CountsProofs` |

Why strengthening is needed: none of the properties is inductive. `TriesBounded`
does not know that the entry in memory is the one on disk; `SiteSpec` speaks of the
push alone; `CrawlIsComplete` of championships that are through; `FileIsTheOwners` of
two versions of a file, while the record that decides lags behind both. The inductive
invariants were checked by TLC before they were proved.

The theorems about tries, captures, lost maps and the stack assume that no file is
torn (`"torn" \notin Faults`). With a torn file they are false, since `readJson`
takes an unreadable file for an empty one (`run.js:317`); the hazard is listed.
`RecordsAreRight` needs no such assumption; it assumes that the probes answer and
that no replay draws after the bot stopped waiting (faults `probe` and `late`
absent), which the league run leaves out as well. `FramesAreKept` is for a server
that is not pinned to one session (`Pinned = 0`), as the run has it.

Two refinements are proved. `SiteImplemented`: `SiteBuild` extends `Site`, so the
mapping is the identity on `tree`, `feed` and `page`; each step is a step of `Site` or
leaves the three alone. `RoomImplementsClaims`: under the mapping of `ClaimRoom` every
event, from whichever side of hibernation, is a step of `Claims` or none.

The parts of `MCParts` that are functions have no steps to induct over, but some of them
walk along a sequence of any length. There the walk is a recursive function, its
existence is proved once (`Stepwise`), and what holds along it follows from a least
counterexample (`LeastOf`, `Reached`). `ImportsAreFair` and `SwapsAreSeenTwice` are each
a part of an invariant of `parts` (`PlayedAsRecorded`, `ShippedIsConfirmed`), whose
other parts are checked only. `QueuesAgree` is proved whole: `PagesAndBotAgree` states
all four parts of it, the fourth being `FeedsAreAsTold`. So is `SeasonAgrees`:
`SeasonIsCountedAlike` puts `SeasonsAgree`, for the part `season`, and the two theorems
about `League` together; `SheetAddsUp`: `SheetsAlwaysAddUp`, from the theorems about
`Sheet` and `CapturesAlwaysSpeakTrue`; and `RatingsAreFair`: `RatingsAreAlwaysFair`,
from the four about `Ratings`. The proof about the sheet showed two places where the
model was not the code: the window reaches fifteen matches or as many as the team has,
not fifteen; and the three bans the glance card keeps beside the opener are three of the
four it would have shown. The proof about the comparison showed a link no run had tried:
one to a team the division does not have, against the first team it has, compares that
team with itself (section 6). That the inputs TLC takes are inputs the theorems speak of
is `SamplesAssumption` of `MCParts`.

Sums and folds over sets are recursive functions too. `SumsExist` and `SumsAgree` show,
by a least counterexample, that there is one for every finite set and that its value
does not depend on the set it is defined over; from then on a sum grows by a term for
an element (`SumGrows`), and no proof opens it again. What `SwapsAreSeenTwice` leaves to
TLC is the rest of the way to what is shipped: the vote before the reads and the
observations made of the segments.

Only model-checked: liveness (`StopEnds`, `RunEnds`, `EveryCodeComesAround`,
`StaleIsPruned`, `UploadsReachSite`, `MatchesReachSite`, `CatchesUp`,
`CodesArrive`), because the prover has no fairness; the functions that fold over
sequences with more than a sum to carry (`Timeline`, `Resolve` apart from its
segments, `Reprocess`, `Attribute`, the chunks of `Recorder`, and `Boards`);
`Pages`; and, of `PlacementsStand`, that every team has a place in the end and that
the bracket shows every match.

## 6. Findings

* `run_stop`: `/stop` answers "stopping after the current map", but `run.js`
  deletes the flag at the end of its start-up; a stop accepted before that is lost.
* `run_retired`: the set of codes retired for a run is read and never written
  (`run.js:766`), so a code that failed three times after its import is taken again at its
  next turn, against `ARCHITECTURE.md:2187-2190`, the comment at `run.js:247` and the log.
* `run_retry_lost`: what `/failures/retry` deletes while a run is active comes back
  with the run's next write of its own copy of the ledger.
* `room_drop`: "a dropped socket frees that scout's maps at once" fails when the
  socket closes while the object hibernates.
* `sync_just_stored`: the twelve hours in which a match without a replay code is looked at
  again count from when it finished (`db.py:223`), not from when it was stored, as
  `ARCHITECTURE.md:234` and `update.yml:133` say; a match first seen later gets no second
  look.
* `glance`: the glance card counts a team's bans with the playoffs and the league's without
  (`app.js:1617-1625`), although the two are said to line up (`app.js:1614`, and `app.js:248`
  of the same comparison on the tendencies). A ban of the bracket shows "league 0%", and the
  second one is called the team's signature.
* `refresh_twice`: the write and read back of `/refresh` is no lock; two requests
  that read the same stale time can both dispatch.
* `links`: `hashDispatch` sets the value of an element the page does not have, so a
  link to a team, a match or a pair of teams, and a step back to one, throws before the
  screen is drawn.
* `host_night`: a host that dies over a request leaves the request's timer armed. When
  it fires and no request is current, the exception ends the run; when one is, that one
  is rejected.

`PROJECT.json` quotes the lines. One more disagreement has no run of its own:
`renderCompare` replaces a first team the division does not have by the division's first
and keeps the second (`app.js:1189-1197`, `3273-3276`), so a link to a team that is gone
and the division's first team draws that team against itself, where the router promises
"never a guess" (`app.js:3262-3263`). `CompareIsEven` leaves just those links out.
Hazards without a property, with the reason, are listed there too.

## 7. Not modelled, and what comes next

Not modelled:

* the arithmetic on images (`crop.js`, `match.js`, `segment.js`, `calib.js`, the
  calibration of the capture page): numeric, and its answers enter the models as
  choices;
* the Python export: a function of one database, whose result the dashboard's models
  take as their season;
* desktop capture and the wizard of the capture page: interactive tools with one user
  and no state shared but what `Upload` and `ClaimRoom` take from them;
* Discord login: request and response over one key; the page's side of the claims
  (reconnect, heartbeat, the claim that corrects itself after three seconds): its
  messages come in any order instead;
* in the host, the error event of a pipe that is written to after its process died, and
  what a killed process had still in the pipe; neither is in what `host.js` says of it;
* how a match is taken apart (`extract_bundle`), and the crawl with an API key;
* `mapCoverage`, `capturableTeams`, `matchLiveTodo` and `zeroCaptureTeams` of
  `pure.js`, which no page calls;
* one-shot tools.

Next, in order of weight:

1. Proofs: that ticks read wrong make no round; that the observations made of confirmed
   segments ship just them, as corrected; that a whole bracket gives every team one place.
2. The page's side of the claim room as an actor, with its three-second correction,
   and the liveness of a claim.
3. `extract_bundle`: reconciling veto slots, played maps and replay codes, against what
   a match was, with the attribution a re-fetch can lose.
4. The crawl with an API key and with placeholders.
