----------------------------- MODULE SiteBuild -----------------------------
(***************************************************************************)
(* .github/workflows/update.yml and what triggers it: uploads committed by *)
(* the worker, the curator's pushes, the two daily crons, and dispatches   *)
(* by hand or by the worker's /refresh (module Refresh).                   *)
(*                                                                         *)
(* The concurrency group runs one job and keeps one pending; a newer       *)
(* pending replaces an older.  A job checks out the commit it was          *)
(* triggered at, restores the newest database cache, fetches if its kind   *)
(* fetches, merges and exports, saves the cache whatever happened, and     *)
(* pushes without a rebase.  The bot's own push triggers nothing.          *)
(***************************************************************************)
EXTENDS Site

CONSTANTS
    MaxEdits,       \* bound: commits by anyone but the bot
    MaxTrouble,     \* bound: failures of any kind
    Faults          \* which failures are possible

ASSUME BuildAssumption ==
    /\ None \notin Nat
    /\ MaxEdits \in Nat /\ MaxTrouble \in Nat
    /\ Faults \subseteq {"fetch", "build", "runner", "evict"}

VARIABLES
    run,            \* the job in progress, or None
    pending,        \* the job waiting for the group, or None
    step,           \* the job's step
    db,             \* the job's database: batches of matches, or None
    built,          \* the job's docs/index.html
    cache,          \* the newest saved database, or None
    edits, trouble, \* counters for the bounds
    lost,           \* history: a job that carried the head of main came to nothing
    gap             \* history: since the last publish a missing database was
                    \* rebuilt by a fetch with errors

jobVars == <<run, pending, step, db, built>>
historyVars == <<lost, gap>>
vars == <<siteVars, jobVars, cache, edits, trouble, historyVars>>

\* A job keeps the commit it was triggered at; "behind" says main has moved on.
\* The cron of 9pm and a dispatch are one kind: the workflow treats them alike,
\* but for the gate, which that cron passes and a dispatch skips.
Kinds == {"push", "fetch", "shadow"}
Job == [kind : Kinds, tree : Tree, behind : BOOLEAN]
Database == 0..MaxFeed \cup {None}

ASSUME NoJobIsNone == None \notin Job

TypeOK ==
    /\ tree \in Tree /\ page \in Page /\ feed \in 1..MaxFeed
    /\ run \in Job \cup {None} /\ pending \in Job \cup {None}
    /\ pending # None => run # None
    /\ step \in {"gate", "build", "save", "saveFailed", "publish"}
    /\ db \in Database /\ cache \in Database /\ built \in Page
    /\ edits \in 0..MaxEdits /\ trouble \in 0..MaxTrouble
    /\ lost \in BOOLEAN /\ gap \in BOOLEAN

-----------------------------------------------------------------------------
(* The concurrency group.                                                  *)

FreshRunner == step' = "gate" /\ db' = None /\ built' = NoPage

\* Mutants of Admit, which keeps the job that waits already, and of Leave, which
\* does not start it.
AdmitFirst(job, r) ==
    IF r = None
    THEN run' = job /\ pending' = None /\ FreshRunner
    ELSE /\ run' = r /\ pending' = (IF pending = None THEN job ELSE pending)
         /\ UNCHANGED <<step, db, built>>
LeaveEmpty(next) == run' = None /\ UNCHANGED pending /\ FreshRunner

\* A new job, beside the one in progress: it runs, or takes the waiting place.
Admit(job, r) ==
    IF r = None
    THEN run' = job /\ pending' = None /\ FreshRunner
    ELSE run' = r /\ pending' = job /\ UNCHANGED <<step, db, built>>

\* The job leaves and the waiting one starts.
Leave(next) == run' = next /\ pending' = None /\ FreshRunner

\* Main moves under a job.
Outrun(job) == IF job = None THEN None ELSE [job EXCEPT !.behind = TRUE]

\* The job that would publish the head of main.
Carries(job) ==
    job # None /\ job.kind # "shadow" /\ job.tree = tree /\ ~ job.behind

\* A commit outruns the jobs there are; one that touches a path of the push
\* filter triggers a job of its own.
Commit(triggers) ==
    /\ edits < MaxEdits /\ edits' = edits + 1
    /\ IF triggers
       THEN Admit([kind |-> "push", tree |-> tree', behind |-> FALSE], Outrun(run))
       ELSE run' = Outrun(run) /\ pending' = Outrun(pending) /\ UNCHANGED <<step, db, built>>

Trouble(fault) == fault \in Faults /\ trouble < MaxTrouble /\ trouble' = trouble + 1

-----------------------------------------------------------------------------
(* What triggers jobs.                                                     *)

Init ==
    /\ SiteInit
    /\ run = None /\ pending = None /\ step = "gate" /\ db = None /\ built = NoPage
    /\ cache = None /\ edits = 0 /\ trouble = 0 /\ lost = FALSE /\ gap = FALSE

MatchesFinish ==
    FeedGrows /\ UNCHANGED <<jobVars, cache, edits, trouble, historyVars>>

\* The worker's PUT to the contents API.
Upload(a, view) ==
    /\ PutFile(a, view) /\ Commit(TRUE)
    /\ UNCHANGED <<cache, trouble, historyVars>>

\* overrides.json lies under data/captures too.
Override(c) ==
    /\ Curate(c) /\ Commit(TRUE)
    /\ UNCHANGED <<cache, trouble, historyVars>>

\* A push outside the filter: documents, tests, the worker.
PushElsewhere ==
    /\ Commit(FALSE)
    /\ lost' = (lost \/ Carries(run) \/ Carries(pending))
    /\ UNCHANGED <<siteVars, cache, trouble, gap>>

TriggerAtHead(kind) == Admit([kind |-> kind, tree |-> tree, behind |-> FALSE], run)

\* The cron of 9pm in London, and the cron that is not.  A shadow job lasts
\* seconds: the next one, a day later, does not find it still there.
Nightly ==
    /\ TriggerAtHead("fetch")
    /\ UNCHANGED <<siteVars, cache, edits, trouble, historyVars>>

ShadowCron ==
    /\ ~ (run # None /\ run.kind = "shadow")
    /\ TriggerAtHead("shadow")
    /\ lost' = (lost \/ Carries(pending))
    /\ UNCHANGED <<siteVars, cache, edits, trouble, gap>>

\* The worker's repository_dispatch ("Refresh now"), and the Actions tab.
Dispatch ==
    /\ TriggerAtHead("fetch")
    /\ UNCHANGED <<siteVars, cache, edits, trouble, historyVars>>

-----------------------------------------------------------------------------
(* The job.                                                                *)

\* Mutants: the gate of the past bug, which no cron passed some days; one cache key
\* for all runs, which is never written again; only a missing database makes a
\* job fetch; pull --rebase before the push.
GateMissed(kind) == kind = "push"
SavedOnce == IF cache = None THEN db ELSE cache
FetchesOnce(kind) == db = None
RebasedPush == TRUE

GateOpen(kind) == kind # "shadow"

\* Each run saves under a key of its own; restoring by prefix finds the newest.
Saved == db

\* DO_FETCH: by kind, or because there is no database.
Fetches(kind) == kind = "fetch" \/ db = None

\* git push is refused unless main is still at the commit the job checked out.
PushAccepted == ~ run.behind

\* The shadow cron stops at the gate; any other job checks out its commit and
\* restores the newest cache.
Gate ==
    /\ run # None /\ step = "gate"
    /\ IF GateOpen(run.kind)
       THEN step' = "build" /\ db' = cache /\ UNCHANGED <<run, pending, built>>
       ELSE Leave(pending)
    /\ UNCHANGED <<siteVars, cache, edits, trouble, historyVars>>

Held == IF db = None THEN 0 ELSE db

\* Merge, export and the capture feed, from the commit and the fetched database.
Build ==
    /\ run # None /\ step = "build"
    /\ LET got == IF Fetches(run.kind) THEN feed ELSE db
       IN  db' = got /\ built' = PageOf(run.tree, got)
    /\ step' = "save"
    /\ UNCHANGED <<siteVars, run, pending, cache, edits, trouble, historyVars>>

\* Fetch errors are tolerated: whatever was ingested goes into the page.
BuildOnPart ==
    /\ run # None /\ step = "build" /\ Fetches(run.kind) /\ Trouble("fetch")
    /\ \E got \in Held..feed - 1 : db' = got /\ built' = PageOf(run.tree, got)
    /\ gap' = (gap \/ db = None)
    /\ step' = "save"
    /\ UNCHANGED <<siteVars, run, pending, cache, edits, lost>>

\* An error of the merge, the export or the capture feed fails the job.
BuildFails ==
    /\ run # None /\ step = "build" /\ Trouble("build")
    /\ db' = IF Fetches(run.kind) THEN feed ELSE db
    /\ step' = "saveFailed" /\ lost' = (lost \/ Carries(run))
    /\ UNCHANGED <<siteVars, run, pending, built, cache, edits, gap>>

\* "if: always()": a failed job saves its database too, and then leaves.
SaveCache ==
    /\ run # None /\ step \in {"save", "saveFailed"}
    /\ cache' = Saved
    /\ IF step = "save"
       THEN step' = "publish" /\ UNCHANGED <<run, pending, db, built>>
       ELSE Leave(pending)
    /\ UNCHANGED <<siteVars, edits, trouble, historyVars>>

\* Every build differs from the last (data.json carries its time), so there is
\* always a commit, which moves main under the waiting job.
Publish ==
    /\ run # None /\ step = "publish" /\ PushAccepted
    /\ page' = built
    /\ Leave(Outrun(pending))
    /\ lost' = FALSE /\ gap' = FALSE
    /\ UNCHANGED <<tree, feed, cache, edits, trouble>>

PushRejected ==
    /\ run # None /\ step = "publish" /\ ~ PushAccepted
    /\ Leave(pending)
    /\ UNCHANGED <<siteVars, cache, edits, trouble, historyVars>>

\* The runner is lost with everything on it.
RunnerLost ==
    /\ run # None /\ Trouble("runner")
    /\ Leave(pending)
    /\ lost' = (lost \/ Carries(run))
    /\ UNCHANGED <<siteVars, cache, edits, gap>>

\* GitHub drops old caches.
CacheEvicted ==
    /\ cache # None /\ Trouble("evict")
    /\ cache' = None
    /\ UNCHANGED <<siteVars, jobVars, edits, historyVars>>

JobStep == Gate \/ Build \/ SaveCache \/ Publish \/ PushRejected

Next ==
    \/ MatchesFinish
    \/ \E a \in Accounts, v \in Views \ {"none"} : Upload(a, v)
    \/ \E c \in Accounts \cup {None, Excluded} : Override(c)
    \/ PushElsewhere
    \/ Nightly
    \/ ShadowCron
    \/ Dispatch
    \/ JobStep
    \/ BuildOnPart
    \/ BuildFails
    \/ RunnerLost
    \/ CacheEvicted

Spec == Init /\ [][Next]_vars

\* GitHub runs the jobs it admits and fires the nightly cron, late perhaps.
FairSpec == Spec /\ WF_vars(JobStep) /\ WF_vars(Nightly)

-----------------------------------------------------------------------------
\* The page shows something else than the merge of the files on main.
Stale == page # PageOf(tree, page.data)

\* A page the merge of the files on main would not give is on its way out: a job
\* that carries the head of main runs or waits, unless one already failed, was
\* replaced by the shadow cron, or was outrun by a push outside the filter
\* (update.yml:16-27 and 37-39).
NoUploadForgotten == Stale => lost \/ Carries(run) \/ Carries(pending)

\* The matches on the page never go back, except when the cache was gone and the
\* fetch that rebuilt it had errors (update.yml:120-129, "A cache miss
\* self-heals", against 162, "fetch errors are tolerated").
DataNeverGoesBack == [][page'.data < page.data => gap]_vars

\* Whatever fails, an upload that stays on main reaches the page.
UploadsReachSite == []<> ~ Stale
=============================================================================
