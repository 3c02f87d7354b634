----------------------------- MODULE SiteProofs -----------------------------
(***************************************************************************)
(* What holds of the published site for any contributors, and any number   *)
(* of commits and failures.                                                *)
(***************************************************************************)
EXTENDS SiteBuild, TLAPS, WellFoundedInduction

\* Every file of a commit has its place in the order of submission.
Ordered(t) ==
    \A a \in Accounts : t.files[a] # "none" => \E i \in DOMAIN t.order : t.order[i] = a

\* A job that is not behind has the files of main.
JobAtHead(job) == job # None => Ordered(job.tree) /\ (~ job.behind => job.tree = tree)

\* What has been fetched is part of the feed.
KnownMatches ==
    /\ page.data <= feed
    /\ cache # None => cache <= feed
    /\ db # None => db <= feed

\* What a job past its build holds is the merge of its own commit.
BuiltFromCommit ==
    run # None =>
        /\ step \in {"save", "saveFailed", "publish"} => db # None
        /\ step \in {"save", "publish"} => built = PageOf(run.tree, db)

\* SiteSpec speaks of the push only: that the page pushed is the merge of main
\* needs what the job was built from, and that a job not behind is at the head.
BuildInv == TypeOK /\ Ordered(tree) /\ JobAtHead(run) /\ JobAtHead(pending)
            /\ KnownMatches /\ BuiltFromCommit

\* A failed job that carried the head has been counted as lost.
FailureCounted == run # None /\ step = "saveFailed" /\ Carries(run) => lost

UploadInv == NoUploadForgotten /\ FailureCounted

\* A database is as new as the page, unless a fetch with errors made it; what a
\* job publishes, it has saved.
DataInv ==
    /\ ~ gap => /\ cache # None => page.data <= cache
                /\ run # None /\ db # None => page.data <= db
    /\ run # None /\ step = "publish" /\ cache # None => cache = db

-----------------------------------------------------------------------------
(* The merge.                                                              *)

LEMMA LeastOf ==
    ASSUME NEW S, S \subseteq Nat, S # {}
    PROVE  \E i \in S : \A j \in S : i <= j
<1>1. PICK i \in S : \A j \in S : ~ (<<j, i>> \in OpToRel(<, Nat))
  BY NatLessThanWellFounded, WFMin, Zenon
<1>2. \A j \in S : ~ (j < i)
  BY <1>1 DEF OpToRel
<1> QED BY <1>2

\* The earliest of some contributors is one of them.
LEMMA EarliestOf ==
    ASSUME NEW t \in Tree, Ordered(t), NEW S \in SUBSET Accounts, S # {},
           \A a \in S : t.files[a] # "none"
    PROVE  Earliest(t, S) \in S
<1> DEFINE Places == {i \in DOMAIN t.order : t.order[i] \in S}
           First == {i \in DOMAIN t.order :
                       /\ t.order[i] \in S
                       /\ \A j \in DOMAIN t.order : t.order[j] \in S => i <= j}
<1>1. t.order \in Seq(Accounts) /\ DOMAIN t.order \subseteq Nat
  BY DEF Tree
<1>2. Places \subseteq Nat /\ Places # {}
  BY <1>1 DEF Ordered
<1>3. First # {}
  BY <1>2, LeastOf
<1>4. (CHOOSE i \in First : TRUE) \in First
  BY <1>3
<1>5. Earliest(t, S) = t.order[CHOOSE i \in First : TRUE]
  BY DEF Earliest
<1> QED BY <1>4, <1>5

\* The merge gives a page, with the database it was given.
LEMMA PageOfIsPage ==
    ASSUME NEW t \in Tree, Ordered(t), NEW d \in Nat
    PROVE  PageOf(t, d) \in Page /\ PageOf(t, d).data = d
<1>1. \A S \in SUBSET Viewers(t, d) : S # {} => Earliest(t, S) \in Viewers(t, d)
  BY EarliestOf DEF Viewers, Valid
<1>2. VerifiedViewers(t, d) \in SUBSET Viewers(t, d)
  BY DEF VerifiedViewers
<1>3. OwnerOf(t, d) \in Viewers(t, d) \cup {None}
  BY <1>1, <1>2 DEF OwnerOf
<1>4. OwnerOf(t, d) \in Accounts \cup {None}
      /\ (OwnerOf(t, d) # None => t.files[OwnerOf(t, d)] \in Views)
  BY <1>3 DEF Viewers, Tree
<1> QED BY <1>4 DEF PageOf, Page, Views

\* An upload keeps the order of submission.
LEMMA PutFileOrders ==
    ASSUME tree \in Tree, Ordered(tree), NEW a \in Accounts, NEW v \in Views \ {"none"},
           PutFile(a, v)
    PROVE  tree' \in Tree /\ Ordered(tree')
<1>1. tree'.files = [tree.files EXCEPT ![a] = v] /\ tree'.curated = tree.curated
      /\ tree'.order = (IF tree.files[a] = "none" THEN Append(tree.order, a) ELSE tree.order)
      /\ tree' = [files |-> tree'.files, order |-> tree'.order, curated |-> tree'.curated]
  BY DEF PutFile, Tree
<1>2. tree.order \in Seq(Accounts) /\ tree.files \in [Accounts -> Views]
  BY DEF Tree
<1>3. tree' \in Tree
  BY <1>1, <1>2 DEF Tree
<1>4. ASSUME NEW b \in Accounts, tree'.files[b] # "none"
      PROVE  \E i \in DOMAIN tree'.order : tree'.order[i] = b
  <2>1. CASE tree.files[b] # "none"
    <3>1. PICK i \in DOMAIN tree.order : tree.order[i] = b
      BY <2>1 DEF Ordered
    <3>2. i \in DOMAIN tree'.order /\ tree'.order[i] = b
      BY <1>1, <1>2, <3>1
    <3> QED BY <3>2
  <2>2. CASE tree.files[b] = "none"
    <3>1. b = a
      BY <1>1, <1>2, <1>4, <2>2
    <3>2. tree'.order = Append(tree.order, a)
      BY <1>1, <2>2, <3>1
    <3>3. Len(tree.order) + 1 \in DOMAIN tree'.order /\ tree'.order[Len(tree.order) + 1] = a
      BY <1>2, <3>2
    <3> QED BY <3>1, <3>3
  <2> QED BY <2>1, <2>2
<1> QED BY <1>3, <1>4 DEF Ordered

LEMMA CurateOrders ==
    ASSUME tree \in Tree, Ordered(tree), NEW c \in Accounts \cup {None, Excluded}, Curate(c)
    PROVE  tree' \in Tree /\ Ordered(tree')
  BY DEF Curate, Tree, Ordered

-----------------------------------------------------------------------------
(* The concurrency group.  Each fact says what becomes of the two jobs.    *)

LEMMA OutrunFacts ==
    ASSUME NEW job \in Job \cup {None}, JobAtHead(job)
    PROVE  /\ Outrun(job) \in Job \cup {None}
           /\ Outrun(job) = None <=> job = None
           /\ Outrun(job) # None => /\ Outrun(job).behind
                                    /\ Outrun(job).tree = job.tree
                                    /\ Outrun(job).kind = job.kind
                                    /\ Ordered(Outrun(job).tree)
<1>1. CASE job = None
  BY <1>1 DEF Outrun
<1>2. CASE job # None
  <2>1. job \in Job
    BY <1>2
  <2>2. [job EXCEPT !.behind = TRUE] \in Job
    BY <2>1 DEF Job
  <2> QED BY <1>2, <2>1, <2>2, NoJobIsNone DEF Outrun, JobAtHead, Job
<1> QED BY <1>1, <1>2

\* The jobs stay jobs, and those not behind stay at the head.
JobsKept == /\ run' \in Job \cup {None} /\ pending' \in Job \cup {None}
            /\ pending' # None => run' # None
            /\ step' \in {"gate", "build", "save", "saveFailed", "publish"}
            /\ JobAtHead(run)' /\ JobAtHead(pending)'

LEMMA FreshFacts ==
    ASSUME FreshRunner
    PROVE  step' = "gate" /\ db' = None /\ db' \in Database /\ built' \in Page
  BY DEF FreshRunner, Database, NoPage, Page, Views

\* A commit by anyone but the bot.
LEMMA CommitKeeps ==
    ASSUME BuildInv, tree' \in Tree, Ordered(tree'), NEW triggers \in BOOLEAN,
           Commit(triggers), ~ triggers => tree' = tree
    PROVE  /\ JobsKept /\ edits' \in 0..MaxEdits
           /\ \/ /\ UNCHANGED <<step, db, built>> /\ (run = None <=> run' = None)
                 /\ run # None => run'.tree = run.tree /\ run'.behind
              \/ FreshRunner
           /\ triggers => Carries(run)' \/ Carries(pending)'
<1>1. run \in Job \cup {None} /\ pending \in Job \cup {None}
      /\ JobAtHead(run) /\ JobAtHead(pending) /\ (pending # None => run # None)
      /\ edits \in 0..MaxEdits
      /\ step \in {"gate", "build", "save", "saveFailed", "publish"}
  BY DEF BuildInv, TypeOK
<1>2. edits' \in 0..MaxEdits
  BY <1>1, BuildAssumption DEF Commit
<1> DEFINE new == [kind |-> "push", tree |-> tree', behind |-> FALSE]
<1>3. new \in Job /\ new # None /\ new.kind = "push" /\ new.tree = tree' /\ ~ new.behind
  <2>1. new \in Job
    BY DEF Job, Kinds
  <2> QED BY <2>1, NoJobIsNone
<1> HIDE DEF new
<1>4. CASE triggers /\ run = None
  <2>1. run' = new /\ pending' = None /\ FreshRunner
    BY <1>4 DEF Commit, Admit, Outrun, new
  <2> QED BY <1>2, <1>3, <2>1, FreshFacts DEF JobsKept, JobAtHead, Carries
<1>5. CASE triggers /\ run # None
  <2>1. run' = Outrun(run) /\ pending' = new /\ UNCHANGED <<step, db, built>>
    BY <1>1, <1>5, OutrunFacts DEF Commit, Admit, new
  <2> QED BY <1>1, <1>2, <1>3, <1>5, <2>1, OutrunFacts DEF JobsKept, JobAtHead, Carries
<1>6. CASE ~ triggers
  <2>1. run' = Outrun(run) /\ pending' = Outrun(pending) /\ UNCHANGED <<step, db, built>>
    BY <1>6 DEF Commit
  <2> QED BY <1>1, <1>2, <1>6, <2>1, OutrunFacts DEF JobsKept, JobAtHead
<1> QED BY <1>4, <1>5, <1>6

\* A trigger at the head of main.
LEMMA TriggerKeeps ==
    ASSUME BuildInv, UNCHANGED tree, NEW kind \in Kinds, TriggerAtHead(kind)
    PROVE  /\ JobsKept
           /\ run # None => UNCHANGED <<run, step, db, built>>
           /\ run = None => run' # None /\ pending' = None /\ FreshRunner
           /\ kind # "shadow" => Carries(run)' \/ Carries(pending)'
<1>1. run \in Job \cup {None} /\ JobAtHead(run) /\ tree \in Tree /\ Ordered(tree)
      /\ step \in {"gate", "build", "save", "saveFailed", "publish"}
  BY DEF BuildInv, TypeOK
<1> DEFINE new == [kind |-> kind, tree |-> tree, behind |-> FALSE]
<1>2. new \in Job /\ new # None /\ new.kind = kind /\ new.tree = tree /\ ~ new.behind
  <2>1. new \in Job
    BY <1>1 DEF Job
  <2> QED BY <2>1, NoJobIsNone
<1> HIDE DEF new
<1>3. CASE run = None
  <2>1. run' = new /\ pending' = None /\ FreshRunner
    BY <1>3 DEF TriggerAtHead, Admit, new
  <2> QED BY <1>1, <1>2, <1>3, <2>1, FreshFacts DEF JobsKept, JobAtHead, Carries
<1>4. CASE run # None
  <2>1. run' = run /\ pending' = new /\ UNCHANGED <<step, db, built>>
    BY <1>4 DEF TriggerAtHead, Admit, new
  <2> QED BY <1>1, <1>2, <1>4, <2>1 DEF JobsKept, JobAtHead, Carries
<1> QED BY <1>3, <1>4

\* The job leaves the group.
LEMMA LeaveKeeps ==
    ASSUME BuildInv, UNCHANGED tree, NEW next \in {pending, Outrun(pending)}, Leave(next)
    PROVE  /\ JobsKept /\ FreshRunner /\ pending' = None
           /\ next = pending /\ Carries(pending) => Carries(run)'
<1>1. pending \in Job \cup {None} /\ JobAtHead(pending)
  BY DEF BuildInv, TypeOK
<1>2. run' = next /\ pending' = None /\ FreshRunner
  BY DEF Leave
<1>3. next \in Job \cup {None} /\ (next # None => Ordered(next.tree))
      /\ (next # None /\ ~ next.behind => next.tree = tree)
  BY <1>1, OutrunFacts DEF JobAtHead
<1> QED BY <1>2, <1>3, FreshFacts DEF JobsKept, JobAtHead, Carries

-----------------------------------------------------------------------------
(* The invariant of the workflow.                                          *)

LEMMA InitBuildInv == Init => BuildInv
<1> SUFFICES ASSUME Init PROVE BuildInv
  OBVIOUS
<1>1. NoTree \in Tree /\ Ordered(NoTree) /\ NoPage \in Page
  <2>1. <<>> \in Seq(Accounts)
    OBVIOUS
  <2> QED BY <2>1 DEF NoTree, Tree, Ordered, NoPage, Page, Views
<1>2. 1 \in 1..MaxFeed /\ 0 \in 0..MaxEdits /\ 0 \in 0..MaxTrouble /\ NoPage.data = 0
  BY SiteAssumption, BuildAssumption DEF NoPage
<1>3. /\ tree = NoTree /\ page = NoPage /\ feed = 1 /\ run = None /\ pending = None
      /\ step = "gate" /\ db = None /\ cache = None /\ built = NoPage
      /\ edits = 0 /\ trouble = 0 /\ lost = FALSE /\ gap = FALSE
  BY DEF Init, SiteInit
<1>4. TypeOK
  BY <1>1, <1>2, <1>3 DEF TypeOK, Database
<1>5. Ordered(tree) /\ JobAtHead(run) /\ JobAtHead(pending)
  BY <1>1, <1>3 DEF JobAtHead
<1>6. KnownMatches /\ BuiltFromCommit
  BY <1>2, <1>3 DEF KnownMatches, BuiltFromCommit
<1> QED BY <1>4, <1>5, <1>6 DEF BuildInv

LEMMA NextBuildInv == BuildInv /\ [Next]_vars => BuildInv'
<1> SUFFICES ASSUME BuildInv, [Next]_vars PROVE BuildInv'
  OBVIOUS
<1>t. TypeOK /\ KnownMatches /\ BuiltFromCommit /\ Ordered(tree) /\ JobAtHead(run)
      /\ JobAtHead(pending)
  BY DEF BuildInv
<1>n. None \notin Nat /\ MaxEdits \in Nat /\ MaxTrouble \in Nat /\ MaxFeed \in Nat \ {0}
  BY SiteAssumption, BuildAssumption
<1>a. ASSUME JobsKept, tree' \in Tree, Ordered(tree'), page' \in Page, feed' \in 1..MaxFeed,
             db' \in Database, cache' \in Database, built' \in Page,
             edits' \in 0..MaxEdits, trouble' \in 0..MaxTrouble,
             lost' \in BOOLEAN, gap' \in BOOLEAN, KnownMatches', BuiltFromCommit'
      PROVE  BuildInv'
  BY <1>a DEF BuildInv, TypeOK, JobsKept
\* A step that leaves the jobs where they are, or the runner empty.
<1>b. ASSUME UNCHANGED <<run, pending, tree>>, step' \in {"gate", "build", "save", "saveFailed", "publish"}
      PROVE  JobsKept
  BY <1>b, <1>t DEF JobsKept, TypeOK, JobAtHead
<1>c. ASSUME FreshRunner PROVE BuiltFromCommit' /\ db' \in Database /\ built' \in Page /\ db' = None
  BY <1>c, FreshFacts DEF BuiltFromCommit
<1>d. ASSUME NEW fault, Trouble(fault) PROVE trouble' \in 0..MaxTrouble
  BY <1>d, <1>t, <1>n DEF Trouble, TypeOK
<1>e. \A d \in 0..MaxFeed : d \in Database /\ d # None /\ d \in Nat
  BY <1>n DEF Database
<1>f. db # None => db \in 0..MaxFeed
  BY <1>t DEF TypeOK, Database
<1>g. ASSUME run # None, NEW d \in 0..MaxFeed
      PROVE  PageOf(run.tree, d) \in Page /\ PageOf(run.tree, d).data = d
  <2>1. run.tree \in Tree /\ Ordered(run.tree)
    BY <1>g, <1>t DEF TypeOK, Job, JobAtHead
  <2> QED BY <2>1, <1>e, PageOfIsPage
<1>1. CASE MatchesFinish
  <2>1. JobsKept
    BY <1>1, <1>b, <1>t DEF MatchesFinish, FeedGrows, jobVars, TypeOK
  <2>2. feed' \in 1..MaxFeed /\ feed' > feed
    BY <1>1, <1>t, <1>n DEF MatchesFinish, FeedGrows, TypeOK
  <2>3. KnownMatches'
    BY <1>1, <1>t, <1>n, <1>f, <2>2 DEF MatchesFinish, FeedGrows, KnownMatches, TypeOK, Page,
       Database, jobVars
  <2> QED
    BY <1>1, <1>a, <1>t, <2>1, <2>2, <2>3 DEF MatchesFinish, FeedGrows, jobVars, historyVars,
       TypeOK, BuiltFromCommit
\* The three kinds of commit.
<1>h. ASSUME NEW triggers \in BOOLEAN, Commit(triggers), tree' \in Tree, Ordered(tree'),
             ~ triggers => tree' = tree, UNCHANGED <<feed, page, cache, trouble, gap>>,
             lost' \in BOOLEAN
      PROVE  BuildInv'
  <2>1. /\ JobsKept /\ edits' \in 0..MaxEdits
        /\ \/ /\ UNCHANGED <<step, db, built>> /\ (run = None <=> run' = None)
              /\ run # None => run'.tree = run.tree /\ run'.behind
           \/ FreshRunner
    BY <1>h, CommitKeeps
  <2>2. BuiltFromCommit' /\ db' \in Database /\ built' \in Page /\ (db' = db \/ db' = None)
    BY <2>1, <1>c, <1>t DEF BuiltFromCommit, TypeOK
  <2>3. KnownMatches'
    BY <1>h, <2>2, <1>t DEF KnownMatches
  <2> QED BY <1>h, <1>a, <1>t, <2>1, <2>2, <2>3 DEF TypeOK
<1>2. ASSUME NEW u \in Accounts, NEW v \in Views \ {"none"}, Upload(u, v) PROVE BuildInv'
  <2>1. tree' \in Tree /\ Ordered(tree')
    BY <1>2, <1>t, PutFileOrders DEF Upload, TypeOK
  <2> QED BY <1>2, <1>h, <1>t, <2>1 DEF Upload, PutFile, historyVars, TypeOK
<1>3. ASSUME NEW c \in Accounts \cup {None, Excluded}, Override(c) PROVE BuildInv'
  <2>1. tree' \in Tree /\ Ordered(tree')
    BY <1>3, <1>t, CurateOrders DEF Override, TypeOK
  <2> QED BY <1>3, <1>h, <1>t, <2>1 DEF Override, Curate, historyVars, TypeOK
<1>4. CASE PushElsewhere
  BY <1>4, <1>h, <1>t DEF PushElsewhere, siteVars, TypeOK, Carries
\* The triggers at the head.
<1>i. ASSUME NEW kind \in Kinds, TriggerAtHead(kind), UNCHANGED <<siteVars, cache, edits, trouble, gap>>,
             lost' \in BOOLEAN
      PROVE  BuildInv'
  <2>1. /\ JobsKept
        /\ run # None => UNCHANGED <<run, step, db, built>>
        /\ run = None => run' # None /\ pending' = None /\ FreshRunner
    BY <1>i, TriggerKeeps DEF siteVars
  <2>2. BuiltFromCommit' /\ db' \in Database /\ built' \in Page /\ (db' = db \/ db' = None)
    BY <2>1, <1>c, <1>t DEF BuiltFromCommit, TypeOK
  <2>3. KnownMatches'
    BY <1>i, <2>2, <1>t DEF KnownMatches, siteVars
  <2>4. Ordered(tree')
    BY <1>i, <1>t DEF siteVars
  <2> QED BY <1>i, <1>a, <1>t, <2>1, <2>2, <2>3, <2>4 DEF TypeOK, siteVars
<1>5. CASE Nightly
  BY <1>5, <1>i, <1>t DEF Nightly, Kinds, historyVars, TypeOK
<1>6. CASE ShadowCron
  BY <1>6, <1>i, <1>t DEF ShadowCron, Kinds, TypeOK, Carries
<1>7. CASE Dispatch
  BY <1>7, <1>i, <1>t DEF Dispatch, Kinds, historyVars, TypeOK
\* The job leaves.
<1>j. ASSUME NEW next \in {pending, Outrun(pending)}, Leave(next), UNCHANGED <<tree, feed, edits>>,
             page' \in Page, page'.data <= feed,
             cache' \in Database, cache' # None => cache' <= feed,
             trouble' \in 0..MaxTrouble, lost' \in BOOLEAN, gap' \in BOOLEAN
      PROVE  BuildInv'
  <2>1. JobsKept /\ FreshRunner
    BY <1>j, LeaveKeeps
  <2>2. KnownMatches'
    BY <1>j, <2>1, <1>c DEF KnownMatches
  <2>3. Ordered(tree')
    BY <1>j, <1>t
  <2> QED BY <1>j, <1>a, <1>c, <1>t, <2>1, <2>2, <2>3 DEF TypeOK
<1>k. page \in Page /\ page.data <= feed /\ (cache # None => cache <= feed) /\ cache \in Database
      /\ lost \in BOOLEAN /\ gap \in BOOLEAN /\ trouble \in 0..MaxTrouble
  BY <1>t DEF TypeOK, KnownMatches
\* The job goes on, with a database and a page.
<1>l. ASSUME run # None, UNCHANGED <<siteVars, run, pending, edits>>,
             step' \in {"gate", "build", "save", "saveFailed", "publish"},
             db' \in Database, db' # None => db' <= feed, built' \in Page,
             cache' \in Database, cache' # None => cache' <= feed,
             trouble' \in 0..MaxTrouble, lost' \in BOOLEAN, gap' \in BOOLEAN, BuiltFromCommit'
      PROVE  BuildInv'
  <2>1. JobsKept
    BY <1>l, <1>b DEF siteVars
  <2>2. KnownMatches' /\ Ordered(tree')
    BY <1>l, <1>k, <1>t DEF KnownMatches, siteVars
  <2> QED BY <1>l, <1>a, <1>t, <2>1, <2>2 DEF TypeOK, siteVars
<1>8. CASE Gate
  <2>1. CASE GateOpen(run.kind)
    <3>1. run # None /\ step' = "build" /\ db' = cache
          /\ UNCHANGED <<siteVars, run, pending, built, cache, edits, trouble, lost, gap>>
      BY <1>8, <2>1 DEF Gate, historyVars
    <3> QED BY <3>1, <1>k, <1>l, <1>t DEF TypeOK, BuiltFromCommit
  <2>2. CASE ~ GateOpen(run.kind)
    BY <1>8, <2>2, <1>j, <1>k DEF Gate, siteVars, historyVars
  <2> QED BY <2>1, <2>2
<1>m. feed \in 0..MaxFeed
  BY <1>t, <1>n DEF TypeOK
\* What a build may have fetched.
<1>9. CASE Build
  <2> DEFINE got == IF Fetches(run.kind) THEN feed ELSE db
  <2>1. got \in 0..MaxFeed /\ got <= feed
    BY <1>m, <1>f, <1>t, <1>n DEF Fetches, KnownMatches
  <2>2. run # None /\ step' = "save" /\ db' = got /\ built' = PageOf(run.tree, got)
        /\ UNCHANGED <<siteVars, run, pending, cache, edits, trouble, lost, gap>>
    BY <1>9 DEF Build, historyVars
  <2> HIDE DEF got
  <2>3. BuiltFromCommit' /\ db' \in Database /\ built' \in Page
    BY <1>e, <1>g, <2>1, <2>2 DEF BuiltFromCommit
  <2> QED BY <1>k, <1>l, <2>1, <2>2, <2>3
<1>10. CASE BuildOnPart
  <2>1. PICK got \in Held..feed - 1 : db' = got /\ built' = PageOf(run.tree, got)
    BY <1>10 DEF BuildOnPart
  <2>2. got \in 0..MaxFeed /\ got <= feed
    BY <1>m, <1>f, <1>n, <2>1 DEF Held
  <2>3. run # None /\ step' = "save" /\ UNCHANGED <<siteVars, run, pending, cache, edits, lost>>
        /\ gap' \in BOOLEAN /\ trouble' \in 0..MaxTrouble
    BY <1>10, <1>d, <1>k DEF BuildOnPart
  <2>4. BuiltFromCommit' /\ db' \in Database /\ built' \in Page
    BY <1>e, <1>g, <2>1, <2>2, <2>3 DEF BuiltFromCommit
  <2> QED BY <1>k, <1>l, <2>1, <2>2, <2>3, <2>4
<1>11. CASE BuildFails
  <2>1. db' \in 0..MaxFeed /\ db' <= feed
    BY <1>11, <1>m, <1>f, <1>t, <1>n DEF BuildFails, Fetches, KnownMatches
  <2>2. run # None /\ step' = "saveFailed" /\ UNCHANGED <<siteVars, run, pending, built, cache, edits, gap>>
        /\ lost' \in BOOLEAN /\ trouble' \in 0..MaxTrouble
    BY <1>11, <1>d, <1>k DEF BuildFails, Carries
  <2>3. BuiltFromCommit' /\ db' \in Database /\ built' \in Page
    BY <1>e, <1>t, <2>1, <2>2 DEF BuiltFromCommit, TypeOK
  <2> QED BY <1>k, <1>l, <2>1, <2>2, <2>3
<1>12. CASE SaveCache
  <2>1. run # None /\ db # None /\ cache' = db /\ cache' \in Database /\ cache' <= feed
        /\ UNCHANGED <<siteVars, edits, trouble, lost, gap>>
    BY <1>12, <1>t DEF SaveCache, Saved, BuiltFromCommit, KnownMatches, historyVars, TypeOK
  <2>2. CASE step = "save"
    <3>1. step' = "publish" /\ UNCHANGED <<run, pending, db, built>>
      BY <1>12, <2>2 DEF SaveCache
    <3>2. BuiltFromCommit'
      BY <1>t, <2>1, <2>2, <3>1 DEF BuiltFromCommit
    <3>3. db' \in Database /\ (db' # None => db' <= feed) /\ built' \in Page
      BY <1>t, <3>1 DEF TypeOK, KnownMatches
    <3> QED BY <1>k, <1>l, <2>1, <3>1, <3>2, <3>3
  <2>3. CASE step # "save"
    <3>1. Leave(pending)
      BY <1>12, <2>3 DEF SaveCache
    <3> QED BY <1>j, <1>k, <2>1, <3>1 DEF siteVars
  <2> QED BY <2>2, <2>3
<1>13. CASE Publish
  <2>1. page' = built /\ Leave(Outrun(pending)) /\ lost' = FALSE /\ gap' = FALSE
        /\ UNCHANGED <<tree, feed, cache, edits, trouble>> /\ run # None /\ step = "publish"
    BY <1>13 DEF Publish
  <2>2. built \in Page /\ built.data = db /\ db <= feed
    BY <1>f, <1>g, <1>t, <2>1 DEF BuiltFromCommit, KnownMatches, TypeOK
  <2> QED BY <1>j, <1>k, <2>1, <2>2
<1>14. CASE PushRejected
  BY <1>14, <1>j, <1>k DEF PushRejected, siteVars, historyVars
<1>15. CASE RunnerLost
  BY <1>15, <1>d, <1>j, <1>k DEF RunnerLost, siteVars, Carries
<1>16. CASE CacheEvicted
  <2>1. JobsKept
    BY <1>16, <1>b, <1>t DEF CacheEvicted, siteVars, jobVars, TypeOK
  <2>2. KnownMatches' /\ BuiltFromCommit' /\ Ordered(tree')
    BY <1>16, <1>t DEF CacheEvicted, siteVars, jobVars, KnownMatches, BuiltFromCommit
  <2>3. trouble' \in 0..MaxTrouble
    BY <1>16, <1>d DEF CacheEvicted
  <2> QED
    BY <1>16, <1>a, <1>t, <2>1, <2>2, <2>3 DEF CacheEvicted, siteVars, jobVars, historyVars,
       TypeOK, Database
<1>17. CASE UNCHANGED vars
  <2>1. JobsKept
    BY <1>17, <1>b, <1>t DEF vars, siteVars, jobVars, TypeOK
  <2> QED
    BY <1>17, <1>a, <1>t, <2>1 DEF vars, siteVars, jobVars, historyVars, TypeOK, KnownMatches,
       BuiltFromCommit
<1> QED
  BY <1>1, <1>2, <1>3, <1>4, <1>5, <1>6, <1>7, <1>8, <1>9, <1>10, <1>11, <1>12, <1>13, <1>14,
     <1>15, <1>16, <1>17 DEF Next, JobStep

\* The workflow keeps its types and the facts of BuildInv.
THEOREM BuildInvHolds == Spec => []BuildInv
  BY InitBuildInv, NextBuildInv, PTL DEF Spec

\* The workflow keeps its types, and no job waits while none runs.
THEOREM TypeCorrect == Spec => []TypeOK
<1>1. BuildInv => TypeOK
  BY DEF BuildInv
<1> QED BY <1>1, BuildInvHolds, PTL

-----------------------------------------------------------------------------
(* The workflow implements the site.                                       *)

LEMMA InitSite == Init => SiteInit
  BY DEF Init

LEMMA StepSite == BuildInv /\ [Next]_vars => [SiteNext]_siteVars
<1> SUFFICES ASSUME BuildInv, [Next]_vars PROVE [SiteNext]_siteVars
  OBVIOUS
<1> USE DEF SiteNext
<1>1. CASE MatchesFinish
  BY <1>1 DEF MatchesFinish
<1>2. ASSUME NEW u \in Accounts, NEW v \in Views \ {"none"}, Upload(u, v) PROVE SiteNext
  BY <1>2 DEF Upload
<1>3. ASSUME NEW c \in Accounts \cup {None, Excluded}, Override(c) PROVE SiteNext
  BY <1>3 DEF Override
<1>4. CASE Publish
  <2>1. step = "publish" /\ ~ run.behind /\ run # None /\ page' = built
        /\ UNCHANGED <<tree, feed>>
    BY <1>4 DEF Publish, PushAccepted
  <2>2. run.tree = tree /\ built = PageOf(tree, db) /\ db <= feed /\ db \in 0..MaxFeed
    BY <2>1 DEF BuildInv, JobAtHead, BuiltFromCommit, KnownMatches, TypeOK, Database
  <2>3. Show(db)
    BY <2>1, <2>2 DEF Show
  <2> QED BY <2>2, <2>3
<1>5. CASE UNCHANGED siteVars
  BY <1>5
<1>6. ASSUME PushElsewhere \/ Nightly \/ ShadowCron \/ Dispatch
      PROVE  UNCHANGED siteVars
  BY <1>6 DEF PushElsewhere, Nightly, ShadowCron, Dispatch
<1>7. ASSUME Gate \/ Build \/ SaveCache \/ PushRejected
      PROVE  UNCHANGED siteVars
  BY <1>7 DEF Gate, Build, SaveCache, PushRejected
<1>8. ASSUME BuildOnPart \/ BuildFails \/ RunnerLost \/ CacheEvicted \/ UNCHANGED vars
      PROVE  UNCHANGED siteVars
  BY <1>8 DEF BuildOnPart, BuildFails, RunnerLost, CacheEvicted, vars
<1> QED BY <1>1, <1>2, <1>3, <1>4, <1>5, <1>6, <1>7, <1>8 DEF Next, JobStep

\* Whatever the jobs, the failures and the commits that race them, the page only
\* ever changes to the merge of the contributions then on main.
THEOREM SiteImplemented == Spec => SiteSpec
<1>1. BuildInv /\ [Next]_vars => [SiteNext]_siteVars
  BY StepSite
<1> QED BY <1>1, InitSite, BuildInvHolds, PTL DEF Spec, SiteSpec

-----------------------------------------------------------------------------
(* The data of the page.                                                   *)

LEMMA InitDataInv == Init => DataInv
  BY DEF Init, DataInv

\* Numbers the invariants compare.
LEMMA Quantities ==
    ASSUME BuildInv
    PROVE  /\ page.data \in Nat /\ feed \in Nat /\ page.data <= feed
           /\ cache # None => cache \in Nat
           /\ db # None => db \in Nat /\ db <= feed
  BY SiteAssumption DEF BuildInv, TypeOK, KnownMatches, Database, Page

LEMMA NextDataInv == BuildInv /\ DataInv /\ [Next]_vars => DataInv'
<1> SUFFICES ASSUME BuildInv, DataInv, [Next]_vars PROVE DataInv'
  OBVIOUS
<1>q. /\ page.data \in Nat /\ feed \in Nat /\ page.data <= feed
      /\ cache # None => cache \in Nat
      /\ db # None => db \in Nat /\ db <= feed
  BY Quantities
\* Steps that leave the page, the cache and the flag alone, and the job's
\* database too or take it away with the runner.
<1>a. ASSUME UNCHANGED <<page, cache, gap>>,
             \/ (run' # None => run # None) /\ UNCHANGED <<step, db>>
             \/ FreshRunner
      PROVE  DataInv'
  BY <1>a DEF DataInv, FreshRunner
<1>b. ASSUME NEW triggers \in BOOLEAN, Commit(triggers), tree' \in Tree, Ordered(tree'),
             ~ triggers => tree' = tree
      PROVE  ((run' # None => run # None) /\ UNCHANGED <<step, db>>) \/ FreshRunner
  BY <1>b, CommitKeeps
<1>c. ASSUME NEW kind \in Kinds, TriggerAtHead(kind), UNCHANGED tree
      PROVE  ((run' # None => run # None) /\ UNCHANGED <<step, db>>) \/ FreshRunner
  BY <1>c, TriggerKeeps
<1>d. ASSUME NEW next, Leave(next) PROVE FreshRunner
  BY <1>d DEF Leave
<1>1. CASE MatchesFinish
  BY <1>1, <1>a DEF MatchesFinish, FeedGrows, jobVars, historyVars
<1>2. ASSUME NEW u \in Accounts, NEW v \in Views \ {"none"}, Upload(u, v) PROVE DataInv'
  <2>1. tree' \in Tree /\ Ordered(tree')
    BY <1>2, PutFileOrders DEF Upload, BuildInv, TypeOK
  <2> QED BY <1>2, <1>a, <1>b, <2>1 DEF Upload, PutFile, historyVars
<1>3. ASSUME NEW c \in Accounts \cup {None, Excluded}, Override(c) PROVE DataInv'
  <2>1. tree' \in Tree /\ Ordered(tree')
    BY <1>3, CurateOrders DEF Override, BuildInv, TypeOK
  <2> QED BY <1>3, <1>a, <1>b, <2>1 DEF Override, Curate, historyVars
<1>4. CASE PushElsewhere
  BY <1>4, <1>a, <1>b DEF PushElsewhere, siteVars, BuildInv, TypeOK
<1>5. CASE Nightly
  BY <1>5, <1>a, <1>c DEF Nightly, Kinds, siteVars, historyVars
<1>6. CASE ShadowCron
  BY <1>6, <1>a, <1>c DEF ShadowCron, Kinds, siteVars
<1>7. CASE Dispatch
  BY <1>7, <1>a, <1>c DEF Dispatch, Kinds, siteVars, historyVars
<1>8. CASE Gate
  <2>1. CASE GateOpen(run.kind)
    BY <1>8, <2>1 DEF Gate, DataInv, siteVars, historyVars
  <2>2. CASE ~ GateOpen(run.kind)
    BY <1>8, <2>2, <1>a, <1>d DEF Gate, siteVars, historyVars
  <2> QED BY <2>1, <2>2
<1>9. CASE Build
  <2>1. (page.data <= db' /\ UNCHANGED <<page, cache, run>>) \/ gap
    BY <1>9, <1>q DEF Build, Fetches, DataInv, siteVars
  <2> QED BY <1>9, <2>1 DEF Build, DataInv, siteVars, historyVars
<1>10. CASE BuildOnPart
  <2>1. PICK got \in Held..feed - 1 : db' = got
    BY <1>10 DEF BuildOnPart
  <2>2. CASE db = None
    BY <1>10, <2>2 DEF BuildOnPart, DataInv
  <2>3. CASE db # None
    <3>1. got >= db /\ got \in Nat
      BY <1>q, <2>1, <2>3 DEF Held
    <3>2. (gap => gap') /\ step' = "save" /\ db' = got /\ UNCHANGED <<page, cache, run>> /\ run # None
      BY <1>10, <2>1 DEF BuildOnPart, siteVars
    <3>3. ~ gap => page.data <= db /\ (cache # None => page.data <= cache)
      BY <2>3, <3>2 DEF DataInv
    <3>4. ~ gap => page.data <= got
      BY <1>q, <2>3, <3>1, <3>3
    <3> QED BY <3>2, <3>3, <3>4 DEF DataInv
  <2> QED BY <2>2, <2>3
<1>11. CASE BuildFails
  <2>1. page.data <= db' \/ gap
    BY <1>11, <1>q DEF BuildFails, Fetches, DataInv
  <2> QED BY <1>11, <2>1 DEF BuildFails, DataInv, siteVars
<1>12. CASE SaveCache
  <2>1. db # None /\ cache' = db /\ run # None /\ UNCHANGED <<page, gap>>
    BY <1>12 DEF SaveCache, Saved, BuildInv, BuiltFromCommit, siteVars, historyVars
  <2>2. CASE step = "save"
    BY <1>12, <2>1, <2>2 DEF SaveCache, DataInv
  <2>3. CASE step # "save"
    <3>1. db' = None /\ step' = "gate"
      BY <1>12, <1>d, <2>3 DEF SaveCache, FreshRunner
    <3> QED BY <2>1, <3>1 DEF DataInv
  <2> QED BY <2>2, <2>3
<1>13. CASE Publish
  <2>1. FreshRunner /\ page' = built /\ UNCHANGED cache /\ run # None /\ step = "publish"
    BY <1>13, <1>d DEF Publish
  <2>2. db # None /\ page'.data = db /\ (cache # None => cache = db)
    <3>1. built = PageOf(run.tree, db) /\ db # None
      BY <2>1 DEF BuildInv, BuiltFromCommit
    <3> QED BY <2>1, <3>1 DEF DataInv, PageOf
  <2> QED BY <1>q, <2>1, <2>2 DEF DataInv, FreshRunner
<1>14. CASE PushRejected
  BY <1>14, <1>a, <1>d DEF PushRejected, siteVars, historyVars
<1>15. CASE RunnerLost
  BY <1>15, <1>a, <1>d DEF RunnerLost, siteVars
<1>16. CASE CacheEvicted
  BY <1>16 DEF CacheEvicted, DataInv, siteVars, jobVars, historyVars
<1>17. CASE UNCHANGED vars
  BY <1>17, <1>a DEF vars, siteVars, jobVars, historyVars
<1> QED
  BY <1>1, <1>2, <1>3, <1>4, <1>5, <1>6, <1>7, <1>8, <1>9, <1>10, <1>11, <1>12, <1>13, <1>14,
     <1>15, <1>16, <1>17 DEF Next, JobStep

\* Only Publish changes the page, and to what the job's database holds.
LEMMA StepData == BuildInv /\ DataInv /\ [Next]_vars => [page'.data < page.data => gap]_vars
<1> SUFFICES ASSUME BuildInv, DataInv, Next, page'.data < page.data PROVE gap
  OBVIOUS
<1>1. CASE Publish
  <2>1. page' = built /\ run # None /\ db # None /\ built = PageOf(run.tree, db)
    BY <1>1 DEF Publish, BuildInv, BuiltFromCommit
  <2>2. page'.data = db /\ page.data \in Nat /\ db \in Nat
    BY <2>1, Quantities DEF PageOf
  <2> QED BY <2>1, <2>2 DEF DataInv
<1>2. CASE UNCHANGED page
  BY <1>2, Quantities
<1>3. ASSUME NEW u \in Accounts, NEW v \in Views \ {"none"}, Upload(u, v) PROVE UNCHANGED page
  BY <1>3 DEF Upload, PutFile
<1>4. ASSUME NEW c \in Accounts \cup {None, Excluded}, Override(c) PROVE UNCHANGED page
  BY <1>4 DEF Override, Curate
<1>5. ASSUME MatchesFinish \/ PushElsewhere \/ Nightly \/ ShadowCron \/ Dispatch
      PROVE  UNCHANGED page
  BY <1>5 DEF MatchesFinish, FeedGrows, PushElsewhere, Nightly, ShadowCron, Dispatch, siteVars
<1>6. ASSUME Gate \/ Build \/ SaveCache \/ PushRejected
      PROVE  UNCHANGED page
  BY <1>6 DEF Gate, Build, SaveCache, PushRejected, siteVars
<1>7. ASSUME BuildOnPart \/ BuildFails \/ RunnerLost \/ CacheEvicted
      PROVE  UNCHANGED page
  BY <1>7 DEF BuildOnPart, BuildFails, RunnerLost, CacheEvicted, siteVars
<1> QED BY <1>1, <1>2, <1>3, <1>4, <1>5, <1>6, <1>7 DEF Next, JobStep

\* The matches on the page go back only when a missing database was rebuilt by a
\* fetch with errors.
THEOREM DataKept == Spec => DataNeverGoesBack
<1>1. BuildInv /\ DataInv /\ [Next]_vars => [page'.data < page.data => gap]_vars
  BY StepData
<1> QED BY <1>1, BuildInvHolds, InitDataInv, NextDataInv, PTL DEF Spec, DataNeverGoesBack
-----------------------------------------------------------------------------
(* The uploads.                                                            *)

LEMMA InitUploadInv == Init => UploadInv
<1> SUFFICES ASSUME Init PROVE UploadInv
  OBVIOUS
<1>1. tree = NoTree /\ page = NoPage /\ run = None
  BY DEF Init, SiteInit
<1>2. OwnerOf(NoTree, 0) = None
  BY DEF OwnerOf, Viewers, Valid
<1>3. PageOf(NoTree, 0) = NoPage
  BY <1>2 DEF PageOf, NoPage
<1> QED BY <1>1, <1>3 DEF UploadInv, NoUploadForgotten, FailureCounted, Stale, NoPage

LEMMA NextUploadInv == BuildInv /\ UploadInv /\ [Next]_vars => UploadInv'
<1> SUFFICES ASSUME BuildInv, UploadInv, [Next]_vars PROVE UploadInv'
  OBVIOUS
<1>t. /\ tree \in Tree /\ Ordered(tree) /\ JobAtHead(run)
      /\ pending # None => run # None
  BY DEF BuildInv, TypeOK
<1>s. ASSUME UNCHANGED <<tree, page>>, Stale'
      PROVE  lost \/ Carries(run) \/ Carries(pending)
  BY <1>s DEF UploadInv, NoUploadForgotten, Stale
<1>f. run # None /\ step = "saveFailed" /\ Carries(run) => lost
  BY DEF UploadInv, FailureCounted
\* Only a build that fails brings a job to saveFailed.
<1>a. ASSUME Stale' => lost' \/ Carries(run)' \/ Carries(pending)',
             \/ step' # "saveFailed"
             \/ UNCHANGED <<run, step, tree>> /\ (lost => lost')
             \/ run' # None => run'.behind
      PROVE  UploadInv'
  BY <1>a, <1>f DEF UploadInv, NoUploadForgotten, FailureCounted, Carries
\* A step between two jobs, or within one, that gives up none.
<1>b. ASSUME UNCHANGED <<tree, page, run, pending, lost>>, step' # "saveFailed" \/ step' = step
      PROVE  UploadInv'
  BY <1>a, <1>b, <1>s DEF Carries
<1>1. CASE MatchesFinish
  BY <1>1, <1>b DEF MatchesFinish, FeedGrows, jobVars, historyVars
\* A commit that triggers: its own job carries it.
<1>c. ASSUME Commit(TRUE), tree' \in Tree, Ordered(tree') PROVE UploadInv'
  <2>1. /\ Carries(run)' \/ Carries(pending)'
        /\ \/ /\ UNCHANGED step /\ (run = None <=> run' = None)
              /\ run # None => run'.behind
           \/ FreshRunner
    BY <1>c, CommitKeeps
  <2> QED BY <1>a, <2>1 DEF FreshRunner
<1>2. ASSUME NEW u \in Accounts, NEW v \in Views \ {"none"}, Upload(u, v) PROVE UploadInv'
  BY <1>2, <1>c, <1>t, PutFileOrders DEF Upload
<1>3. ASSUME NEW c \in Accounts \cup {None, Excluded}, Override(c) PROVE UploadInv'
  BY <1>3, <1>c, <1>t, CurateOrders DEF Override
<1>4. CASE PushElsewhere
  <2>1. UNCHANGED <<tree, page>> /\ Commit(FALSE)
        /\ (lost \/ Carries(run) \/ Carries(pending) => lost')
    BY <1>4 DEF PushElsewhere, siteVars
  <2>2. \/ /\ UNCHANGED step /\ (run = None <=> run' = None)
           /\ run # None => run'.behind
        \/ FreshRunner
    BY <1>t, <2>1, CommitKeeps
  <2> QED BY <1>a, <1>s, <2>1, <2>2 DEF FreshRunner
\* A trigger that is not the shadow cron's carries the head itself.
<1>d. ASSUME NEW kind \in Kinds, TriggerAtHead(kind), UNCHANGED tree, lost => lost',
             kind # "shadow" \/ (Stale' => lost' \/ Carries(run)')
      PROVE  UploadInv'
  <2>1. /\ run # None => UNCHANGED <<run, step>>
        /\ run = None => FreshRunner
        /\ kind # "shadow" => Carries(run)' \/ Carries(pending)'
    BY <1>d, TriggerKeeps
  <2> QED BY <1>a, <1>d, <2>1 DEF FreshRunner
<1>5. CASE Nightly
  BY <1>5, <1>d DEF Nightly, Kinds, siteVars, historyVars
<1>6. CASE ShadowCron
  <2>1. /\ UNCHANGED <<tree, page>> /\ TriggerAtHead("shadow")
        /\ lost \/ Carries(pending) => lost'
    BY <1>6 DEF ShadowCron, siteVars
  <2>2. Carries(run) => Carries(run)'
    <3>1. run # None => UNCHANGED run
      BY <1>t, <2>1, TriggerKeeps DEF Kinds
    <3> QED BY <2>1, <3>1 DEF Carries
  <2> QED BY <1>d, <1>s, <2>1, <2>2 DEF Kinds
<1>7. CASE Dispatch
  BY <1>7, <1>d DEF Dispatch, Kinds, siteVars, historyVars
\* A job that leaves without having published, when it did not carry the head or
\* is counted as lost: the waiting one starts.
<1>e. ASSUME Leave(pending), UNCHANGED <<tree, page>>, lost => lost', Carries(run) => lost'
      PROVE  UploadInv'
  <2>1. FreshRunner /\ (Carries(pending) => Carries(run)')
    BY <1>e, LeaveKeeps
  <2> QED BY <1>a, <1>e, <1>s, <2>1 DEF FreshRunner
<1>8. CASE Gate
  <2>1. CASE GateOpen(run.kind)
    BY <1>8, <2>1, <1>b DEF Gate, siteVars, historyVars
  <2>2. CASE ~ GateOpen(run.kind)
    <3>1. ~ Carries(run)
      BY <2>2 DEF GateOpen, Carries
    <3> QED BY <1>8, <2>2, <3>1, <1>e DEF Gate, siteVars, historyVars
  <2> QED BY <2>1, <2>2
<1>9. CASE Build
  BY <1>9, <1>b DEF Build, siteVars, historyVars
<1>10. CASE BuildOnPart
  BY <1>10, <1>b DEF BuildOnPart, siteVars
<1>11. CASE BuildFails
  <2>1. UNCHANGED <<tree, page, run, pending>> /\ (lost \/ Carries(run) => lost')
    BY <1>11 DEF BuildFails, siteVars
  <2>2. (Carries(run)' => Carries(run)) /\ (Carries(pending) => Carries(pending)')
    BY <2>1 DEF Carries
  <2> QED BY <1>s, <2>1, <2>2 DEF UploadInv, NoUploadForgotten, FailureCounted
<1>12. CASE SaveCache
  <2>1. CASE step = "save"
    BY <1>12, <2>1, <1>b DEF SaveCache, siteVars, historyVars
  <2>2. CASE step # "save"
    <3>1. Carries(run) => lost
      BY <1>12, <1>f, <2>2 DEF SaveCache
    <3> QED BY <1>12, <1>e, <2>2, <3>1 DEF SaveCache, siteVars, historyVars
  <2> QED BY <2>1, <2>2
\* What is pushed is the merge of main.
<1>13. CASE Publish
  <2>1. FreshRunner /\ page' = built /\ UNCHANGED tree /\ run # None /\ step = "publish"
        /\ ~ run.behind
    BY <1>13 DEF Publish, Leave, PushAccepted
  <2>2. page' = PageOf(tree', db) /\ page'.data = db
    BY <1>t, <2>1 DEF BuildInv, BuiltFromCommit, JobAtHead, PageOf
  <2> QED BY <1>a, <2>1, <2>2 DEF Stale, FreshRunner
<1>14. CASE PushRejected
  <2>1. ~ Carries(run)
    BY <1>14 DEF PushRejected, PushAccepted, Carries
  <2> QED BY <1>14, <1>e, <2>1 DEF PushRejected, siteVars, historyVars
<1>15. CASE RunnerLost
  BY <1>15, <1>e DEF RunnerLost, siteVars
<1>16. CASE CacheEvicted
  BY <1>16, <1>b DEF CacheEvicted, siteVars, jobVars, historyVars
<1>17. CASE UNCHANGED vars
  BY <1>17, <1>b DEF vars, siteVars, jobVars, historyVars
<1> QED
  BY <1>1, <1>2, <1>3, <1>4, <1>5, <1>6, <1>7, <1>8, <1>9, <1>10, <1>11, <1>12, <1>13, <1>14,
     <1>15, <1>16, <1>17 DEF Next, JobStep

\* An upload the page does not show yet has a job that carries it, or met one of
\* the three accidents that lose such a job.
THEOREM UploadsAreCarried == Spec => []NoUploadForgotten
<1>1. UploadInv => NoUploadForgotten
  BY DEF UploadInv
<1> QED BY <1>1, BuildInvHolds, InitUploadInv, NextUploadInv, PTL DEF Spec
=============================================================================
