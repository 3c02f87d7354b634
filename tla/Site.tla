-------------------------------- MODULE Site --------------------------------
(***************************************************************************)
(* What the published site promises, without the machinery that builds it: *)
(* whatever becomes visible on docs/index.html is the first-wins merge of  *)
(* the contributions then on main, joined with matches FACEIT has played.  *)
(* SiteBuild implements it with the workflow, the cached database and the  *)
(* push.                                                                   *)
(*                                                                         *)
(* One captured map stands for all: the merge decides each map alone.  A   *)
(* contributor's file is its view of that map; the page is the owner, the  *)
(* view shown, and how many batches of finished matches it knows.          *)
(***************************************************************************)
EXTENDS Naturals, Sequences, FiniteSets

CONSTANTS
    Accounts,       \* contributors, one file each
    None,           \* no owner, no override
    Excluded,       \* the curator's exclude list holds the map
    MaxFeed         \* bound: batches of matches FACEIT ever finishes

ASSUME SiteAssumption ==
    /\ None \notin Accounts /\ Excluded \notin Accounts /\ None # Excluded
    /\ MaxFeed \in Nat \ {0}

VARIABLES
    tree,           \* data/captures/<season> at the head of main
    feed,           \* batches of matches finished on FACEIT
    page            \* docs/index.html at the head of main

siteVars == <<tree, feed, page>>

\* "plain": no replay code was read off the screen; "verified": it was, and it
\* agrees; "wrong": the code, the team or the screen contradicts FACEIT.
Views == {"none", "plain", "verified", "wrong"}
Tree == [files : [Accounts -> Views], order : Seq(Accounts),
         curated : Accounts \cup {None, Excluded}]
Page == [owner : Accounts \cup {None}, view : Views, data : Nat]

NoTree == [files |-> [a \in Accounts |-> "none"], order |-> <<>>, curated |-> None]
NoPage == [owner |-> None, view |-> "none", data |-> 0]

-----------------------------------------------------------------------------
(* owdb contribute merge.                                                  *)

\* validate_maps: a game the database does not hold yet, or a view FACEIT
\* contradicts, is dropped before ownership is decided.
Valid(t, db, a) == db > 0 /\ t.files[a] \in {"plain", "verified"}
Viewers(t, db) == {a \in Accounts : Valid(t, db, a)}
VerifiedViewers(t, db) == {a \in Viewers(t, db) : t.files[a] = "verified"}

\* git_submission_order: the file committed first comes first.
Earliest(t, S) ==
    LET At(i) == t.order[i]
        First == {i \in DOMAIN t.order :
                    /\ At(i) \in S
                    /\ \A j \in DOMAIN t.order : At(j) \in S => i <= j}
    IN  At(CHOOSE i \in First : TRUE)

\* merge_first_wins: an exclusion drops the map, an override that has a view
\* wins, then the first verified view, then the first view.
OwnerOf(t, db) ==
    IF t.curated = Excluded \/ Viewers(t, db) = {} THEN None
    ELSE IF t.curated \in Viewers(t, db) THEN t.curated
    ELSE IF VerifiedViewers(t, db) # {} THEN Earliest(t, VerifiedViewers(t, db))
    ELSE Earliest(t, Viewers(t, db))

\* merge, then export, from one tree and one database.
PageOf(t, db) ==
    LET o == OwnerOf(t, db)
    IN  [owner |-> o, view |-> IF o = None THEN "none" ELSE t.files[o], data |-> db]

-----------------------------------------------------------------------------
SiteInit == tree = NoTree /\ feed = 1 /\ page = NoPage

\* FACEIT finishes more matches.
FeedGrows == feed < MaxFeed /\ feed' = feed + 1 /\ UNCHANGED <<tree, page>>

\* The worker commits a contributor's whole file; a new one takes the last place.
PutFile(a, view) ==
    /\ tree.files[a] # view
    /\ tree' = [tree EXCEPT !.files[a] = view,
                            !.order = IF tree.files[a] = "none" THEN Append(@, a) ELSE @]
    /\ UNCHANGED <<feed, page>>

\* The curator commits overrides.json, about a map somebody submitted.
Curate(c) ==
    /\ tree.curated # c /\ tree.order # <<>>
    /\ tree' = [tree EXCEPT !.curated = c]
    /\ UNCHANGED <<feed, page>>

\* A build becomes visible.
Show(db) ==
    /\ db <= feed
    /\ page' = PageOf(tree, db)
    /\ UNCHANGED <<tree, feed>>

SiteNext ==
    \/ FeedGrows
    \/ \E a \in Accounts, v \in Views \ {"none"} : PutFile(a, v)
    \/ \E c \in Accounts \cup {None, Excluded} : Curate(c)
    \/ \E db \in 0..MaxFeed : Show(db)

\* What a visitor may rely on: a page that appears is never built from
\* contributions that are no longer the ones on main (update.yml:37, "never let
\* two runs overlap", and the push at 223).
SiteSpec == SiteInit /\ [][SiteNext]_siteVars
=============================================================================
