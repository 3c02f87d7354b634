----------------------------- MODULE MCPublish -----------------------------
(***************************************************************************)
(* How data gets to the site, for TLC: the crawl that fills the database,  *)
(* and the workflow that builds the page.  The two share nothing, so a     *)
(* behaviour is one of them and the other stays as it starts.              *)
(*                                                                         *)
(* SyncCrawl: a division whose three teams meet in a chain, its playoffs   *)
(* with a second match of two teams the bracket does not know yet, and a   *)
(* cup whose only match has no teams.  The first match is over when all    *)
(* begins: just now and without codes, or days ago with some of them.      *)
(***************************************************************************)
EXTENDS SiteBuild, SyncCrawl

CONSTANT Parts   \* which of the two

VARIABLE part

Crawling == "crawl"
Building == "build"

AnyFault == {"fetch", "build", "runner", "evict"}

Bracket == 1
Division == 2
Cup == 3

Stages == {Bracket, Division, Cup}
Knockouts == {Bracket, Cup}
SameName == [c \in Stages |-> IF c = Bracket THEN {Division} ELSE IF c = Division THEN {Bracket} ELSE {}]

Clubs == {"a", "b", "c", "d"}
Games == {"ab", "bc", "ad", "cd", "tbd"}
Committed == {"ab", "ad", "tbd"}
StageOf == [m \in Games |-> CASE m \in {"ab", "bc"} -> Division
                              [] m \in {"ad", "cd"} -> Bracket
                              [] OTHER -> Cup]
Sides == [m \in Games |-> CASE m = "ab" -> {"a", "b"} [] m = "bc" -> {"b", "c"}
                            [] m = "ad" -> {"a"} [] m = "cd" -> {"c", "d"} [] OTHER -> {}]
AtFirst == [m \in Games |-> CASE m = "ab" -> "finished" [] m = "cd" -> "unlisted"
                              [] OTHER -> "scheduled"]
FirstLook == {<<"none", "fresh">>, <<"some", "recent">>}

PublishInit ==
    /\ part \in Parts /\ Init /\ SyncInit
    /\ part = Building => age = [m \in Games |-> "fresh"]

RunCrawl == part = Crawling /\ SyncNext /\ UNCHANGED <<vars, part>>
RunBuild == part = Building /\ Next /\ UNCHANGED <<syncVars, part>>

PublishSpec == PublishInit /\ [][RunCrawl \/ RunBuild]_<<vars, syncVars, part>>

\* What each part assumes of its scheduler.
PublishFairSpec ==
    /\ PublishSpec
    /\ WF_vars(part = Building /\ JobStep) /\ WF_vars(part = Building /\ Nightly)
    /\ WF_syncVars(part = Crawling /\ Crawl) /\ WF_syncVars(part = Crawling /\ FetchSeeds)

\* Whatever fails, finished matches reach the page (update.yml:5, "9pm UK time,
\* every day").
MatchesReachSite == []<>(part = Building => page.data = feed)
=============================================================================
