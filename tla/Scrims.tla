---- MODULE Scrims ----
(* Who a scrim is played against: docs/capture/engine/opponents.js and the  *)
(* page that uses it, docs/capture/scrim.html 719-884.                      *)
(*                                                                          *)
(* The ten names read off the HUD are matched, three of five, against our   *)
(* own roster, the league's rosters widened by the alternative accounts     *)
(* learned so far, and the groups of players remembered in this browser.    *)
(* What a reading concludes is written at once; the operator may then say   *)
(* that it is not them.  A name is one key of normSet, a side a set of keys.*)
EXTENDS Integers, FiniteSets, Sequences, SequencesExt, FiniteSetsExt

CONSTANTS Rosters,      \* [team -> names], the league's squads
          Ours,         \* the names of our own roster
          Mine,         \* the team the operator said is ours, or NoTeam
          NoTeam,
          Readings,        \* the pairs <<left names, right names>> that are read
          MaxGroups     \* bound: groups the browser remembers

MIN_MATCHES == 3
Teams == DOMAIN Rosters

ASSUME ScrimsAssumption ==
    /\ NoTeam \notin Teams /\ MaxGroups \in Nat
    /\ \A read \in Readings : IsFiniteSet(read[1]) /\ IsFiniteSet(read[2])

VARIABLES aliases,      \* [team -> names], localStorage owdb_team_aliases
          groups,       \* sequence of name sets, the store `opponents`
          scrim,        \* [team, group] of the active scrim
          identity,     \* LAST_IDENTITY
          denied        \* history: <<team, name>> denied and not taught again since
scrimVars == <<aliases, groups, scrim, identity, denied>>

NoOne == [kind |-> "none"]

-----------------------------------------------------------------------------
(* The matching.                                                            *)

indexWithAliases == [t \in Teams |-> Rosters[t] \cup aliases[t]]

Overlap(names, known) == Cardinality(names \cap known)

Hits(seen) == {t \in Teams : Overlap(seen, indexWithAliases[t]) >= MIN_MATCHES}

\* Most overlap wins, and a tie names nobody.
identifyTeam(seen) ==
    LET best == {t \in Hits(seen) : \A u \in Hits(seen) :
                    Overlap(seen, indexWithAliases[u]) <= Overlap(seen, indexWithAliases[t])}
    IN IF Cardinality(best) = 1 THEN CHOOSE t \in best : TRUE ELSE NoTeam

unmatched(seen, t) == seen \ indexWithAliases[t]

\* The first group of those with the most names in common.
findLocalGroup(seen) ==
    LET n(g) == Overlap(seen, groups[g])
        fits == {g \in DOMAIN groups : n(g) >= MIN_MATCHES}
    IN IF fits = {} THEN 0
       ELSE Min({g \in fits : \A h \in fits : n(h) <= n(g)})

ourSide(l, r) ==
    LET nl == Overlap(l, Ours)
        nr == Overlap(r, Ours)
    IN IF Cardinality(Ours) < MIN_MATCHES THEN 0
       ELSE IF nl >= MIN_MATCHES /\ nl > nr THEN 1
       ELSE IF nr >= MIN_MATCHES /\ nr > nl THEN 2
       ELSE 0

\* Our own roster decides; failing that, the team said to be ours.
Us(read) ==
    LET side == ourSide(read[1], read[2]) IN
    IF side # 0 THEN side
    ELSE IF Mine = NoTeam THEN 0
    ELSE IF identifyTeam(read[1]) = Mine THEN 1
    ELSE IF identifyTeam(read[2]) = Mine THEN 2
    ELSE 0

resolveScrimIdentity(read) ==
    IF Us(read) = 0 THEN NoOne
    ELSE LET them == read[3 - Us(read)]
             team == identifyTeam(them)
         IN IF team # NoTeam
            THEN [kind |-> "team", team |-> team, unmatched |-> unmatched(them, team), names |-> them]
            ELSE [kind |-> "group", group |-> findLocalGroup(them), names |-> them]

-----------------------------------------------------------------------------
ScrimsInit ==
    /\ aliases = [t \in Teams |-> {}]
    /\ groups = <<>>
    /\ scrim = [team |-> NoTeam, group |-> 0]
    /\ identity = NoOne
    /\ denied = {}

learnAliases(t, names) == [aliases EXCEPT ![t] = @ \cup names]

\* What an identification writes before anybody has looked at it.
commitScrimIdentity(o) ==
    CASE o.kind = "team" ->
            /\ aliases' = learnAliases(o.team, o.unmatched)
            /\ scrim' = [scrim EXCEPT !.team = o.team]
            /\ identity' = o
            /\ denied' = denied \ ({o.team} \X o.unmatched)
            /\ UNCHANGED groups
      [] o.kind = "group" /\ o.group # 0 ->
            /\ groups' = [groups EXCEPT ![o.group] = @ \cup o.names]
            /\ scrim' = [scrim EXCEPT !.group = o.group]
            /\ identity' = o
            /\ UNCHANGED <<aliases, denied>>
      [] o.kind = "group" /\ o.group = 0 ->
            /\ Len(groups) < MaxGroups
            /\ groups' = Append(groups, o.names)
            /\ scrim' = [scrim EXCEPT !.group = Len(groups) + 1]
            /\ identity' = [o EXCEPT !.group = Len(groups) + 1]
            /\ UNCHANGED <<aliases, denied>>

\* detectScrimSides: nothing is recorded when our own side is not known.
Detect(read) ==
    LET o == resolveScrimIdentity(read) IN
    IF o = NoOne
    THEN /\ identity' = NoOne
         /\ UNCHANGED <<aliases, groups, scrim, denied>>
    ELSE commitScrimIdentity(o)

\* Taking back only what did not match last time.
DeniedUnmatched(o) == aliases[o.team] \ o.unmatched

\* correctScrimOpponent takes the whole side from the team's aliases.
correctScrimOpponent(o) == aliases[o.team] \ o.names

\* onOpponentWrong: "not them"; the five are remembered as a group of their own.
OpponentWrong ==
    /\ identity # NoOne
    /\ Len(groups) < MaxGroups
    /\ IF identity.kind = "team"
       THEN /\ aliases' = [aliases EXCEPT ![identity.team] = correctScrimOpponent(identity)]
            /\ denied' = denied \cup ({identity.team} \X identity.names)
       ELSE UNCHANGED <<aliases, denied>>
    /\ groups' = Append(groups, identity.names)
    /\ scrim' = [team |-> NoTeam, group |-> Len(groups) + 1]
    /\ identity' = [kind |-> "group", group |-> Len(groups) + 1, names |-> identity.names]

\* A new scrim starts with nobody identified in it; LAST_IDENTITY stays.
NewScrim ==
    /\ scrim' = [team |-> NoTeam, group |-> 0]
    /\ UNCHANGED <<aliases, groups, identity, denied>>

ScrimsNext == OpponentWrong \/ NewScrim \/ \E read \in Readings : Detect(read)
ScrimsSpec == ScrimsInit /\ [][ScrimsNext]_scrimVars

-----------------------------------------------------------------------------
ScrimsTypeOK ==
    /\ \A t \in Teams : aliases[t] \subseteq UNION {s[1] \cup s[2] : s \in Readings}
    /\ Len(groups) <= MaxGroups
    /\ scrim.team \in Teams \cup {NoTeam} /\ scrim.group \in 0..MaxGroups

(* A correction forgets: after "not them", none of the five denied is an    *)
(* alternative account of that team, whichever reading had taught it, until *)
(* a later reading of the team teaches one of them again; and a player of a *)
(* team's own roster is never an alternative account of it.                 *)
DenialForgets ==
    /\ \A d \in denied : d[2] \notin aliases[d[1]]
    /\ \A t \in Teams : aliases[t] \cap Rosters[t] = {}
=============================================================================
