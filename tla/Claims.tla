------------------------------- MODULE Claims -------------------------------
(***************************************************************************)
(* What the claim room of infra/upload-worker/worker.js promises the       *)
(* scouts who capture at the same time: a map is claimed by one account at *)
(* a time, which keeps it until it lets go, leaves with its last tab, or   *)
(* has not been heard of for too long.  Nothing is said of memory,         *)
(* storage, sessions or alarms: ClaimRoom has those.                       *)
(***************************************************************************)
EXTENDS Naturals

CONSTANTS
    Keys,        \* maps
    Sockets,     \* tabs
    Owners,      \* accounts
    OwnerOf,     \* the account of a tab
    Free,        \* no owner
    StaleAfter   \* how long a claim may go without being refreshed

VARIABLES
    owner,   \* who has a map
    idle,    \* how long its claim has not been refreshed
    tabs     \* the tabs that may claim

claimsVars == <<owner, idle, tabs>>

ClaimsInit ==
    /\ owner = [k \in Keys |-> Free]
    /\ idle = [k \in Keys |-> 0]
    /\ tabs = {}

Let(K) == /\ owner' = [k \in Keys |-> IF k \in K THEN Free ELSE owner[k]]
          /\ idle' = [k \in Keys |-> IF k \in K THEN 0 ELSE idle[k]]

Held(o) == {k \in Keys : owner[k] = o}
OtherTab(s) == \E t \in tabs \ {s} : OwnerOf[t] = OwnerOf[s]

\* A map that is free, or one's own already.
Take(o, k) ==
    /\ owner[k] \in {Free, o}
    /\ owner' = [owner EXCEPT ![k] = o]
    /\ idle' = [j \in Keys |-> IF j = k THEN 0 ELSE idle[j]]
    /\ UNCHANGED tabs

GiveUp(o, k) == owner[k] = o /\ Let({k}) /\ UNCHANGED tabs

Arrive(s) == tabs' = tabs \cup {s} /\ UNCHANGED <<owner, idle>>

\* The last tab of an account takes its claims with it, or leaves them to go stale;
\* any other leaves them alone.
Leave(s) ==
    /\ s \in tabs
    /\ tabs' = tabs \ {s}
    /\ \/ ~ OtherTab(s) /\ Let(Held(OwnerOf[s]))
       \/ UNCHANGED <<owner, idle>>

Expire ==
    /\ Let({k \in Keys : owner[k] # Free /\ idle[k] > StaleAfter})
    /\ UNCHANGED tabs

TimePasses ==
    /\ idle' = [k \in Keys |-> IF owner[k] # Free /\ idle[k] <= StaleAfter
                               THEN idle[k] + 1 ELSE idle[k]]
    /\ UNCHANGED <<owner, tabs>>

ClaimsNext ==
    \/ \E o \in Owners, k \in Keys : Take(o, k) \/ GiveUp(o, k)
    \/ \E s \in Sockets : Arrive(s) \/ Leave(s)
    \/ Expire \/ TimePasses

ClaimsSpec == ClaimsInit /\ [][ClaimsNext]_claimsVars
=============================================================================
