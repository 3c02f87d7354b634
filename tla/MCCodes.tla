------------------------------ MODULE MCCodes ------------------------------
(***************************************************************************)
(* Who works on which replay code, for TLC: the bot on the league's queue, *)
(* the bot on a code stack, and the room in which players claim maps.  The *)
(* three share nothing, so a behaviour is one of them and the others stay  *)
(* as they start.                                                          *)
(*                                                                         *)
(* RunLoop: caps are one or two smaller than the code's (FAIL_RETRY_CAP 3, *)
(* a ring of 10, 3 ESC presses) so that every limit is reached.  ClaimRoom:*)
(* one admin with two tabs, another with one, and an account capture is    *)
(* not open to.                                                            *)
(***************************************************************************)
EXTENDS RunLoop, ClaimRoom

CONSTANTS Parts, LoopFaults   \* which of the three; the faults of a loop run

VARIABLE part

League == "league"
Stack == "stack"
Room == "room"

\* The games; of the two in the feed, g1 finished first.
ThreeGames == {"g1", "g2", "g3"}
TwoInFeed == {"g1", "g2"}
FinishTimes == [g \in TwoInFeed |-> IF g = "g1" THEN 1 ELSE 2]
ThreeCodes == <<"g1", "g2", "g3">>

SocketOwners == [s1 |-> "ann", s2 |-> "ann", s3 |-> "bob", s4 |-> "eve"]
SocketNames == {"s1", "s2", "s3", "s4"}

OnStack == INSTANCE RunLoop WITH Looping <- TRUE, RingSize <- 1, Faults <- LoopFaults

CodesInit ==
    /\ part \in Parts
    /\ IF part = Stack THEN OnStack!Init ELSE Init
    /\ RoomInit

RunLeague == part = League /\ Next /\ UNCHANGED <<roomVars, part>>
RunStack == part = Stack /\ OnStack!Next /\ UNCHANGED <<roomVars, part>>
RunRoom == part = Room /\ RoomNext /\ UNCHANGED <<vars, part>>

CodesSpec == CodesInit /\ [][RunLeague \/ RunStack \/ RunRoom]_<<vars, roomVars, part>>

\* What each part assumes of its scheduler.
CodesFairSpec ==
    /\ CodesSpec
    /\ WF_vars(part = League /\ LoopStep) /\ WF_vars(part = Stack /\ OnStack!LoopStep)
    /\ WF_vars(part = League /\ ClientStep) /\ WF_vars(part = Stack /\ OnStack!ClientStep)
    /\ WF_roomVars(part = Room /\ Alarm) /\ WF_roomVars(part = Room /\ Tick)

\* A league run that is not paused comes to its end (run.js:1034, after the loop of
\* run.js:768): no clearing loop, wait or retry keeps it on one code for ever.
RunEnds == []<>(part = League => pc \in {"off", "paused"})
=============================================================================
