------------------------------ MODULE ClaimRoom ------------------------------
(***************************************************************************)
(* The ClaimRoom Durable Object of infra/upload-worker/worker.js: which    *)
(* scout is capturing which map.  One action per event the runtime         *)
(* delivers; the platform runs each handler's storage calls without        *)
(* letting another event in, except while `identify` verifies a session.   *)
(* The runtime may drop the object's memory between events (hibernation)   *)
(* while the sockets and their attachments stay.                           *)
(***************************************************************************)
EXTENDS Naturals, FiniteSets

CONSTANTS
    Keys,        \* maps, "match_id:game_no"
    Sockets,     \* WebSocket connections, each used once
    Owners,      \* accounts
    Admins,      \* the ones capture is open to (ADMIN_IDS)
    OwnerOf,     \* the account a socket's session belongs to
    Free,        \* no owner
    Unloaded,    \* this.claims === null
    StaleAfter,  \* CLAIM_STALE_MS, in ticks
    PruneEvery   \* CLAIM_PRUNE_EVERY_MS, in ticks

ASSUME RoomAssumption ==
    /\ Admins \subseteq Owners /\ Free \notin Owners
    /\ OwnerOf \in [Sockets -> Owners]
    /\ Unloaded \notin [Keys -> Owners \cup {Free}]
    /\ StaleAfter \in Nat /\ PruneEvery \in Nat \ {0}

VARIABLES
    claims,   \* this.claims: the owner per key, or Unloaded
    stored,   \* storage "claims"
    age,      \* ticks since a held key's claim was last set
    alarm,    \* ticks until the alarm, PruneEvery + 1 when none is set
    socket,   \* per socket: where its connection is
    actor     \* history: the owner the last event acted for, or Free

roomVars == <<claims, stored, age, alarm, socket, actor>>

Table == [Keys -> Owners \cup {Free}]
NoAlarm == PruneEvery + 1
Phases == {"new", "anon", "verifying", "bound", "closed"}

RoomTypeOK ==
    /\ claims \in Table \cup {Unloaded}
    /\ stored \in Table
    /\ age \in [Keys -> 0..(StaleAfter + 1)]
    /\ \A k \in Keys : stored[k] = Free => age[k] = 0
    /\ alarm \in 0..NoAlarm
    /\ socket \in [Sockets -> Phases]
    /\ actor \in Owners \cup {Free}

\* The storage starts empty.
RoomInit ==
    /\ claims = Unloaded
    /\ stored = [k \in Keys |-> Free]
    /\ age = [k \in Keys |-> 0]
    /\ alarm = NoAlarm
    /\ socket = [s \in Sockets |-> "new"]
    /\ actor = Free

-----------------------------------------------------------------------------
(* The object's helpers.                                                   *)

LoadedTable == IF claims = Unloaded THEN stored ELSE claims

\* What a mutation leaves in memory it also puts in storage.
Persist(table) == claims' = table /\ stored' = table

Claimed(table, k, o) == [table EXCEPT ![k] = o]
Freed(table, K) == [k \in Keys |-> IF k \in K THEN Free ELSE table[k]]
AgeReset(K) == [k \in Keys |-> IF k \in K THEN 0 ELSE age[k]]

\* doClaim: someone else's claim is left alone; one's own is refreshed.
\* Mutant: whoever claims last wins.
DoClaimSteals(table, k, o) == Persist(Claimed(table, k, o)) /\ age' = AgeReset({k})

DoClaim(table, k, o) ==
    IF table[k] \in {Free, o}
    THEN Persist(Claimed(table, k, o)) /\ age' = AgeReset({k})
    ELSE Persist(table) /\ UNCHANGED age

\* doRelease: only the owner's own claim.
DoRelease(table, k, o) ==
    /\ Persist(IF table[k] = o THEN Freed(table, {k}) ELSE table)
    /\ age' = IF table[k] = o THEN AgeReset({k}) ELSE age

EnsureAlarm == alarm' = IF alarm = NoAlarm THEN PruneEvery ELSE alarm

Open(s) == socket[s] \in {"anon", "verifying", "bound"}

-----------------------------------------------------------------------------
(* HTTP: fetch() loads the table first.  /claims, /claim and /unclaim only *)
(* reach the room with an admin's session.                                 *)

Connect(s) ==
    /\ socket[s] = "new"
    /\ socket' = [socket EXCEPT ![s] = "anon"]
    /\ claims' = LoadedTable
    /\ EnsureAlarm
    /\ actor' = OwnerOf[s]
    /\ UNCHANGED <<stored, age>>

HttpClaims(o) ==
    /\ o \in Admins
    /\ claims' = LoadedTable
    /\ actor' = o
    /\ UNCHANGED <<stored, age, alarm, socket>>

HttpClaim(o, k) ==
    /\ o \in Admins
    /\ DoClaim(LoadedTable, k, o)
    /\ EnsureAlarm
    /\ actor' = o
    /\ UNCHANGED socket

HttpUnclaim(o, k) ==
    /\ o \in Admins
    /\ DoRelease(LoadedTable, k, o)
    /\ actor' = o
    /\ UNCHANGED <<alarm, socket>>

-----------------------------------------------------------------------------
(* WebSocket messages: webSocketMessage does not load the table.           *)

Identify(s) ==
    /\ socket[s] \in {"anon", "bound"}
    /\ socket' = [socket EXCEPT ![s] = IF @ = "bound" THEN "bound" ELSE "verifying"]
    /\ actor' = OwnerOf[s]
    /\ UNCHANGED <<claims, stored, age, alarm>>

\* The session is verified; only an admin's socket gets an attachment.
\* Mutant: the check of isAdminSession is dropped.
IdentifiedAnyone(s) ==
    /\ socket[s] = "verifying"
    /\ socket' = [socket EXCEPT ![s] = "bound"]
    /\ actor' = OwnerOf[s]
    /\ UNCHANGED <<claims, stored, age, alarm>>

Identified(s) ==
    /\ socket[s] = "verifying"
    /\ socket' = [socket EXCEPT ![s] = IF OwnerOf[s] \in Admins THEN "bound" ELSE "anon"]
    /\ actor' = OwnerOf[s]
    /\ UNCHANGED <<claims, stored, age, alarm>>

\* A claim over the socket; it sets no alarm.  With no table in memory doClaim
\* throws and nothing happens.
WsClaim(s, k) ==
    /\ socket[s] = "bound" /\ claims # Unloaded
    /\ DoClaim(claims, k, OwnerOf[s])
    /\ actor' = OwnerOf[s]
    /\ UNCHANGED <<alarm, socket>>

\* Mutant: the release is not persisted.
WsUnclaimMemoryOnly(s, k) ==
    /\ socket[s] = "bound" /\ claims # Unloaded
    /\ claims' = IF claims[k] = OwnerOf[s] THEN Freed(claims, {k}) ELSE claims
    /\ actor' = OwnerOf[s]
    /\ UNCHANGED <<stored, age, alarm, socket>>

WsUnclaim(s, k) ==
    /\ socket[s] = "bound" /\ claims # Unloaded
    /\ DoRelease(claims, k, OwnerOf[s])
    /\ actor' = OwnerOf[s]
    /\ UNCHANGED <<alarm, socket>>

\* releaseAllOwned, unless another socket of the owner is open; a loop over a
\* table that is not in memory frees nothing.
StillHere(s) == \E t \in Sockets \ {s} : socket[t] = "bound" /\ OwnerOf[t] = OwnerOf[s]

WsClose(s) ==
    /\ Open(s)
    /\ socket' = [socket EXCEPT ![s] = "closed"]
    /\ IF socket[s] = "bound" /\ ~ StillHere(s) /\ claims # Unloaded
       THEN LET mine == {k \in Keys : claims[k] = OwnerOf[s]}
            IN  Persist(Freed(claims, mine)) /\ age' = AgeReset(mine)
       ELSE UNCHANGED <<claims, stored, age>>
    /\ actor' = OwnerOf[s]
    /\ UNCHANGED alarm

-----------------------------------------------------------------------------
(* The alarm, the runtime and time.                                        *)

\* Mutant: the alarm does not load the table, and finds no claim after hibernation.
AlarmWithoutLoad ==
    /\ alarm = 0
    /\ LET stale == {k \in Keys : claims # Unloaded /\ LoadedTable[k] # Free /\ age[k] > StaleAfter}
       IN  /\ Persist(Freed(LoadedTable, stale))
           /\ age' = AgeReset(stale)
           /\ alarm' = IF \E k \in Keys \ stale : LoadedTable[k] # Free
                       THEN PruneEvery ELSE NoAlarm
    /\ actor' = Free
    /\ UNCHANGED socket

Alarm ==
    /\ alarm = 0
    /\ LET stale == {k \in Keys : LoadedTable[k] # Free /\ age[k] > StaleAfter}
       IN  /\ Persist(Freed(LoadedTable, stale))
           /\ age' = AgeReset(stale)
           /\ alarm' = IF \E k \in Keys \ stale : LoadedTable[k] # Free
                       THEN PruneEvery ELSE NoAlarm
    /\ actor' = Free
    /\ UNCHANGED socket

\* Never while a handler is suspended.
Hibernate ==
    /\ claims # Unloaded
    /\ \A s \in Sockets : socket[s] # "verifying"
    /\ claims' = Unloaded
    /\ actor' = Free
    /\ UNCHANGED <<stored, age, alarm, socket>>

\* Ages past StaleAfter all count as stale; a due alarm is delivered first.
Tick ==
    /\ alarm > 0
    /\ age' = [k \in Keys |-> IF stored[k] # Free /\ age[k] <= StaleAfter
                              THEN age[k] + 1 ELSE age[k]]
    /\ alarm' = IF alarm = NoAlarm THEN NoAlarm ELSE alarm - 1
    /\ actor' = Free
    /\ UNCHANGED <<claims, stored, socket>>

-----------------------------------------------------------------------------
HttpStep == \E o \in Owners :
                \/ HttpClaims(o)
                \/ \E k \in Keys : HttpClaim(o, k) \/ HttpUnclaim(o, k)

SocketStep == \E s \in Sockets :
                  \/ Connect(s) \/ Identify(s) \/ Identified(s) \/ WsClose(s)
                  \/ \E k \in Keys : WsClaim(s, k) \/ WsUnclaim(s, k)

RoomNext == HttpStep \/ SocketStep \/ Alarm \/ Hibernate \/ Tick

RoomSpec == RoomInit /\ [][RoomNext]_roomVars

\* The platform delivers a due alarm, and time passes.
RoomFairSpec == RoomSpec /\ WF_roomVars(Alarm) /\ WF_roomVars(Tick)

-----------------------------------------------------------------------------
(* Properties.                                                             *)

\* Nothing is lost by hibernation: what the object has in memory is what the
\* storage holds, after every event.
MemoryIsDurable == claims # Unloaded => claims = stored

\* Capture is operator-only: no claim is ever held by another account, whichever
\* way a request reaches the room.
OnlyAdminsHold == \A k \in Keys : stored[k] \in Admins \cup {Free}

\* A claim never passes from one owner to another, and is freed only by its owner
\* (an unclaim, or the last socket closing) or once it is stale.
FreedOnlyByOwner ==
    [][\A k \in Keys : stored[k] # Free /\ stored'[k] # stored[k]
          => /\ stored'[k] = Free
             /\ actor' = stored[k] \/ age[k] > StaleAfter]_roomVars

\* Closing a socket frees nothing while another socket of its owner is open: a
\* second tab does not drop the first one's locks.
OtherTabKeepsClaims ==
    [][\A s \in Sockets : socket[s] # "closed" /\ socket'[s] = "closed" /\ StillHere(s)
          => stored' = stored]_roomVars

\* The room keeps the promise of Claims through hibernation, two channels and two
\* tabs: a map goes to one account at a time, which loses it only by letting go, by
\* leaving with its last tab or by going stale.
Promised == INSTANCE Claims WITH owner <- stored, idle <- age,
                                 tabs <- {s \in Sockets : socket[s] = "bound"}
ClaimsKept == Promised!ClaimsSpec

\* Once an alarm is set, claims do not outlive it unwatched: there is an alarm
\* again as long as any claim is left.
AlarmStays ==
    [][alarm # NoAlarm /\ (\E k \in Keys : stored'[k] # Free) => alarm' # NoAlarm]_roomVars

\* A stale claim that has an alarm coming does not stay: it is pruned or refreshed.
StaleIsPruned ==
    \A k \in Keys : []<>(age[k] <= StaleAfter \/ alarm = NoAlarm)

\* "A dropped socket frees that scout's maps at once": when the last socket of an
\* owner closes, the owner holds nothing.
DropFreesAtOnce ==
    [][\A s \in Sockets :
          socket[s] = "bound" /\ socket'[s] = "closed" /\ ~ StillHere(s)
              => \A k \in Keys : stored'[k] # OwnerOf[s]]_roomVars
=============================================================================
