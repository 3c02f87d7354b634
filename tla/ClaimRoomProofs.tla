-------------------------- MODULE ClaimRoomProofs --------------------------
(***************************************************************************)
(* What holds of the claim room for every set of maps, sockets and         *)
(* accounts, and every stale age and alarm period.                         *)
(***************************************************************************)
EXTENDS ClaimRoom, TLAPS

\* An attachment was only ever written for an admin.
BoundAreAdmins == \A s \in Sockets : socket[s] = "bound" => OwnerOf[s] \in Admins

\* OnlyAdminsHold and MemoryIsDurable are not inductive alone: a socket claims
\* for the account its attachment names, in the table that is in memory.
RoomInv == RoomTypeOK /\ MemoryIsDurable /\ OnlyAdminsHold /\ BoundAreAdmins

-----------------------------------------------------------------------------
(* The tables the helpers make.                                            *)

LEMMA TableFacts ==
    ASSUME NEW table \in Table
    PROVE  /\ \A k \in Keys, o \in Owners : Claimed(table, k, o) \in Table
           /\ \A K \in SUBSET Keys : Freed(table, K) \in Table
           /\ table # Unloaded
  BY RoomAssumption DEF Table, Claimed, Freed

LEMMA LoadedIsStored ==
    ASSUME RoomTypeOK, MemoryIsDurable
    PROVE  LoadedTable = stored /\ stored \in Table
  BY DEF RoomTypeOK, MemoryIsDurable, LoadedTable

\* A claim by an admin leaves a table of admins in memory and in storage.
LEMMA DoClaimKeeps ==
    ASSUME RoomTypeOK, OnlyAdminsHold, NEW k \in Keys, NEW o \in Admins,
           DoClaim(stored, k, o)
    PROVE  /\ claims' = stored' /\ stored' \in Table
           /\ \A j \in Keys : stored'[j] \in Admins \cup {Free}
           /\ age' \in [Keys -> 0..(StaleAfter + 1)]
           /\ \A j \in Keys : stored'[j] = Free => age'[j] = 0
           /\ \A j \in Keys : stored[j] # Free => stored'[j] = stored[j]
<1>1. stored \in Table /\ o \in Owners /\ o # Free /\ 0 \in 0..(StaleAfter + 1)
  BY RoomAssumption DEF RoomTypeOK
<1>2. CASE stored[k] \in {Free, o}
  <2>1. /\ stored' = Claimed(stored, k, o) /\ claims' = stored'
        /\ age' = AgeReset({k})
    BY <1>2 DEF DoClaim, Persist
  <2>2. \A j \in Keys : stored'[j] = IF j = k THEN o ELSE stored[j]
    BY <1>1, <2>1 DEF Claimed, Table
  <2>3. age' = [j \in Keys |-> IF j \in {k} THEN 0 ELSE age[j]]
    BY <2>1 DEF AgeReset
  <2> QED BY <1>1, <1>2, <2>1, <2>2, <2>3, TableFacts DEF RoomTypeOK, OnlyAdminsHold
<1>3. CASE stored[k] \notin {Free, o}
  BY <1>1, <1>3 DEF DoClaim, Persist, RoomTypeOK, OnlyAdminsHold
<1> QED BY <1>2, <1>3

\* Freeing some keys, with their ages, does too.
LEMMA FreeingKeeps ==
    ASSUME RoomTypeOK, OnlyAdminsHold, NEW K \in SUBSET Keys,
           Persist(Freed(stored, K)), age' = AgeReset(K)
    PROVE  /\ claims' = stored' /\ stored' \in Table
           /\ \A j \in Keys : stored'[j] \in Admins \cup {Free}
           /\ age' \in [Keys -> 0..(StaleAfter + 1)]
           /\ \A j \in Keys : stored'[j] = Free => age'[j] = 0
           /\ \A j \in Keys : stored'[j] = IF j \in K THEN Free ELSE stored[j]
<1>1. stored \in Table /\ 0 \in 0..(StaleAfter + 1)
  BY RoomAssumption DEF RoomTypeOK
<1>2. stored' = [j \in Keys |-> IF j \in K THEN Free ELSE stored[j]] /\ claims' = stored'
  BY DEF Persist, Freed
<1>3. age' = [j \in Keys |-> IF j \in K THEN 0 ELSE age[j]]
  BY DEF AgeReset
<1> QED BY <1>1, <1>2, <1>3 DEF RoomTypeOK, OnlyAdminsHold, Table

\* An owner's release is the freeing of its key, or nothing.
LEMMA DoReleaseKeeps ==
    ASSUME RoomTypeOK, OnlyAdminsHold, NEW k \in Keys, NEW o \in Owners,
           DoRelease(stored, k, o)
    PROVE  /\ claims' = stored' /\ stored' \in Table
           /\ \A j \in Keys : stored'[j] \in Admins \cup {Free}
           /\ age' \in [Keys -> 0..(StaleAfter + 1)]
           /\ \A j \in Keys : stored'[j] = Free => age'[j] = 0
           /\ \A j \in Keys : stored'[j] # stored[j] => stored[j] = o /\ stored'[j] = Free
<1>1. CASE stored[k] = o
  <2>1. Persist(Freed(stored, {k})) /\ age' = AgeReset({k})
    BY <1>1 DEF DoRelease
  <2>2. /\ claims' = stored' /\ stored' \in Table
        /\ \A j \in Keys : stored'[j] \in Admins \cup {Free}
        /\ age' \in [Keys -> 0..(StaleAfter + 1)]
        /\ \A j \in Keys : stored'[j] = Free => age'[j] = 0
        /\ \A j \in Keys : stored'[j] = IF j \in {k} THEN Free ELSE stored[j]
    BY <2>1, FreeingKeeps, {k} \in SUBSET Keys
  <2> QED BY <1>1, <2>2
<1>2. CASE stored[k] # o
  BY <1>2 DEF DoRelease, Persist, RoomTypeOK, OnlyAdminsHold
<1> QED BY <1>1, <1>2

-----------------------------------------------------------------------------
(* The invariant.                                                          *)

LEMMA InitRoomInv == RoomInit => RoomInv
<1> SUFFICES ASSUME RoomInit PROVE RoomInv
  OBVIOUS
<1>1. 0 \in 0..(StaleAfter + 1) /\ NoAlarm \in 0..NoAlarm
  BY RoomAssumption DEF NoAlarm
<1>2. RoomTypeOK
  BY <1>1 DEF RoomInit, RoomTypeOK, Table, Phases
<1> QED BY <1>2 DEF RoomInit, RoomInv, MemoryIsDurable, OnlyAdminsHold, BoundAreAdmins

LEMMA NextRoomInv == RoomInv /\ [RoomNext]_roomVars => RoomInv'
<1> SUFFICES ASSUME RoomInv, [RoomNext]_roomVars PROVE RoomInv'
  OBVIOUS
<1> USE DEF RoomInv
<1>a. LoadedTable = stored /\ stored \in Table
  BY LoadedIsStored
<1>b. claims # Unloaded => claims = stored
  BY DEF MemoryIsDurable
<1>c. PruneEvery \in 0..NoAlarm /\ NoAlarm \in 0..NoAlarm
      /\ (EnsureAlarm => alarm' \in 0..NoAlarm)
  BY RoomAssumption DEF NoAlarm, EnsureAlarm, RoomTypeOK
<1>d. ASSUME claims' = stored', stored' \in Table,
             \A j \in Keys : stored'[j] \in Admins \cup {Free},
             age' \in [Keys -> 0..(StaleAfter + 1)],
             \A j \in Keys : stored'[j] = Free => age'[j] = 0,
             alarm' \in 0..NoAlarm, actor' \in Owners \cup {Free},
             socket' \in [Sockets -> Phases],
             \A s \in Sockets : socket'[s] = "bound" => OwnerOf[s] \in Admins
      PROVE  RoomInv'
  BY <1>d DEF RoomTypeOK, MemoryIsDurable, OnlyAdminsHold, BoundAreAdmins
<1>e. ASSUME UNCHANGED <<stored, age>>, claims' \in {claims, Unloaded, LoadedTable},
             alarm' \in 0..NoAlarm, actor' \in Owners \cup {Free},
             socket' \in [Sockets -> Phases],
             \A s \in Sockets : socket'[s] = "bound" => OwnerOf[s] \in Admins
      PROVE  RoomInv'
  BY <1>a, <1>e DEF RoomTypeOK, MemoryIsDurable, OnlyAdminsHold, BoundAreAdmins
<1>f. ASSUME UNCHANGED socket
      PROVE  /\ socket' \in [Sockets -> Phases]
             /\ \A s \in Sockets : socket'[s] = "bound" => OwnerOf[s] \in Admins
  BY <1>f DEF RoomTypeOK, BoundAreAdmins
<1>g. \A s \in Sockets : OwnerOf[s] \in Owners
  BY RoomAssumption
<1>1. ASSUME NEW o \in Owners, HttpClaims(o) PROVE RoomInv'
  BY <1>1, <1>e, <1>f DEF HttpClaims, RoomTypeOK
<1>2. ASSUME NEW o \in Owners, NEW k \in Keys, HttpClaim(o, k) PROVE RoomInv'
  <2>1. o \in Admins /\ DoClaim(stored, k, o)
    BY <1>2, <1>a DEF HttpClaim
  <2> QED BY <1>2, <2>1, DoClaimKeeps, <1>c, <1>d, <1>f DEF HttpClaim
<1>3. ASSUME NEW o \in Owners, NEW k \in Keys, HttpUnclaim(o, k) PROVE RoomInv'
  <2>1. DoRelease(stored, k, o)
    BY <1>3, <1>a DEF HttpUnclaim
  <2> QED BY <1>3, <2>1, DoReleaseKeeps, <1>d, <1>f DEF HttpUnclaim, RoomTypeOK
<1>4. ASSUME NEW s \in Sockets, Connect(s) PROVE RoomInv'
  <2>1. /\ socket' \in [Sockets -> Phases]
        /\ \A t \in Sockets : socket'[t] = "bound" => OwnerOf[t] \in Admins
    BY <1>4 DEF Connect, RoomTypeOK, Phases, BoundAreAdmins
  <2> QED BY <1>4, <2>1, <1>c, <1>e, <1>g DEF Connect
<1>5. ASSUME NEW s \in Sockets, Identify(s) PROVE RoomInv'
  <2>1. /\ socket' \in [Sockets -> Phases]
        /\ \A t \in Sockets : socket'[t] = "bound" => OwnerOf[t] \in Admins
    BY <1>5 DEF Identify, RoomTypeOK, Phases, BoundAreAdmins
  <2> QED BY <1>5, <2>1, <1>e, <1>g DEF Identify, RoomTypeOK
<1>6. ASSUME NEW s \in Sockets, Identified(s) PROVE RoomInv'
  <2>1. /\ socket' \in [Sockets -> Phases]
        /\ \A t \in Sockets : socket'[t] = "bound" => OwnerOf[t] \in Admins
    BY <1>6 DEF Identified, RoomTypeOK, Phases, BoundAreAdmins
  <2> QED BY <1>6, <2>1, <1>e, <1>g DEF Identified, RoomTypeOK
<1>7. ASSUME NEW s \in Sockets, NEW k \in Keys, WsClaim(s, k) PROVE RoomInv'
  <2>1. OwnerOf[s] \in Admins /\ DoClaim(stored, k, OwnerOf[s])
    BY <1>7, <1>b DEF WsClaim, BoundAreAdmins
  <2> QED BY <1>7, <2>1, DoClaimKeeps, <1>d, <1>f, <1>g DEF WsClaim, RoomTypeOK
<1>8. ASSUME NEW s \in Sockets, NEW k \in Keys, WsUnclaim(s, k) PROVE RoomInv'
  <2>1. DoRelease(stored, k, OwnerOf[s])
    BY <1>8, <1>b DEF WsUnclaim
  <2> QED BY <1>8, <2>1, DoReleaseKeeps, <1>d, <1>f, <1>g DEF WsUnclaim, RoomTypeOK
<1>9. ASSUME NEW s \in Sockets, WsClose(s) PROVE RoomInv'
  <2>1. /\ socket' \in [Sockets -> Phases]
        /\ \A t \in Sockets : socket'[t] = "bound" => OwnerOf[t] \in Admins
    BY <1>9 DEF WsClose, RoomTypeOK, Phases, BoundAreAdmins
  <2>2. CASE socket[s] = "bound" /\ ~ StillHere(s) /\ claims # Unloaded
    <3>1. PICK mine \in SUBSET Keys : Persist(Freed(stored, mine)) /\ age' = AgeReset(mine)
      BY <1>9, <2>2, <1>b DEF WsClose
    <3> QED BY <1>9, <2>1, <3>1, FreeingKeeps, <1>d, <1>g DEF WsClose, RoomTypeOK
  <2>3. CASE ~ (socket[s] = "bound" /\ ~ StillHere(s) /\ claims # Unloaded)
    BY <1>9, <2>1, <2>3, <1>e, <1>g DEF WsClose, RoomTypeOK
  <2> QED BY <2>2, <2>3
<1>10. CASE Alarm
  <2>1. PICK stale \in SUBSET Keys : Persist(Freed(stored, stale)) /\ age' = AgeReset(stale)
    BY <1>10, <1>a DEF Alarm
  <2> QED BY <1>10, <2>1, FreeingKeeps, <1>c, <1>d, <1>f DEF Alarm
<1>11. CASE Hibernate
  BY <1>11, <1>e, <1>f DEF Hibernate, RoomTypeOK
<1>12. CASE Tick
  <2>1. alarm' \in 0..NoAlarm
    BY <1>12, RoomAssumption DEF Tick, RoomTypeOK, NoAlarm
  <2>2. age' \in [Keys -> 0..(StaleAfter + 1)]
    BY <1>12, RoomAssumption DEF Tick, RoomTypeOK
  <2>3. \A k \in Keys : stored'[k] = Free => age'[k] = 0
    BY <1>12 DEF Tick, RoomTypeOK
  <2> QED BY <1>12, <2>1, <2>2, <2>3, <1>f
          DEF Tick, RoomTypeOK, MemoryIsDurable, OnlyAdminsHold, BoundAreAdmins
<1>13. CASE UNCHANGED roomVars
  BY <1>13 DEF roomVars, RoomTypeOK, MemoryIsDurable, OnlyAdminsHold, BoundAreAdmins
<1> QED BY <1>1, <1>2, <1>3, <1>4, <1>5, <1>6, <1>7, <1>8, <1>9, <1>10, <1>11, <1>12,
           <1>13 DEF RoomNext, HttpStep, SocketStep

\* The invariant holds in every state of the room.
THEOREM RoomInvHolds == RoomSpec => []RoomInv
  BY InitRoomInv, NextRoomInv, PTL DEF RoomSpec

\* Every variable keeps its type, and a key nobody holds has no age.
THEOREM TypeCorrect == RoomSpec => []RoomTypeOK
  BY RoomInvHolds, PTL DEF RoomInv

\* However events and hibernation interleave, memory never differs from storage.
THEOREM Durable == RoomSpec => []MemoryIsDurable
  BY RoomInvHolds, PTL DEF RoomInv

\* No account outside ADMIN_IDS ever holds a claim, by HTTP or by WebSocket.
THEOREM AdminsOnly == RoomSpec => []OnlyAdminsHold
  BY RoomInvHolds, PTL DEF RoomInv

-----------------------------------------------------------------------------
(* What a step may never do.                                               *)

\* A claim a step takes away goes to nobody, and was its owner's or stale.
LEMMA StepFreesByOwner ==
    ASSUME RoomInv, [RoomNext]_roomVars, NEW j \in Keys, stored[j] # Free, stored'[j] # stored[j]
    PROVE  stored'[j] = Free /\ (actor' = stored[j] \/ age[j] > StaleAfter)
<1> USE DEF RoomInv
<1>a. LoadedTable = stored /\ (claims # Unloaded => claims = stored)
  BY LoadedIsStored DEF MemoryIsDurable
<1>b. /\ \A o \in Owners : Free # o
      /\ \A s \in Sockets : OwnerOf[s] \in Owners
      /\ \A s \in Sockets : socket[s] = "bound" => OwnerOf[s] \in Admins
  BY RoomAssumption DEF BoundAreAdmins
<1>1. ASSUME NEW o \in Admins, NEW k \in Keys, DoClaim(stored, k, o) PROVE FALSE
  BY <1>1, DoClaimKeeps
<1>2. ASSUME NEW o \in Owners, NEW k \in Keys, DoRelease(stored, k, o), actor' = o
      PROVE  stored'[j] = Free /\ actor' = stored[j]
  BY <1>2, DoReleaseKeeps
<1>3. ASSUME NEW o \in Owners, NEW k \in Keys, HttpClaim(o, k) PROVE FALSE
  BY <1>1, <1>3, <1>a DEF HttpClaim
<1>4. ASSUME NEW o \in Owners, NEW k \in Keys, HttpUnclaim(o, k)
      PROVE  stored'[j] = Free /\ actor' = stored[j]
  BY <1>2, <1>4, <1>a DEF HttpUnclaim
<1>5. ASSUME NEW s \in Sockets, NEW k \in Keys, WsClaim(s, k) PROVE FALSE
  BY <1>1, <1>5, <1>a, <1>b DEF WsClaim
<1>6. ASSUME NEW s \in Sockets, NEW k \in Keys, WsUnclaim(s, k)
      PROVE  stored'[j] = Free /\ actor' = stored[j]
  BY <1>2, <1>6, <1>a, <1>b DEF WsUnclaim
<1>7. ASSUME NEW s \in Sockets, WsClose(s)
      PROVE  stored'[j] = Free /\ actor' = stored[j]
  <2>1. socket[s] = "bound" /\ ~ StillHere(s) /\ claims # Unloaded
    BY <1>7 DEF WsClose
  <2> DEFINE mine == {k \in Keys : stored[k] = OwnerOf[s]}
  <2>2. Persist(Freed(stored, mine)) /\ age' = AgeReset(mine) /\ actor' = OwnerOf[s]
    BY <1>7, <1>a, <2>1 DEF WsClose
  <2>3. stored'[j] = IF j \in mine THEN Free ELSE stored[j]
    BY <2>2 DEF Persist, Freed
  <2> QED BY <2>2, <2>3
<1>8. ASSUME Alarm PROVE stored'[j] = Free /\ age[j] > StaleAfter
  <2> DEFINE stale == {k \in Keys : stored[k] # Free /\ age[k] > StaleAfter}
  <2>1. Persist(Freed(stored, stale))
    BY <1>8, <1>a DEF Alarm
  <2>2. stored'[j] = IF j \in stale THEN Free ELSE stored[j]
    BY <2>1 DEF Persist, Freed
  <2> QED BY <2>2
<1>9. ASSUME \/ Hibernate \/ Tick \/ UNCHANGED roomVars
             \/ \E o \in Owners : HttpClaims(o)
             \/ \E s \in Sockets : Connect(s) \/ Identify(s) \/ Identified(s)
      PROVE  FALSE
  BY <1>9 DEF Hibernate, Tick, roomVars, HttpClaims, Connect, Identify, Identified
<1> QED BY <1>3, <1>4, <1>5, <1>6, <1>7, <1>8, <1>9 DEF RoomNext, HttpStep, SocketStep

\* A claim never changes hands; only its owner or staleness ends it.
THEOREM OwnersFree == RoomSpec => FreedOnlyByOwner
<1>1. RoomInv /\ [RoomNext]_roomVars
        => [\A k \in Keys : stored[k] # Free /\ stored'[k] # stored[k]
              => /\ stored'[k] = Free
                 /\ actor' = stored[k] \/ age[k] > StaleAfter]_roomVars
  BY StepFreesByOwner
<1> QED BY <1>1, RoomInvHolds, PTL DEF RoomSpec, FreedOnlyByOwner

\* A second tab of the same account keeps the first one's claims.
THEOREM TabsKeep == RoomSpec => OtherTabKeepsClaims
<1> DEFINE Kept == \A s \in Sockets :
              socket[s] # "closed" /\ socket'[s] = "closed" /\ StillHere(s) => stored' = stored
<1>1. ASSUME RoomTypeOK, [RoomNext]_roomVars, NEW s \in Sockets,
             socket[s] # "closed", socket'[s] = "closed", StillHere(s)
      PROVE  stored' = stored
  <2>1. ASSUME NEW t \in Sockets, WsClose(t) PROVE t = s
    BY <1>1, <2>1 DEF WsClose, RoomTypeOK
  <2>2. WsClose(s)
    BY <1>1, <2>1 DEF RoomNext, roomVars, HttpStep, SocketStep, HttpClaims, HttpClaim, HttpUnclaim,
       Connect, Identify, Identified, WsClaim, WsUnclaim, Alarm, Hibernate, Tick, RoomTypeOK
  <2> QED BY <1>1, <2>2 DEF WsClose
<1>2. RoomTypeOK /\ [RoomNext]_roomVars => [Kept]_roomVars
  BY <1>1
<1> QED BY <1>2, TypeCorrect, PTL DEF RoomSpec, OtherTabKeepsClaims

\* Once set, the alarm goes only with the last claim.
THEOREM AlarmRemains == RoomSpec => AlarmStays
<1>1. ASSUME RoomInv, [RoomNext]_roomVars, alarm # NoAlarm, NEW k \in Keys, stored'[k] # Free
      PROVE  alarm' # NoAlarm
  <2>a. LoadedTable = stored /\ stored \in Table
    BY <1>1, LoadedIsStored DEF RoomInv
  <2>b. PruneEvery # NoAlarm
    BY RoomAssumption DEF NoAlarm
  <2>1. CASE Alarm
    <3> DEFINE stale == {j \in Keys : stored[j] # Free /\ age[j] > StaleAfter}
    <3>1. /\ Persist(Freed(stored, stale))
          /\ alarm' = IF \E j \in Keys \ stale : stored[j] # Free THEN PruneEvery ELSE NoAlarm
      BY <2>1, <2>a DEF Alarm
    <3>2. stored'[k] = IF k \in stale THEN Free ELSE stored[k]
      BY <3>1 DEF Persist, Freed
    <3> QED BY <1>1, <2>b, <3>1, <3>2
  <2>2. CASE Tick
    BY <1>1, <2>2, RoomAssumption DEF Tick, RoomInv, RoomTypeOK, NoAlarm
  <2>3. CASE EnsureAlarm \/ UNCHANGED alarm
    BY <1>1, <2>3, <2>b DEF EnsureAlarm
  <2> QED BY <1>1, <2>1, <2>2, <2>3 DEF RoomNext, roomVars, HttpStep, SocketStep, HttpClaims,
       HttpClaim, HttpUnclaim, Connect, Identify, Identified, WsClaim, WsUnclaim, WsClose,
       Hibernate
<1>2. RoomInv /\ [RoomNext]_roomVars
        => [alarm # NoAlarm /\ (\E k \in Keys : stored'[k] # Free) => alarm' # NoAlarm]_roomVars
  BY <1>1
<1> QED BY <1>2, RoomInvHolds, PTL DEF RoomSpec, AlarmStays
-----------------------------------------------------------------------------
(* The room implements Claims.                                             *)

Tabs == {s \in Sockets : socket[s] = "bound"}

\* The helpers, as the abstract actions have them.
LEMMA DoClaimIsTake ==
    ASSUME RoomTypeOK, NEW k \in Keys, NEW o \in Owners, DoClaim(stored, k, o), Tabs' = Tabs
    PROVE  Promised!Take(o, k) \/ UNCHANGED <<stored, age, Tabs>>
<1>1. CASE stored[k] \in {Free, o}
  <2>1. stored' = [stored EXCEPT ![k] = o]
    BY <1>1 DEF DoClaim, Persist, Claimed
  <2>2. age' = [j \in Keys |-> IF j = k THEN 0 ELSE age[j]]
    BY <1>1 DEF DoClaim, AgeReset
  <2> QED BY <1>1, <2>1, <2>2 DEF Promised!Take, Tabs
<1>2. CASE stored[k] \notin {Free, o}
  BY <1>2 DEF DoClaim, Persist
<1> QED BY <1>1, <1>2

LEMMA FreeingIsLet ==
    ASSUME NEW K, Persist(Freed(stored, K)), age' = AgeReset(K)
    PROVE  Promised!Let(K)
  BY DEF Persist, Freed, AgeReset, Promised!Let

LEMMA DoReleaseIsGiveUp ==
    ASSUME RoomTypeOK, NEW k \in Keys, NEW o \in Owners, DoRelease(stored, k, o), Tabs' = Tabs
    PROVE  Promised!GiveUp(o, k) \/ UNCHANGED <<stored, age, Tabs>>
<1>1. CASE stored[k] = o
  <2>1. Promised!Let({k})
    BY <1>1, FreeingIsLet DEF DoRelease
  <2> QED BY <1>1, <2>1 DEF Promised!GiveUp, Tabs
<1>2. CASE stored[k] # o
  BY <1>2 DEF DoRelease, Persist
<1> QED BY <1>1, <1>2

LEMMA InitImplementsClaims == RoomInit => Promised!ClaimsInit
<1> SUFFICES ASSUME RoomInit PROVE Promised!ClaimsInit
  OBVIOUS
<1>1. Tabs = {}
  BY DEF RoomInit, Tabs
<1> QED BY <1>1 DEF RoomInit, Promised!ClaimsInit, Tabs

LEMMA StepImplementsClaims ==
    ASSUME RoomInv, [RoomNext]_roomVars
    PROVE  Promised!ClaimsNext \/ UNCHANGED <<stored, age, Tabs>>
<1> USE DEF RoomInv
<1>a. LoadedTable = stored /\ (claims # Unloaded => claims = stored)
  BY LoadedIsStored DEF MemoryIsDurable
<1>b. \A s \in Sockets : OwnerOf[s] \in Owners
  BY RoomAssumption
<1>c. UNCHANGED socket => Tabs' = Tabs
  BY DEF Tabs
<1>1. ASSUME NEW o \in Owners, NEW k \in Keys, DoClaim(stored, k, o), UNCHANGED socket
      PROVE  Promised!ClaimsNext \/ UNCHANGED <<stored, age, Tabs>>
  BY <1>1, <1>c, DoClaimIsTake DEF Promised!ClaimsNext
<1>2. ASSUME NEW o \in Owners, NEW k \in Keys, DoRelease(stored, k, o), UNCHANGED socket
      PROVE  Promised!ClaimsNext \/ UNCHANGED <<stored, age, Tabs>>
  BY <1>2, <1>c, DoReleaseIsGiveUp DEF Promised!ClaimsNext
<1>3. ASSUME NEW o \in Owners, NEW k \in Keys, HttpClaim(o, k) \/ HttpUnclaim(o, k)
      PROVE  Promised!ClaimsNext \/ UNCHANGED <<stored, age, Tabs>>
  BY <1>1, <1>2, <1>3, <1>a DEF HttpClaim, HttpUnclaim
<1>4. ASSUME NEW s \in Sockets, NEW k \in Keys, WsClaim(s, k) \/ WsUnclaim(s, k)
      PROVE  Promised!ClaimsNext \/ UNCHANGED <<stored, age, Tabs>>
  BY <1>1, <1>2, <1>4, <1>a, <1>b DEF WsClaim, WsUnclaim
<1>5. ASSUME NEW s \in Sockets, Connect(s) \/ Identify(s)
      PROVE  UNCHANGED <<stored, age, Tabs>>
  <2>1. \A t \in Sockets : socket'[t] = "bound" <=> socket[t] = "bound"
    BY <1>5 DEF Connect, Identify, RoomTypeOK
  <2> QED BY <1>5, <2>1 DEF Connect, Identify, Tabs
<1>6. ASSUME NEW s \in Sockets, Identified(s)
      PROVE  Promised!ClaimsNext \/ UNCHANGED <<stored, age, Tabs>>
  <2>1. Tabs' = Tabs \cup {s} \/ Tabs' = Tabs
    BY <1>6 DEF Identified, RoomTypeOK, Tabs
  <2>2. Tabs' = Tabs \cup {s} => Promised!Arrive(s)
    BY <1>6 DEF Identified, Promised!Arrive, Tabs
  <2> QED BY <1>6, <2>1, <2>2 DEF Identified, Promised!ClaimsNext
<1>7. ASSUME NEW s \in Sockets, WsClose(s)
      PROVE  Promised!ClaimsNext \/ UNCHANGED <<stored, age, Tabs>>
  <2>1. Tabs' = Tabs \ {s}
    BY <1>7 DEF WsClose, RoomTypeOK, Tabs
  <2>2. CASE socket[s] # "bound"
    BY <1>7, <2>1, <2>2 DEF WsClose, Tabs
  <2>3. CASE socket[s] = "bound" /\ (StillHere(s) \/ claims = Unloaded)
    <3>1. UNCHANGED <<stored, age>> /\ s \in Tabs
      BY <1>7, <2>3 DEF WsClose, Tabs
    <3>2. Promised!Leave(s)
      BY <2>1, <3>1 DEF Promised!Leave, Tabs
    <3> QED BY <3>2 DEF Promised!ClaimsNext
  <2>4. CASE socket[s] = "bound" /\ ~ StillHere(s) /\ claims # Unloaded
    <3> DEFINE mine == {k \in Keys : stored[k] = OwnerOf[s]}
    <3>1. Persist(Freed(stored, mine)) /\ age' = AgeReset(mine)
      BY <1>7, <1>a, <2>4 DEF WsClose
    <3>2. Promised!Let(mine) /\ mine = Promised!Held(OwnerOf[s])
      BY <3>1, FreeingIsLet DEF Promised!Held
    <3>3. ~ Promised!OtherTab(s) /\ s \in Tabs
      BY <2>4 DEF StillHere, Promised!OtherTab, Tabs
    <3>4. Promised!Leave(s)
      BY <2>1, <3>2, <3>3 DEF Promised!Leave, Tabs
    <3> QED BY <3>4 DEF Promised!ClaimsNext
  <2> QED BY <2>2, <2>3, <2>4
<1>8. CASE Alarm
  <2> DEFINE stale == {k \in Keys : stored[k] # Free /\ age[k] > StaleAfter}
  <2>1. Persist(Freed(stored, stale)) /\ age' = AgeReset(stale) /\ UNCHANGED socket
    BY <1>8, <1>a DEF Alarm
  <2>2. Promised!Let(stale)
    BY <2>1, FreeingIsLet
  <2> QED BY <2>1, <2>2, <1>c DEF Promised!ClaimsNext, Promised!Expire, Tabs
<1>9. CASE Tick
  BY <1>9, <1>c DEF Tick, Promised!ClaimsNext, Promised!TimePasses, Tabs
<1>10. ASSUME \/ Hibernate \/ UNCHANGED roomVars \/ \E o \in Owners : HttpClaims(o)
       PROVE  UNCHANGED <<stored, age, Tabs>>
  BY <1>10, <1>c DEF Hibernate, roomVars, HttpClaims
<1> QED BY <1>3, <1>4, <1>5, <1>6, <1>7, <1>8, <1>9, <1>10 DEF RoomNext, HttpStep, SocketStep

\* Every behaviour of the room is one of Claims: hibernation, the two channels,
\* sessions and alarms never take a map from the account that has it, give it to a
\* second one, or free it for a tab that is not the last.
THEOREM RoomImplementsClaims == RoomSpec => ClaimsKept
<1>1. RoomInv /\ [RoomNext]_roomVars => [Promised!ClaimsNext]_<<stored, age, Tabs>>
  BY StepImplementsClaims
<1>2. RoomInv /\ [RoomNext]_roomVars => [Promised!ClaimsNext]_(Promised!claimsVars)
  BY <1>1 DEF Promised!claimsVars, Tabs
<1> QED BY <1>2, InitImplementsClaims, RoomInvHolds, PTL DEF RoomSpec, ClaimsKept, Promised!ClaimsSpec
=============================================================================
