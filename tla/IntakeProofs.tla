---------------------------- MODULE IntakeProofs ---------------------------
(***************************************************************************)
(* What holds of what comes in from outside: of the upload worker's        *)
(* requests outside the claim room, for any number of requests, accounts   *)
(* and tokens (one build per cooldown of /refresh, and an uploaded file    *)
(* stays its author's), and of what is read off a screen: the frames of a  *)
(* replay the bot seeks through, and the teams of a scrim.                 *)
(***************************************************************************)
EXTENDS Refresh, Upload, Capture, Scrims, TLAPS, FiniteSetTheorems, WellFoundedInduction

---------------------------------------------------------------------------
(*************************************************************************)
(* The cooldown of /refresh.                                             *)
(*************************************************************************)

\* CooldownHolds says nothing of who is under way.  As long as no two requests
\* passed the read together, one request at most is, it holds the claim from its
\* write on, and it has not fired yet; what has fired left its claim.
OneAtWork ==
    ~ raced => /\ \A q, r \in Requests : req[q] # "idle" /\ req[r] # "idle" => q = r
               /\ \A r \in Requests : req[r] \in {"verify", "send"} => claim = r
               /\ \A r \in Requests : req[r] # "idle" => fired = 0
               /\ fired <= 1
               /\ fired # 0 => claim # NoClaim

\* A claim has its holder still at work, or has fired, or outlived a worker.
ClaimHeld ==
    claim # NoClaim => \/ fired > 0
                       \/ died
                       \/ req[claim] \in {"verify", "send"}

RefreshInv == TypeOK /\ OneAtWork /\ ClaimHeld

LEMMA InitRefreshInv == Init => RefreshInv
<1> SUFFICES ASSUME Init PROVE RefreshInv
  OBVIOUS
<1>1. claim = NoClaim /\ fired = 0 /\ raced \in BOOLEAN /\ died \in BOOLEAN
      /\ req \in [Requests -> Steps] /\ \A r \in Requests : req[r] = "idle"
  BY DEF Init, Steps
<1>2. TypeOK
  BY <1>1 DEF TypeOK
<1>3. OneAtWork
  BY <1>1 DEF OneAtWork
<1>4. ClaimHeld
  BY <1>1 DEF ClaimHeld
<1> QED BY <1>2, <1>3, <1>4 DEF RefreshInv

\* The types after one request moved.
LEMMA MovesTyped ==
    ASSUME TypeOK, NEW r \in Requests, NEW s \in Steps, req' = [req EXCEPT ![r] = s]
    PROVE  /\ req' \in [Requests -> Steps] /\ req'[r] = s
           /\ \A q \in Requests : q # r => req'[q] = req[q]
  BY DEF TypeOK

LEMMA NextRefreshInv == RefreshInv /\ [Next]_vars => RefreshInv'
<1> SUFFICES ASSUME RefreshInv, [Next]_vars PROVE RefreshInv'
  OBVIOUS
<1>t. TypeOK /\ OneAtWork /\ ClaimHeld
  BY DEF RefreshInv
<1>n. \A r \in Requests : r # NoClaim
  BY RefreshAssumption
<1> USE DEF Steps
<1>1. ASSUME NEW r \in Requests, ReadCooldown(r) PROVE RefreshInv'
  <2>1. /\ req[r] = "idle" /\ claim = NoClaim /\ req' = [req EXCEPT ![r] = "claim"]
        /\ UNCHANGED <<claim, fired, died>>
        /\ raced' = (raced \/ \E q \in Requests : req[q] = "claim")
    BY <1>1 DEF ReadCooldown
  <2>2. req' \in [Requests -> Steps] /\ req'[r] = "claim"
        /\ \A q \in Requests : q # r => req'[q] = req[q]
    BY <1>t, <2>1, MovesTyped
  <2>3. ~ raced' => \A q \in Requests : req[q] = "idle"
    BY <1>n, <1>t, <2>1 DEF OneAtWork, TypeOK
  <2>4. TypeOK'
    BY <1>t, <2>1, <2>2 DEF TypeOK
  <2>5. OneAtWork'
    BY <1>t, <2>1, <2>2, <2>3 DEF OneAtWork, TypeOK
  <2>6. ClaimHeld'
    BY <2>1 DEF ClaimHeld
  <2> QED BY <2>4, <2>5, <2>6 DEF RefreshInv
<1>2. ASSUME NEW r \in Requests, WriteClaim(r) PROVE RefreshInv'
  <2>1. /\ req[r] = "claim" /\ claim' = r /\ req' = [req EXCEPT ![r] = "verify"]
        /\ UNCHANGED <<fired, raced, died>>
    BY <1>2 DEF WriteClaim
  <2>2. req' \in [Requests -> Steps] /\ req'[r] = "verify"
        /\ \A q \in Requests : q # r => req'[q] = req[q]
    BY <1>t, <2>1, MovesTyped
  <2>3. TypeOK' /\ ClaimHeld'
    BY <1>t, <2>1, <2>2 DEF TypeOK, ClaimHeld
  <2>4. OneAtWork'
    BY <1>n, <1>t, <2>1, <2>2 DEF OneAtWork
  <2> QED BY <2>3, <2>4 DEF RefreshInv
<1>3. ASSUME NEW r \in Requests, ReadBack(r) PROVE RefreshInv'
  <2>1. /\ req[r] = "verify" /\ UNCHANGED <<claim, fired, raced, died>>
        /\ req' = [req EXCEPT ![r] = IF claim = r THEN "send" ELSE "idle"]
    BY <1>3 DEF ReadBack
  <2>2. req' \in [Requests -> Steps] /\ req'[r] = (IF claim = r THEN "send" ELSE "idle")
        /\ \A q \in Requests : q # r => req'[q] = req[q]
    BY <1>t, <2>1, MovesTyped
  <2>3. TypeOK'
    BY <1>t, <2>1, <2>2 DEF TypeOK
  <2>4. OneAtWork'
    BY <1>t, <2>1, <2>2 DEF OneAtWork
  <2>5. ClaimHeld'
    BY <1>t, <2>1, <2>2 DEF ClaimHeld, TypeOK
  <2> QED BY <2>3, <2>4, <2>5 DEF RefreshInv
\* The three ways a request ends.
<1>4. ASSUME NEW r \in Requests, Dispatched(r) \/ DispatchFails(r) \/ WorkerDies(r)
      PROVE  RefreshInv'
  <2>1. req[r] # "idle" /\ req' = [req EXCEPT ![r] = "idle"] /\ UNCHANGED raced
    BY <1>4 DEF Dispatched, DispatchFails, WorkerDies
  <2>2. req' \in [Requests -> Steps] /\ req'[r] = "idle"
        /\ \A q \in Requests : q # r => req'[q] = req[q]
    BY <1>t, <2>1, MovesTyped
  <2>3. ~ raced => fired = 0 /\ \A q \in Requests : req'[q] = "idle"
    BY <1>t, <2>1, <2>2 DEF OneAtWork
  <2>4. CASE Dispatched(r)
    <3>1. req[r] = "send" /\ fired' = (IF fired = 0 THEN 1 ELSE 2) /\ UNCHANGED <<claim, died>>
      BY <2>4 DEF Dispatched
    <3>2. TypeOK' /\ ClaimHeld'
      BY <1>t, <2>1, <2>2, <3>1 DEF TypeOK, ClaimHeld
    <3>3. OneAtWork'
      BY <1>n, <1>t, <2>1, <2>3, <3>1 DEF OneAtWork
    <3> QED BY <3>2, <3>3 DEF RefreshInv
  <2>5. CASE DispatchFails(r)
    <3>1. claim' = NoClaim /\ UNCHANGED <<fired, died>>
      BY <2>5 DEF DispatchFails
    <3> QED
      BY <1>t, <2>1, <2>2, <2>3, <3>1 DEF RefreshInv, TypeOK, ClaimHeld, OneAtWork
  <2>6. CASE WorkerDies(r)
    <3>1. died' = TRUE /\ UNCHANGED <<claim, fired>>
      BY <2>6 DEF WorkerDies
    <3> QED
      BY <1>t, <2>1, <2>2, <2>3, <3>1 DEF RefreshInv, TypeOK, ClaimHeld, OneAtWork
  <2> QED BY <1>4, <2>4, <2>5, <2>6
<1>5. CASE CooldownEnds
  <2>1. /\ \A r \in Requests : req'[r] = "idle"
        /\ claim' = NoClaim /\ fired' = 0 /\ raced' \in BOOLEAN /\ died' \in BOOLEAN
        /\ UNCHANGED req
    BY <1>5 DEF CooldownEnds
  <2>2. TypeOK'
    BY <1>t, <2>1 DEF TypeOK
  <2>3. OneAtWork'
    BY <2>1 DEF OneAtWork
  <2>4. ClaimHeld'
    BY <2>1 DEF ClaimHeld
  <2> QED BY <2>2, <2>3, <2>4 DEF RefreshInv
<1>6. CASE UNCHANGED vars
  BY <1>6, <1>t DEF vars, RefreshInv, TypeOK, ClaimHeld, OneAtWork
<1> QED BY <1>1, <1>2, <1>3, <1>4, <1>5, <1>6 DEF Next

-----------------------------------------------------------------------------
\* Unless two requests pass the read together, a cooldown starts one build.
THEOREM OneBuildPerCooldown == Spec => []CooldownHolds
<1>1. RefreshInv => CooldownHolds
  BY DEF RefreshInv, OneAtWork, CooldownHolds
<1> QED BY <1>1, InitRefreshInv, NextRefreshInv, PTL DEF Spec

\* A claim left when all is quiet has started a build, or its worker died.
THEOREM NoCooldownForNothing == Spec => []CooldownEarned
<1>1. RefreshInv => CooldownEarned
  BY RefreshAssumption DEF RefreshInv, TypeOK, ClaimHeld, CooldownEarned
<1> QED BY <1>1, InitRefreshInv, NextRefreshInv, PTL DEF Spec

---------------------------------------------------------------------------
(*************************************************************************)
(* Whose a file is.  The record that says whose a name is lags behind    *)
(* the file by the calls to GitHub, so the invariant relates the two     *)
(* through the requests between them: a file's author is the record's,   *)
(* unless the request that wrote it has still to note it.                *)
(*************************************************************************)

Busy(r) == upload[r].at # "idle"

Kinds == {"idle", "record", "head", "put", "note"}

SenderFits ==
    \A r \in UploadRequests : Busy(r) =>
        /\ upload[r].key \in Accounts => upload[r].by = upload[r].key
        /\ upload[r].key \notin Accounts => upload[r].by \in Tokens
OneSender ==
    \A q, r \in UploadRequests :
        Busy(q) /\ Busy(r) /\ upload[q].key = upload[r].key /\ upload[r].key \notin crossed
            => upload[q].by = upload[r].by
LetThrough ==
    \A r \in UploadRequests :
        upload[r].at \in {"head", "put", "note"} /\ upload[r].key \notin crossed
            => upload[r].by \in Accounts \/ record[upload[r].key].of \in {Nobody, upload[r].by}
ToBeNoted ==
    \A r \in UploadRequests :
        upload[r].at = "note" /\ upload[r].key \notin crossed
            => stored[upload[r].key].by = upload[r].by
AuthorIsKnown ==
    \A k \in Keys :
        k \notin crossed /\ stored[k].by # Nobody =>
            \/ record[k].of = stored[k].by
            \/ \E r \in UploadRequests : /\ upload[r].at = "note" /\ upload[r].key = k
                                         /\ upload[r].by = stored[k].by
AccountsOwn == \A k \in Accounts : stored[k].by \in {Nobody, k}

\* The types a step needs; the counters play no part.
Shapes ==
    /\ record \in [Keys -> [of : Tokens \cup Accounts \cup {Nobody}, hot : BOOLEAN]]
    /\ stored \in [Keys -> [by : Tokens \cup Accounts \cup {Nobody}, version : Nat]]
    /\ upload \in [UploadRequests -> [at : Kinds, key : Keys,
                                      by : Tokens \cup Accounts \cup {Nobody}, saw : Nat]]
    /\ tick \in Nat

UploadInv == Shapes /\ SenderFits /\ OneSender /\ LetThrough /\ ToBeNoted /\ AuthorIsKnown /\ AccountsOwn

\* The invariant holds when nothing was uploaded.
LEMMA InitInv == ASSUME UploadInit PROVE UploadInv
  BY UploadAssumption DEF UploadInit, UploadInv, Shapes, SenderFits, OneSender, LetThrough,
     ToBeNoted, AuthorIsKnown, AccountsOwn, Busy, Kinds, Keys, Idle, NoFileYet

\* An admitted request writes an account's key with that account's session, and any
\* other with a token (worker.js:218-235).
LEMMA AdmittedFits ==
    ASSUME NEW h \in Headers, Admitted(h)
    PROVE  /\ KeyOf(h) \in Keys
           /\ KeyOf(h) \in Accounts => Writer(h) = KeyOf(h)
           /\ KeyOf(h) \notin Accounts => Writer(h) \in Tokens
           /\ Writer(h) \in Tokens \cup Accounts
  BY UploadAssumption DEF Headers, Admitted, KeyOf, Writer, Keys, Names, IsAdminSession

\* A new request keeps the invariant: a second sender at a key marks it as crossed.
LEMMA PostInv ==
    ASSUME UploadInv, NEW r \in UploadRequests, NEW h \in Headers, Post(r, h)
    PROVE  UploadInv'
  <1> DEFINE k == KeyOf(h)
             w == Writer(h)
  <1>1. /\ k \in Keys
        /\ k \in Accounts => w = k
        /\ k \notin Accounts => w \in Tokens
        /\ w \in Tokens \cup Accounts
    BY AdmittedFits DEF Post
  <1>2. /\ upload' = [upload EXCEPT ![r] = [at |-> "record", key |-> k, by |-> w, saw |-> 0]]
        /\ crossed' = crossed \cup {k : q \in {q \in InFlight(k) : upload[q].by # w}}
        /\ record' = record /\ stored' = stored /\ tick' = tick
        /\ upload[r].at = "idle"
    BY DEF Post
  <1>3. \A q \in UploadRequests : q # r /\ Busy(q) /\ upload[q].key = k /\ k \notin crossed'
            => upload[q].by = w
    BY <1>2 DEF InFlight, Busy
  <1>4. /\ upload'[r] = [at |-> "record", key |-> k, by |-> w, saw |-> 0]
        /\ \A q \in UploadRequests : q # r => upload'[q] = upload[q]
        /\ crossed \subseteq crossed'
    BY <1>2 DEF UploadInv, Shapes
  <1> HIDE DEF k, w
  <1>5. Shapes'
    BY <1>1, <1>2 DEF UploadInv, Shapes, Kinds
  <1>6. SenderFits'
    BY <1>1, <1>4 DEF UploadInv, SenderFits, Busy
  <1>7. OneSender'
    BY <1>3, <1>4 DEF UploadInv, OneSender, Busy
  <1>8. LetThrough' /\ ToBeNoted'
    BY <1>2, <1>4 DEF UploadInv, LetThrough, ToBeNoted
  <1>9. AuthorIsKnown' /\ AccountsOwn'
    BY <1>2, <1>4 DEF UploadInv, AuthorIsKnown, AccountsOwn
  <1> QED  BY <1>5, <1>6, <1>7, <1>8, <1>9 DEF UploadInv

\* A request that only moves on, having been let through, or is answered, having
\* nothing to note, keeps the invariant.
LEMMA MoveInv ==
    ASSUME UploadInv, NEW r \in UploadRequests, UNCHANGED <<record, stored, tick>>,
           crossed \subseteq crossed', NEW u, upload' = [upload EXCEPT ![r] = u],
           u \in [at : Kinds, key : Keys, by : Tokens \cup Accounts \cup {Nobody}, saw : Nat],
           upload[r].at # "idle", u.at # "note",
           upload[r].at = "note" => upload[r].key \in crossed',
           u.at # "idle" => u.key = upload[r].key /\ u.by = upload[r].by,
           u.at \in {"head", "put"} => upload[r].at \in {"head", "put"} \/ Owns(upload[r])
    PROVE  UploadInv'
  <1>1. /\ upload'[r] = u
        /\ \A q \in UploadRequests : q # r => upload'[q] = upload[q]
    BY DEF UploadInv, Shapes
  <1>2. Shapes'
    BY DEF UploadInv, Shapes
  <1>3. SenderFits' /\ OneSender'
    BY <1>1 DEF UploadInv, SenderFits, OneSender, Busy
  <1>4. LetThrough' /\ ToBeNoted'
    BY <1>1 DEF UploadInv, LetThrough, ToBeNoted, Owns
  <1>5. AuthorIsKnown' /\ AccountsOwn'
    BY <1>1 DEF UploadInv, AuthorIsKnown, AccountsOwn
  <1> QED  BY <1>2, <1>3, <1>4, <1>5 DEF UploadInv

\* What the invariant says of a request that is about to write a file: the author
\* that is there is the request's, unless two were at it.
LEMMA PutFits ==
    ASSUME UploadInv, NEW r \in UploadRequests, upload[r].at = "put"
    PROVE  LET u == upload[r]
           IN  /\ u.key \in Accounts => u.by = u.key /\ stored[u.key].by \in {Nobody, u.key}
               /\ stored[u.key].by \in {Nobody, u.by} \/ u.key \in crossed
  <1> DEFINE u == upload[r]
  <1>1. u.key \in Keys /\ Busy(r)
    BY DEF UploadInv, Shapes, Busy
  <1>2. u.key \in Accounts => u.by = u.key /\ stored[u.key].by \in {Nobody, u.key}
    BY <1>1 DEF UploadInv, SenderFits, AccountsOwn
  <1>3. ASSUME u.key \notin Accounts, u.key \notin crossed, stored[u.key].by # Nobody
        PROVE  stored[u.key].by = u.by
    <2>1. u.by \notin Accounts
      BY <1>1, <1>3, UploadAssumption DEF UploadInv, SenderFits
    <2>2. record[u.key].of \in {Nobody, u.by}
      BY <1>3, <2>1 DEF UploadInv, LetThrough
    <2>3. CASE record[u.key].of = stored[u.key].by
      BY <1>3, <2>2, <2>3
    <2>4. CASE \E q \in UploadRequests : /\ upload[q].at = "note" /\ upload[q].key = u.key
                                         /\ upload[q].by = stored[u.key].by
      BY <1>1, <1>3, <2>4 DEF UploadInv, OneSender, Busy
    <2> QED  BY <1>1, <1>3, <2>3, <2>4 DEF UploadInv, AuthorIsKnown
  <1> QED  BY <1>2, <1>3

\* Requests that keep their keys and senders still fit them.
LEMMA SameSenders ==
    ASSUME UploadInv, crossed' = crossed,
           \A q \in UploadRequests : /\ upload'[q].key = upload[q].key
                                     /\ upload'[q].by = upload[q].by
                                     /\ upload'[q].at # "idle" => upload[q].at # "idle"
    PROVE  SenderFits' /\ OneSender'
  BY DEF UploadInv, SenderFits, OneSender, Busy

\* A file that is written keeps the invariant: its request has still to note it.
LEMMA PutInv ==
    ASSUME UploadInv, NEW r \in UploadRequests, upload[r].at = "put",
           tick' = tick + 1,
           stored' = [stored EXCEPT ![upload[r].key] = [by |-> upload[r].by, version |-> tick + 1]],
           Go(r, "note"), UNCHANGED <<record, crossed>>
    PROVE  UploadInv'
  <1> DEFINE u == upload[r]
  <1>1. /\ upload'[r] = [u EXCEPT !.at = "note"] /\ u.key \in Keys /\ Busy(r)
        /\ upload'[r].at = "note" /\ upload'[r].key = u.key /\ upload'[r].by = u.by
        /\ \A q \in UploadRequests : q # r => upload'[q] = upload[q]
    BY DEF UploadInv, Shapes, Busy, Go, Kinds
  <1>2. /\ stored'[u.key] = [by |-> u.by, version |-> tick + 1]
        /\ stored'[u.key].by = u.by
        /\ \A k \in Keys : k # u.key => stored'[k] = stored[k]
    BY <1>1 DEF UploadInv, Shapes
  <1>3. Shapes'
    <2>1. record' \in [Keys -> [of : Tokens \cup Accounts \cup {Nobody}, hot : BOOLEAN]]
      BY DEF UploadInv, Shapes
    <2>2. u \in [at : Kinds, key : Keys, by : Tokens \cup Accounts \cup {Nobody}, saw : Nat]
      BY DEF UploadInv, Shapes
    <2>3. [u EXCEPT !.at = "note"] \in [at : Kinds, key : Keys,
                                        by : Tokens \cup Accounts \cup {Nobody}, saw : Nat]
      BY <2>2 DEF Kinds
    <2>4. upload' \in [UploadRequests -> [at : Kinds, key : Keys,
                                          by : Tokens \cup Accounts \cup {Nobody}, saw : Nat]]
      BY <2>3 DEF UploadInv, Shapes, Go
    <2>5. [by |-> u.by, version |-> tick + 1]
              \in [by : Tokens \cup Accounts \cup {Nobody}, version : Nat]
      BY <2>2 DEF UploadInv, Shapes
    <2>6. stored' \in [Keys -> [by : Tokens \cup Accounts \cup {Nobody}, version : Nat]]
      BY <2>5 DEF UploadInv, Shapes
    <2> QED  BY <2>1, <2>4, <2>6 DEF UploadInv, Shapes
  <1>4. SenderFits' /\ OneSender'
    <2>1. \A q \in UploadRequests : /\ upload'[q].key = upload[q].key
                                    /\ upload'[q].by = upload[q].by
                                    /\ upload'[q].at # "idle" => upload[q].at # "idle"
      BY <1>1 DEF Busy
    <2> QED  BY <2>1, SameSenders
  <1>5. LetThrough'
    BY <1>1 DEF UploadInv, LetThrough
  <1>6. ToBeNoted'
    <2> SUFFICES ASSUME NEW q \in UploadRequests, upload'[q].at = "note",
                        upload'[q].key \notin crossed
                 PROVE  stored'[upload'[q].key].by = upload'[q].by
      BY DEF ToBeNoted
    <2>1. CASE q = r
      BY <2>1, <1>1, <1>2
    <2>2. CASE q # r /\ upload[q].key = u.key
      BY <2>2, <1>1, <1>2 DEF UploadInv, OneSender, Busy
    <2>3. CASE q # r /\ upload[q].key # u.key
      BY <2>3, <1>1, <1>2 DEF UploadInv, ToBeNoted, Shapes
    <2> QED  BY <2>1, <2>2, <2>3
  <1>7. AuthorIsKnown'
    <2> SUFFICES ASSUME NEW k \in Keys, k \notin crossed, stored'[k].by # Nobody
                 PROVE  \/ record[k].of = stored'[k].by
                        \/ \E q \in UploadRequests : /\ upload'[q].at = "note"
                                                     /\ upload'[q].key = k
                                                     /\ upload'[q].by = stored'[k].by
      BY DEF AuthorIsKnown
    <2>1. CASE k = u.key
      BY <2>1, <1>1, <1>2
    <2>2. CASE k # u.key
      <3>1. \A q \in UploadRequests : upload[q].at = "note" => q # r
        OBVIOUS
      <3> QED  BY <2>2, <3>1, <1>1, <1>2 DEF UploadInv, AuthorIsKnown
    <2> QED  BY <2>1, <2>2
  <1>8. AccountsOwn'
    BY <1>1, <1>2, PutFits DEF UploadInv, AccountsOwn, Keys
  <1> QED  BY <1>3, <1>4, <1>5, <1>6, <1>7, <1>8 DEF UploadInv

\* The record that is written names the author the file has.
LEMMA NoteInv ==
    ASSUME UploadInv, NEW r \in UploadRequests, WriteRecord(r)
    PROVE  UploadInv'
  <1> DEFINE u == upload[r]
  <1>1. /\ upload'[r] = Idle /\ u.at = "note" /\ u.key \in Keys /\ Busy(r)
        /\ \A q \in UploadRequests : q # r => upload'[q] = upload[q]
        /\ record'[u.key].of = u.by
        /\ \A k \in Keys : k # u.key => record'[k] = record[k]
        /\ stored' = stored /\ crossed' = crossed /\ tick' = tick
    BY DEF UploadInv, Shapes, WriteRecord, Answer, Busy
  <1>2. Shapes'
    <2>1. u \in [at : Kinds, key : Keys, by : Tokens \cup Accounts \cup {Nobody}, saw : Nat]
      BY DEF UploadInv, Shapes
    <2>2. [of |-> u.by, hot |-> TRUE] \in [of : Tokens \cup Accounts \cup {Nobody}, hot : BOOLEAN]
      BY <2>1
    <2>3. record' \in [Keys -> [of : Tokens \cup Accounts \cup {Nobody}, hot : BOOLEAN]]
      BY <2>2 DEF UploadInv, Shapes, WriteRecord
    <2>4. Idle \in [at : Kinds, key : Keys, by : Tokens \cup Accounts \cup {Nobody}, saw : Nat]
      BY DEF Idle, Kinds, Keys
    <2>5. upload' \in [UploadRequests -> [at : Kinds, key : Keys,
                                          by : Tokens \cup Accounts \cup {Nobody}, saw : Nat]]
      BY <2>4 DEF UploadInv, Shapes, WriteRecord, Answer
    <2> QED  BY <1>1, <2>3, <2>5 DEF UploadInv, Shapes
  <1>3. SenderFits' /\ OneSender' /\ ToBeNoted' /\ AccountsOwn'
    BY <1>1 DEF UploadInv, SenderFits, OneSender, ToBeNoted, AccountsOwn, Busy, Idle
  <1>4. LetThrough'
    <2> SUFFICES ASSUME NEW q \in UploadRequests, upload'[q].at \in {"head", "put", "note"},
                        upload'[q].key \notin crossed
                 PROVE  upload'[q].by \in Accounts
                            \/ record'[upload'[q].key].of \in {Nobody, upload'[q].by}
      BY <1>1 DEF LetThrough
    <2>1. q # r /\ upload'[q] = upload[q] /\ Busy(q) /\ upload[q].key \in Keys
      BY <1>1 DEF Idle, Busy, UploadInv, Shapes
    <2>2. CASE upload[q].key = u.key
      BY <2>1, <2>2, <1>1 DEF UploadInv, OneSender
    <2>3. CASE upload[q].key # u.key
      BY <2>1, <2>3, <1>1 DEF UploadInv, LetThrough
    <2> QED  BY <2>2, <2>3
  <1>5. AuthorIsKnown'
    <2> SUFFICES ASSUME NEW k \in Keys, k \notin crossed, stored[k].by # Nobody
                 PROVE  \/ record'[k].of = stored[k].by
                        \/ \E q \in UploadRequests : /\ upload'[q].at = "note"
                                                     /\ upload'[q].key = k
                                                     /\ upload'[q].by = stored[k].by
      BY <1>1 DEF AuthorIsKnown
    <2>1. CASE k = u.key
      BY <2>1, <1>1 DEF UploadInv, ToBeNoted
    <2>2. CASE k # u.key
      BY <2>2, <1>1 DEF UploadInv, AuthorIsKnown
    <2> QED  BY <2>1, <2>2
  <1> QED  BY <1>2, <1>3, <1>4, <1>5 DEF UploadInv

\* The end of the interval touches no ownership.
LEMMA IntervalInv ==
    ASSUME UploadInv, NEW k \in Keys, IntervalOver(k)
    PROVE  UploadInv'
  <1>1. /\ stored' = stored /\ upload' = upload /\ tick' = tick /\ crossed' = crossed
        /\ \A j \in Keys : record'[j].of = record[j].of
        /\ record' \in [Keys -> [of : Tokens \cup Accounts \cup {Nobody}, hot : BOOLEAN]]
    BY DEF UploadInv, Shapes, IntervalOver
  <1>2. Shapes' /\ SenderFits' /\ OneSender' /\ ToBeNoted' /\ AccountsOwn'
    BY <1>1 DEF UploadInv, Shapes, SenderFits, OneSender, ToBeNoted, AccountsOwn, Busy
  <1>3. LetThrough' /\ AuthorIsKnown'
    BY <1>1 DEF UploadInv, LetThrough, AuthorIsKnown, Shapes
  <1> QED  BY <1>2, <1>3 DEF UploadInv

\* Every step keeps the invariant.
LEMMA StepInv == UploadInv /\ [UploadNext]_uploadVars => UploadInv'
  <1> SUFFICES ASSUME UploadInv, [UploadNext]_uploadVars PROVE UploadInv'
    OBVIOUS
  <1> DEFINE Records == [at : Kinds, key : Keys, by : Tokens \cup Accounts \cup {Nobody}, saw : Nat]
  <1>0. /\ Idle \in Records /\ Idle.at = "idle"
        /\ upload \in [UploadRequests -> Records]
        /\ \A k \in Keys : stored[k].version \in Nat
    BY DEF Idle, Kinds, Keys, UploadInv, Shapes
  <1>1. ASSUME NEW r \in UploadRequests, NEW h \in Headers, Post(r, h) PROVE UploadInv'
    BY <1>1, PostInv
  <1>2. ASSUME NEW r \in UploadRequests, ReadRecord(r) PROVE UploadInv'
    <2>1. CASE Owns(upload[r]) /\ Go(r, "head")
      <3> DEFINE u == [upload[r] EXCEPT !.at = "head"]
      <3>1. upload[r] \in Records
        BY <1>0
      <3>2. u \in Records /\ u.at = "head" /\ u.key = upload[r].key /\ u.by = upload[r].by
        BY <3>1 DEF Kinds
      <3>3. upload' = [upload EXCEPT ![r] = u]
        BY <2>1 DEF Go
      <3> HIDE DEF u
      <3> QED  BY <1>2, <2>1, <3>2, <3>3, MoveInv DEF ReadRecord
    <2>2. CASE Answer(r)
      BY <1>0, <1>2, <2>2, MoveInv DEF ReadRecord, Answer
    <2> QED  BY <1>2, <2>1, <2>2 DEF ReadRecord
  <1>3. ASSUME NEW r \in UploadRequests, ReadHead(r) PROVE UploadInv'
    <2>1. CASE Answer(r)
      BY <1>0, <1>3, <2>1, MoveInv DEF ReadHead, Answer
    <2>2. CASE upload' = [upload EXCEPT ![r].at = "put",
                                        ![r].saw = stored[upload[r].key].version]
      <3> DEFINE u == [upload[r] EXCEPT !.at = "put", !.saw = stored[upload[r].key].version]
      <3>1. upload[r] \in Records /\ upload[r].key \in Keys
        BY <1>0
      <3>2. u \in Records /\ u.at = "put" /\ u.key = upload[r].key /\ u.by = upload[r].by
        BY <1>0, <3>1 DEF Kinds
      <3>3. upload' = [upload EXCEPT ![r] = u]
        BY <2>2, <1>0
      <3> HIDE DEF u
      <3> QED  BY <1>3, <3>2, <3>3, MoveInv DEF ReadHead
    <2> QED  BY <1>3, <2>1, <2>2 DEF ReadHead
  <1>4. ASSUME NEW r \in UploadRequests, PutUpload(r) PROVE UploadInv'
    <2>1. CASE Answer(r) /\ UNCHANGED <<stored, tick>>
      BY <1>0, <1>4, <2>1, MoveInv DEF PutUpload, Answer
    <2>2. CASE /\ tick' = tick + 1
               /\ stored' = [stored EXCEPT ![upload[r].key] =
                                [by |-> upload[r].by, version |-> tick + 1]]
               /\ Go(r, "note")
      BY <1>4, <2>2, PutInv DEF PutUpload
    <2> QED  BY <1>4, <2>1, <2>2 DEF PutUpload
  <1>5. ASSUME NEW r \in UploadRequests, WriteRecord(r) PROVE UploadInv'
    BY <1>5, NoteInv
  <1>6. ASSUME NEW r \in UploadRequests, UploadDies(r) PROVE UploadInv'
    BY <1>0, <1>6, MoveInv DEF UploadDies, Answer
  <1>7. ASSUME NEW k \in Keys, IntervalOver(k) PROVE UploadInv'
    BY <1>7, IntervalInv
  <1>8. CASE UNCHANGED uploadVars
    BY <1>8 DEF uploadVars, UploadInv, Shapes, SenderFits, OneSender, LetThrough, ToBeNoted,
       AuthorIsKnown, AccountsOwn, Busy
  <1> QED  BY <1>1, <1>2, <1>3, <1>4, <1>5, <1>6, <1>7, <1>8 DEF UploadNext

\* A step that changes a file changes it to the request's that writes it, which the
\* invariant says is its author's.
LEMMA StepKeepsAuthor == UploadInv /\ [UploadNext]_uploadVars => [FileKeepsItsAuthor]_uploadVars
  <1> SUFFICES ASSUME UploadInv, [UploadNext]_uploadVars, NEW k \in Keys, stored'[k] # stored[k]
               PROVE  /\ k \in Accounts => stored'[k].by = k
                      /\ stored[k].by \in {Nobody, stored'[k].by} \/ k \in crossed
    BY DEF FileKeepsItsAuthor
  <1>1. PICK r \in UploadRequests :
            /\ upload[r].at = "put"
            /\ stored' = [stored EXCEPT ![upload[r].key] = [by |-> upload[r].by, version |-> tick + 1]]
    BY DEF UploadNext, uploadVars, Post, ReadRecord, ReadHead, PutUpload, WriteRecord, UploadDies,
       IntervalOver
  <1>2. upload[r].key = k /\ stored'[k].by = upload[r].by
    BY <1>1 DEF UploadInv, Shapes
  <1> QED  BY <1>1, <1>2, PutFits

\* The invariant of the upload: the record, the file and the requests between them agree
\* on whose a key is, unless two installs were at it together (worker.js:236-282).
THEOREM UploadInvHolds == UploadSpec => []UploadInv
  <1>1. UploadInit => UploadInv
    BY InitInv
  <1> QED  BY <1>1, StepInv, PTL DEF UploadSpec

\* A file stays its author's (worker.js:236 and 282), however many requests, accounts
\* and tokens there are.
THEOREM FilesStayTheirAuthors == UploadSpec => FileIsTheOwners
  <1> QED  BY UploadInvHolds, StepKeepsAuthor, PTL DEF UploadSpec, FileIsTheOwners

-----------------------------------------------------------------------------
(* The roster.  A record is written by a request whose file is there, and   *)
(* of a key only an account, or only tokens, write either.                  *)

Fits(k, who) == IF k \in Accounts THEN who = k ELSE who \in Tokens
RecordedFits == \A k \in Keys : record[k].of # Nobody => Fits(k, record[k].of) /\ stored[k].by # Nobody
StoredFits == \A k \in Keys : stored[k].by # Nobody => Fits(k, stored[k].by)
Written == \A r \in UploadRequests : upload[r].at = "note" => stored[upload[r].key].by # Nobody
NotForgotten ==
    \A k \in Keys : stored[k].by # Nobody =>
        \/ record[k].of # Nobody \/ k \in crossed
        \/ \E r \in UploadRequests : upload[r].at = "note" /\ upload[r].key = k

RosterInv == RecordedFits /\ StoredFits /\ Written /\ NotForgotten

\* The sender of a request fits its key.
LEMMA BusyFits ==
    ASSUME UploadInv, NEW r \in UploadRequests, Busy(r)
    PROVE  upload[r].key \in Keys /\ Fits(upload[r].key, upload[r].by) /\ upload[r].by # Nobody
  BY UploadAssumption DEF UploadInv, Shapes, SenderFits, Busy, Fits

\* A step of a request that writes neither file nor record, and that ends no note unless
\* it leaves a mark, keeps the roster.
LEMMA RosterMove ==
    ASSUME RosterInv, UploadInv, NEW r \in UploadRequests, UNCHANGED <<record, stored>>,
           crossed \subseteq crossed',
           \A q \in UploadRequests : q # r => upload'[q] = upload[q],
           upload'[r].at # "note", upload[r].at = "note" => upload[r].key \in crossed'
    PROVE  RosterInv'
  <1>1. RecordedFits' /\ StoredFits'
    BY DEF RosterInv, RecordedFits, StoredFits
  <1>2. Written'
    BY DEF RosterInv, Written
  <1>3. NotForgotten'
    BY DEF RosterInv, NotForgotten
  <1> QED  BY <1>1, <1>2, <1>3 DEF RosterInv

\* Every step keeps the roster.
LEMMA RosterStep == UploadInv /\ RosterInv /\ [UploadNext]_uploadVars => RosterInv'
  <1> SUFFICES ASSUME UploadInv, RosterInv, [UploadNext]_uploadVars PROVE RosterInv'
    OBVIOUS
  <1>0. upload \in [UploadRequests -> [at : Kinds, key : Keys, by : Tokens \cup Accounts \cup {Nobody}, saw : Nat]]
    BY DEF UploadInv, Shapes
  <1>1. ASSUME NEW r \in UploadRequests, NEW h \in Headers, Post(r, h) PROVE RosterInv'
    BY <1>0, <1>1, RosterMove DEF Post
  <1>2. ASSUME NEW r \in UploadRequests, ReadRecord(r) PROVE RosterInv'
    BY <1>0, <1>2, RosterMove DEF ReadRecord, Go, Answer, Idle
  <1>3. ASSUME NEW r \in UploadRequests, ReadHead(r) PROVE RosterInv'
    BY <1>0, <1>3, RosterMove DEF ReadHead, Answer, Idle
  <1>4. ASSUME NEW r \in UploadRequests, PutUpload(r) PROVE RosterInv'
    <2>1. CASE Answer(r) /\ UNCHANGED <<stored, tick>>
      BY <1>0, <1>4, <2>1, RosterMove DEF PutUpload, Answer, Idle
    <2>2. CASE /\ stored' = [stored EXCEPT ![upload[r].key] = [by |-> upload[r].by, version |-> tick + 1]]
               /\ Go(r, "note")
      <3> DEFINE key == upload[r].key
      <3>1. key \in Keys /\ Fits(key, upload[r].by) /\ upload[r].by # Nobody
        BY <1>4, BusyFits DEF PutUpload, Busy
      <3>2. /\ record' = record /\ crossed' = crossed
            /\ \A q \in UploadRequests : upload'[q].key = upload[q].key
            /\ \A q \in UploadRequests : q # r => upload'[q] = upload[q]
            /\ upload'[r].at = "note"
        BY <1>0, <1>4, <2>2 DEF PutUpload, Go
      <3>3. /\ stored'[key].by = upload[r].by
            /\ \A k \in Keys : k # key => stored'[k] = stored[k]
        BY <2>2, <3>1 DEF UploadInv, Shapes
      <3>4. RecordedFits' /\ StoredFits'
        BY <3>1, <3>2, <3>3 DEF RosterInv, RecordedFits, StoredFits
      <3>5. Written'
        <4> SUFFICES ASSUME NEW q \in UploadRequests, upload'[q].at = "note"
                     PROVE  stored'[upload[q].key].by # Nobody
          BY <3>2 DEF Written
        <4>1. CASE upload[q].key = key
          BY <4>1, <3>1, <3>3
        <4>2. CASE upload[q].key # key
          BY <4>2, <1>0, <3>2, <3>3 DEF RosterInv, Written
        <4> QED  BY <4>1, <4>2
      <3>6. NotForgotten'
        <4> SUFFICES ASSUME NEW k \in Keys, stored'[k].by # Nobody
                     PROVE  \/ record[k].of # Nobody \/ k \in crossed
                            \/ \E q \in UploadRequests : upload'[q].at = "note" /\ upload'[q].key = k
          BY <3>2 DEF NotForgotten
        <4>1. CASE k = key
          BY <4>1, <3>2
        <4>2. CASE k # key
          BY <4>2, <3>2, <3>3 DEF RosterInv, NotForgotten
        <4> QED  BY <4>1, <4>2
      <3> QED  BY <3>4, <3>5, <3>6 DEF RosterInv
    <2> QED  BY <1>4, <2>1, <2>2 DEF PutUpload
  <1>5. ASSUME NEW r \in UploadRequests, WriteRecord(r) PROVE RosterInv'
    <2> DEFINE key == upload[r].key
    <2>1. key \in Keys /\ Fits(key, upload[r].by) /\ upload[r].by # Nobody /\ stored[key].by # Nobody
      BY <1>5, BusyFits DEF WriteRecord, Busy, RosterInv, Written
    <2>2. /\ stored' = stored /\ crossed' = crossed
          /\ \A q \in UploadRequests : q # r => upload'[q] = upload[q]
          /\ upload'[r].at # "note"
      BY <1>0, <1>5 DEF WriteRecord, Answer, Idle
    <2>3. /\ record'[key].of = upload[r].by
          /\ \A k \in Keys : k # key => record'[k] = record[k]
      BY <1>5, <2>1 DEF WriteRecord, UploadInv, Shapes
    <2>4. RecordedFits' /\ StoredFits'
      BY <2>1, <2>2, <2>3 DEF RosterInv, RecordedFits, StoredFits
    <2>5. Written'
      BY <2>2 DEF RosterInv, Written
    <2>6. NotForgotten'
      <3> SUFFICES ASSUME NEW k \in Keys, stored[k].by # Nobody
                   PROVE  \/ record'[k].of # Nobody \/ k \in crossed
                          \/ \E q \in UploadRequests : upload'[q].at = "note" /\ upload'[q].key = k
        BY <2>2 DEF NotForgotten
      <3>1. CASE k = key
        BY <3>1, <2>1, <2>3
      <3>2. CASE k # key
        BY <3>2, <2>2, <2>3 DEF RosterInv, NotForgotten
      <3> QED  BY <3>1, <3>2
    <2> QED  BY <2>4, <2>5, <2>6 DEF RosterInv
  <1>6. ASSUME NEW r \in UploadRequests, UploadDies(r) PROVE RosterInv'
    BY <1>0, <1>6, RosterMove DEF UploadDies, Answer, Idle
  <1>7. ASSUME NEW k \in Keys, IntervalOver(k) PROVE RosterInv'
    <2>1. /\ stored' = stored /\ upload' = upload /\ crossed' = crossed
          /\ \A j \in Keys : record'[j].of = record[j].of
      BY <1>7 DEF IntervalOver, UploadInv, Shapes
    <2> QED  BY <2>1 DEF RosterInv, RecordedFits, StoredFits, Written, NotForgotten
  <1>8. CASE UNCHANGED uploadVars
    BY <1>8 DEF uploadVars, RosterInv, RecordedFits, StoredFits, Written, NotForgotten
  <1> QED  BY <1>1, <1>2, <1>3, <1>4, <1>5, <1>6, <1>7, <1>8 DEF UploadNext

\* The operator's roster is the list of the files (worker.js:272, 284 and 428), however
\* many requests, accounts and tokens there are.
THEOREM RosterHolds == UploadSpec => []RosterIsTheFiles
  <1>1. UploadInit => RosterInv
    BY DEF UploadInit, RosterInv, RecordedFits, StoredFits, Written, NotForgotten, Idle, NoFileYet
  <1>2. RosterInv => RosterIsTheFiles
    BY UploadAssumption DEF RosterInv, RecordedFits, StoredFits, NotForgotten, Fits, RosterIsTheFiles,
       adminContributors, login, adminContributorDetail
  <1> QED  BY <1>1, <1>2, RosterStep, UploadInvHolds, PTL DEF UploadSpec

-----------------------------------------------------------------------------
---------------------------------------------------------------------------
(*************************************************************************)
(* One map, from the pause to its record, for any client, any rounds on  *)
(* the bar and any error of the rate within which the intervals can be   *)
(* told apart: what a sample says it shows was on the screen.            *)
(*************************************************************************)

Measured == {"structure", "drive", "check", "sample", "done"}
Sampling == {"drive", "check", "sample", "done"}

Client == [playing : BOOLEAN, media : BOOLEAN, panel : BOOLEAN, interval : INTERVALS, where : Int]
Scale == [zero : Int, is : Int, said : Int]

\* A plan takes one round after another, and never one again that it has left.
GoesAlong(p) ==
    /\ p \in Seq(Nat)
    /\ \A k \in 2..Len(p) :
         \/ RoundIndexOf(p[k]) = RoundIndexOf(p[k - 1])
         \/ \A i \in 1..k - 1 : RoundIndexOf(p[i]) # RoundIndexOf(p[k])

\* What a press is worth is one of the intervals the client has; and where the bar is
\* measured from its start and in single presses, it is what they are taken for, or the
\* step is an earlier map's.
ScaleIsRead ==
    /\ client \in Client /\ scale \in Scale
    /\ pos \in Int /\ plan \in Seq(Nat) /\ next \in Nat \ {0}
    /\ phase \in Measured =>
         /\ scale.said \in INTERVALS /\ scale.is \in Nat \ {0}
         /\ scale.zero = 0 /\ scale.is = client.interval
              => scale.said \in {client.interval, ChosenInterval}

\* The playhead is where it was last seen.
SeekIsSeen ==
    /\ phase \in {"check", "sample"} =>
         /\ seek.t \in Nat /\ seek.at \in Positions(client.where)
         /\ next <= Len(plan) /\ seek.t = plan[next]
    /\ phase = "sample" => pos = IF seek.at = Nowhere THEN seek.t ELSE seek.at

\* The sample the next one is compared with is of the round that is sampled now.
RecentIsOfTheRound ==
    /\ Len(samples) \in Nat /\ samples = [i \in 1..Len(samples) |-> samples[i]]
    /\ kept \subseteq 1..Len(samples)
    /\ GoesAlong(plan)
    /\ phase \notin Sampling => seen = {} /\ samples = <<>>
    /\ seen \subseteq {RoundIndexOf(plan[i]) : i \in 1..next - 1}
    /\ recent[1] \in 0..Len(samples)
    /\ next > 1 /\ next <= Len(plan) + 1 =>
         LET round == RoundIndexOf(plan[next - 1])
         IN  round \in seen /\ round # 0 => recent[1] # 0 /\ samples[recent[1]].round = round
    /\ next <= Len(plan) + 1

CaptureInv == ScaleIsRead /\ SeekIsSeen /\ RecentIsOfTheRound /\ SamplesAreWhereTheySay /\ EveryCompHasAFrame

-----------------------------------------------------------------------------
(* What a press is worth.                                                  *)

Nearest(p, q, v) ==
    \A w \in INTERVALS : \/ Abs(v * q - p) < Abs(w * q - p)
                         \/ Abs(v * q - p) = Abs(w * q - p) /\ v <= w

\* Of the six intervals one is nearest.
LEMMA OneIsNearest ==
    ASSUME NEW p \in Int, NEW q \in Int
    PROVE  \E v \in INTERVALS : Nearest(p, q, v)
<1> DEFINE a == Abs(5 * q - p)
           b == Abs(10 * q - p)
           c == Abs(20 * q - p)
           d == Abs(30 * q - p)
           e == Abs(45 * q - p)
           f == Abs(60 * q - p)
<1>1. a \in Int /\ b \in Int /\ c \in Int /\ d \in Int /\ e \in Int /\ f \in Int
  BY DEF Abs
<1>2. ASSUME NEW v \in INTERVALS, NEW x \in Int, x = Abs(v * q - p),
             x < a \/ (x = a /\ v <= 5), x < b \/ (x = b /\ v <= 10), x < c \/ (x = c /\ v <= 20),
             x < d \/ (x = d /\ v <= 30), x < e \/ (x = e /\ v <= 45), x < f \/ (x = f /\ v <= 60)
      PROVE  Nearest(p, q, v)
  BY <1>2 DEF Nearest, INTERVALS
<1>3. /\ (a <= b /\ a <= c /\ a <= d /\ a <= e /\ a <= f => Nearest(p, q, 5))
      /\ (b < a /\ b <= c /\ b <= d /\ b <= e /\ b <= f => Nearest(p, q, 10))
      /\ (c < a /\ c < b /\ c <= d /\ c <= e /\ c <= f => Nearest(p, q, 20))
      /\ (d < a /\ d < b /\ d < c /\ d <= e /\ d <= f => Nearest(p, q, 30))
      /\ (e < a /\ e < b /\ e < c /\ e < d /\ e <= f => Nearest(p, q, 45))
      /\ (f < a /\ f < b /\ f < c /\ f < d /\ f < e => Nearest(p, q, 60))
  <2>1. a <= b /\ a <= c /\ a <= d /\ a <= e /\ a <= f => Nearest(p, q, 5)
    BY <1>1, <1>2 DEF INTERVALS
  <2>2. b < a /\ b <= c /\ b <= d /\ b <= e /\ b <= f => Nearest(p, q, 10)
    BY <1>1, <1>2 DEF INTERVALS
  <2>3. c < a /\ c < b /\ c <= d /\ c <= e /\ c <= f => Nearest(p, q, 20)
    BY <1>1, <1>2 DEF INTERVALS
  <2>4. d < a /\ d < b /\ d < c /\ d <= e /\ d <= f => Nearest(p, q, 30)
    BY <1>1, <1>2 DEF INTERVALS
  <2>5. e < a /\ e < b /\ e < c /\ e < d /\ e <= f => Nearest(p, q, 45)
    BY <1>1, <1>2 DEF INTERVALS
  <2>6. f < a /\ f < b /\ f < c /\ f < d /\ f < e => Nearest(p, q, 60)
    BY <1>1, <1>2 DEF INTERVALS
  <2> QED BY <2>1, <2>2, <2>3, <2>4, <2>5, <2>6
<1> HIDE DEF a, b, c, d, e, f
<1>4. \/ a <= b /\ a <= c /\ a <= d /\ a <= e /\ a <= f
      \/ b < a /\ b <= c /\ b <= d /\ b <= e /\ b <= f
      \/ c < a /\ c < b /\ c <= d /\ c <= e /\ c <= f
      \/ d < a /\ d < b /\ d < c /\ d <= e /\ d <= f
      \/ e < a /\ e < b /\ e < c /\ e < d /\ e <= f
      \/ f < a /\ f < b /\ f < c /\ f < d /\ f < e
  BY <1>1
<1> QED BY <1>3, <1>4 DEF INTERVALS

\* A press is worth one of the client's intervals, or it is not known what.
LEMMA StepIsAnInterval ==
    ASSUME NEW p \in Int, NEW q \in Int
    PROVE  stepSecondsFrom(p, q) \in INTERVALS \cup {0}
<1> DEFINE best == CHOOSE v \in INTERVALS : Nearest(p, q, v)
<1>1. best \in INTERVALS
  BY OneIsNearest
<1>2. stepSecondsFrom(p, q) \in {best, 0}
  BY DEF stepSecondsFrom, Nearest
<1> QED BY <1>1, <1>2

\* A rate that is measured well enough tells the intervals apart.
LEMMA IntervalsAreTold ==
    ASSUME NEW v \in INTERVALS, NEW e \in -12..16
    PROVE  stepSecondsFrom(v * (100 + e), 100) = v
<1> DEFINE p == v * (100 + e)
<1>1. p \in Int /\ v \in Int /\ v * 100 - p = -(v * e) /\ v * e \in Int
  BY DEF INTERVALS
<1>2. \A w \in INTERVALS : w # v => Abs(v * 100 - p) < Abs(w * 100 - p)
  BY DEF INTERVALS, Abs
<1>3. p > 0 /\ 5 * Abs(v * 100 - p) <= v * 100
  BY DEF INTERVALS, Abs
<1> HIDE DEF p
<1>4. Nearest(p, 100, v)
  BY <1>2 DEF Nearest, INTERVALS
<1>5. \A w \in INTERVALS : Nearest(p, 100, w) => w = v
  <2> TAKE w \in INTERVALS
  <2> HAVE Nearest(p, 100, w)
  <2>1. Abs(v * 100 - p) \in Int /\ Abs(w * 100 - p) \in Int
    BY <1>1 DEF Abs, INTERVALS
  <2>2. Abs(w * 100 - p) <= Abs(v * 100 - p)
    BY <2>1 DEF Nearest
  <2> QED BY <1>2, <2>1, <2>2
<1>6. (CHOOSE w \in INTERVALS : Nearest(p, 100, w)) = v
  BY <1>4, <1>5
<1>7. stepSecondsFrom(p, 100) = v
  <2> DEFINE best == CHOOSE w \in INTERVALS : Nearest(p, 100, w)
  <2>1. stepSecondsFrom(p, 100)
          = IF p <= 0 \/ 100 <= 0 \/ 5 * Abs(best * 100 - p) > best * 100 THEN 0 ELSE best
    BY DEF stepSecondsFrom, Nearest
  <2>2. best = v
    BY <1>6
  <2> HIDE DEF best
  <2>3. Abs(v * 100 - p) \in Int
    BY <1>1 DEF Abs
  <2> QED BY <1>1, <1>3, <2>1, <2>2, <2>3
<1> QED BY <1>7 DEF p

-----------------------------------------------------------------------------
(* The plan.                                                               *)

Segs == [play : BOOLEAN, from : Nat, to : Nat]

\* Rounding goes up with what is rounded, and leaves the times of the grid where they are.
LEMMA RoundedGoesUp ==
    ASSUME NEW step \in INTERVALS, NEW n \in Nat
    PROVE  /\ Rounded(n, 4 * step) \in Nat
           /\ 4 * Rounded(n, 4 * step) * step <= n + 2 * step
           /\ \A m \in Nat : n <= m => Rounded(n, 4 * step) <= Rounded(m, 4 * step)
           /\ \A k \in Nat : n = 4 * (k * step) => Rounded(n, 4 * step) = k
<1>1. step \in {5, 10, 20, 30, 45, 60}
  BY DEF INTERVALS
<1>2. CASE step = 5  BY <1>2 DEF Rounded
<1>3. CASE step = 10 BY <1>3 DEF Rounded
<1>4. CASE step = 20 BY <1>4 DEF Rounded
<1>5. CASE step = 30 BY <1>5 DEF Rounded
<1>6. CASE step = 45 BY <1>6 DEF Rounded
<1>7. CASE step = 60 BY <1>7 DEF Rounded
<1> QED BY <1>1, <1>2, <1>3, <1>4, <1>5, <1>6, <1>7

\* What is planned for a round is a point of it, in quarters of a second, put on the grid.
LEMMA PlannedOnTheGrid ==
    ASSUME NEW step \in INTERVALS, NEW s \in Segs, s.from < s.to, NEW t \in SegmentPlan(s, step)
    PROVE  \E n \in Nat : 4 * s.from <= n /\ n <= 4 * s.to /\ t = Rounded(n, 4 * step) * step
<1> DEFINE lo == (s.from + step - 1) \div step
           hi == (s.to - 1) \div step
<1>1. s.from \in Nat /\ s.to \in Nat
  BY DEF Segs
<1>2. CASE lo > hi
  <2>1. t \in {Rounded(3 * s.from + s.to, 4 * step) * step, Rounded(s.from + 3 * s.to, 4 * step) * step}
    BY <1>2 DEF SegmentPlan
  <2> QED BY <1>1, <2>1
<1>3. CASE ~(lo > hi)
  <2>1. PICK k \in lo..hi : t = k * step
    BY <1>3 DEF SegmentPlan
  <2>2. /\ k \in Nat /\ s.from <= k * step /\ k * step <= s.to
    <3>1. step \in {5, 10, 20, 30, 45, 60}
      BY DEF INTERVALS
    <3>2. CASE step = 5  BY <1>1, <2>1, <3>2
    <3>3. CASE step = 10 BY <1>1, <2>1, <3>3
    <3>4. CASE step = 20 BY <1>1, <2>1, <3>4
    <3>5. CASE step = 30 BY <1>1, <2>1, <3>5
    <3>6. CASE step = 45 BY <1>1, <2>1, <3>6
    <3>7. CASE step = 60 BY <1>1, <2>1, <3>7
    <3> QED BY <3>1, <3>2, <3>3, <3>4, <3>5, <3>6, <3>7
  <2>3. PICK n \in Nat : n = 4 * (k * step)
    <3>1. 4 * (k * step) \in Nat
      BY <2>2 DEF INTERVALS
    <3> QED BY <3>1
  <2>4. Rounded(n, 4 * step) = k
    BY <2>2, <2>3, RoundedGoesUp
  <2>5. 4 * s.from <= n /\ n <= 4 * s.to
    <3>1. PICK m \in Nat : m = k * step
      BY <2>2 DEF INTERVALS
    <3> QED BY <1>1, <2>2, <2>3, <3>1
  <2> QED BY <2>1, <2>4, <2>5
<1> QED BY <1>2, <1>3

\* Of numbers there is a least one.
LEMMA LeastOf ==
    ASSUME NEW S, S \subseteq Nat, S # {}
    PROVE  \E i \in S : \A j \in S : i <= j
<1>1. PICK i \in S : \A j \in S : ~ (<<j, i>> \in OpToRel(<, Nat))
  BY NatLessThanWellFounded, WFMin, Zenon
<1>2. \A j \in S : ~ (j < i)
  BY <1>1 DEF OpToRel
<1> QED BY <1>2

\* In a finite set of numbers every place has its number, and the later place the greater one.
LEMMA PlacesAreTaken ==
    ASSUME NEW S, S \subseteq Nat, IsFiniteSet(S)
    PROVE  /\ \A n \in 1..Cardinality(S) : \E t \in S : Cardinality({u \in S : u < t}) = n - 1
           /\ \A t, u \in S : Cardinality({v \in S : v < t}) < Cardinality({v \in S : v < u}) => t < u
<1> DEFINE Below(t) == {u \in S : u < t}
           place == [t \in S |-> Cardinality(Below(t))]
           N == Cardinality(S)
<1>1. N \in Nat
  BY FS_CardinalityType
<1>2. ASSUME NEW t \in S
      PROVE  IsFiniteSet(Below(t)) /\ Cardinality(Below(t)) \in 0..N - 1
  <2>1. Below(t) \in SUBSET S /\ t \notin Below(t)
    OBVIOUS
  <2>2. IsFiniteSet(Below(t)) /\ Cardinality(Below(t)) <= N /\ Cardinality(Below(t)) # N
    BY <2>1, FS_Subset
  <2>3. Cardinality(Below(t)) \in Nat
    BY <2>2, FS_CardinalityType
  <2> QED BY <1>1, <2>2, <2>3
<1>3. ASSUME NEW t \in S, NEW u \in S, t < u
      PROVE  place[t] < place[u]
  <2>1. Below(t) \in SUBSET Below(u) /\ t \in Below(u) /\ t \notin Below(t)
    <3>1. \A v \in S : v < t => v < u
      BY <1>3
    <3>2. ~(t < t)
      OBVIOUS
    <3> QED BY <1>3, <3>1, <3>2
  <2>2. IsFiniteSet(Below(u))
    BY <1>2
  <2>3. Cardinality(Below(t)) <= Cardinality(Below(u)) /\ Cardinality(Below(t)) # Cardinality(Below(u))
    BY <2>1, <2>2, FS_Subset
  <2> QED BY <1>2, <2>3
<1>4. \A t \in S : place[t] \in 0..N - 1
  BY <1>2
<1> HIDE DEF place, N
<1>5. place \in Injection(S, 0..N - 1)
  <2>1. place \in [S -> 0..N - 1]
    BY <1>4 DEF place
  <2>2. \A t, u \in S : place[t] = place[u] => t = u
    <3> SUFFICES ASSUME NEW t \in S, NEW u \in S, place[t] = place[u], t # u PROVE FALSE
      OBVIOUS
    <3>1. t < u \/ u < t
      OBVIOUS
    <3> QED BY <1>1, <1>3, <1>4, <3>1
  <2> QED BY <2>1, <2>2 DEF Injection, IsInjective
<1>6. place \in Surjection(S, 0..N - 1)
  <2>1. IsFiniteSet(0..N - 1) /\ Cardinality(0..N - 1) = N
    BY <1>1, FS_Interval
  <2> QED BY <1>5, <2>1, FS_Injection DEF N
<1>7. \A n \in 1..N : \E t \in S : place[t] = n - 1
  <2> SUFFICES ASSUME NEW n \in 1..N PROVE \E t \in S : place[t] = n - 1
    OBVIOUS
  <2>1. n - 1 \in 0..N - 1
    BY <1>1
  <2> QED BY <1>6, <2>1 DEF Surjection
<1>8. \A t, u \in S : place[t] < place[u] => t < u
  <2> SUFFICES ASSUME NEW t \in S, NEW u \in S, place[t] < place[u], ~(t < u) PROVE FALSE
    OBVIOUS
  <2>1. t = u \/ u < t
    OBVIOUS
  <2> QED BY <1>1, <1>3, <1>4, <2>1
<1> QED BY <1>7, <1>8 DEF place, N

\* What the plan visits of a bar, and in which order.
Rounds == {i \in DOMAIN Structure : Structure[i].play}

\* Where the segments lie.
LEMMA StructureFacts ==
    /\ Len(Structure) \in Nat /\ DOMAIN Structure = 1..Len(Structure) /\ Rounds \subseteq 1..Len(Structure)
    /\ \A i \in 1..Len(Structure) :
         /\ Structure[i] \in Segs /\ Structure[i].from \in Nat /\ Structure[i].to \in Nat
         /\ Structure[i].from < Structure[i].to
    /\ \A i, j \in 1..Len(Structure) : i < j => Structure[i].to <= Structure[j].from
<1>1. Structure \in Seq(Segs)
  BY StructureAssumption DEF Segs
<1>2. Len(Structure) \in Nat /\ DOMAIN Structure = 1..Len(Structure)
      /\ \A i \in 1..Len(Structure) : Structure[i] \in Segs
  BY <1>1
<1>3. \A s \in Segs : s.from \in Nat /\ s.to \in Nat
  BY DEF Segs
<1> QED BY <1>2, <1>3, StructureAssumption DEF Rounds

\* A time of the grid is less than a step behind its point.
LEMMA NearTheGrid ==
    ASSUME NEW step \in INTERVALS, NEW r \in Nat, NEW n \in Nat, NEW b \in Nat,
           4 * r * step <= n + 2 * step, n <= 4 * b
    PROVE  r * step <= b + step
<1>1. step \in {5, 10, 20, 30, 45, 60}
  BY DEF INTERVALS
<1>2. CASE step = 5 BY <1>2
<1>3. CASE step = 10 BY <1>3
<1>4. CASE step = 20 BY <1>4
<1>5. CASE step = 30 BY <1>5
<1>6. CASE step = 45 BY <1>6
<1>7. CASE step = 60 BY <1>7
<1> QED BY <1>1, <1>2, <1>3, <1>4, <1>5, <1>6, <1>7

\* The times of a round are times before those of a later one.
LEMMA PlannedInOrder ==
    ASSUME NEW step \in INTERVALS, NEW i \in Rounds, NEW t \in SegmentPlan(Structure[i], step)
    PROVE  /\ t \in Nat
           /\ t <= Structure[Len(Structure)].to + step
           /\ \A j \in Rounds : i < j => \A u \in SegmentPlan(Structure[j], step) : t <= u
<1>1. PICK n \in Nat : /\ 4 * Structure[i].from <= n /\ n <= 4 * Structure[i].to
                       /\ t = Rounded(n, 4 * step) * step
  BY StructureFacts, PlannedOnTheGrid
<1>2. PICK r \in Nat : r = Rounded(n, 4 * step) /\ 4 * r * step <= n + 2 * step
  BY RoundedGoesUp
<1>a. step \in {5, 10, 20, 30, 45, 60}
  BY DEF INTERVALS
<1>3. t \in Nat
  BY <1>1, <1>2, <1>a
<1>4. t <= Structure[Len(Structure)].to + step
  <2>1. i \in 1..Len(Structure) /\ Len(Structure) \in 1..Len(Structure)
    BY StructureFacts
  <2>2. Structure[i].to <= Structure[Len(Structure)].to
    <3>1. CASE i = Len(Structure)
      BY <2>1, <3>1, StructureFacts
    <3>2. CASE i < Len(Structure)
      BY <2>1, <3>2, StructureFacts
    <3> QED BY <2>1, <3>1, <3>2
  <2>3. PICK a \in Nat, b \in Nat : a = Structure[i].to /\ b = Structure[Len(Structure)].to /\ a <= b
    BY <2>1, <2>2, StructureFacts
  <2>4. n <= 4 * a
    BY <1>1, <2>3
  <2>5. n <= 4 * b
    BY <2>3, <2>4
  <2>6. r * step <= b + step
    BY <1>2, <2>5, NearTheGrid
  <2> QED BY <1>1, <1>2, <2>3, <2>6
<1>5. ASSUME NEW j \in Rounds, i < j, NEW u \in SegmentPlan(Structure[j], step)
      PROVE  t <= u
  <2>1. PICK m \in Nat : /\ 4 * Structure[j].from <= m /\ m <= 4 * Structure[j].to
                         /\ u = Rounded(m, 4 * step) * step
    BY StructureFacts, PlannedOnTheGrid
  <2>2. Structure[i].to <= Structure[j].from
    BY <1>5, StructureFacts
  <2>3. n <= m
    <3>1. Structure[i].to \in Nat /\ Structure[j].from \in Nat
      BY StructureFacts
    <3> QED BY <1>1, <2>1, <2>2, <3>1
  <2>4. PICK q \in Nat : q = Rounded(m, 4 * step) /\ r <= q
    BY <1>2, <2>3, RoundedGoesUp
  <2>5. r * step <= q * step
    BY <1>a, <2>4
  <2> QED BY <1>1, <1>2, <2>1, <2>4, <2>5
<1> QED BY <1>3, <1>4, <1>5

\* timeline.js planGrid: on whatever bar, with whatever interval, and however short the
\* rounds and the breaks between them, a plan never goes back and has no time twice.
THEOREM PlanIsOrdered ==
    ASSUME NEW step \in INTERVALS
    PROVE  LET p == planGrid(Structure, step)
           IN  /\ p \in Seq(Nat)
               /\ \A i, k \in 1..Len(p) : i < k => p[i] < p[k]
<1> DEFINE times == UNION {SegmentPlan(Structure[i], step) : i \in Rounds}
           N == Cardinality(times)
           First(t) == CHOOSE i \in Rounds :
                           /\ t \in SegmentPlan(Structure[i], step)
                           /\ \A j \in Rounds : t \in SegmentPlan(Structure[j], step) => i <= j
           first == [t \in times |-> First(t)]
           Before(t) == {u \in times : first[u] < first[t] \/ (first[u] = first[t] /\ u < t)}
           Below(t) == {u \in times : u < t}
<1>1. planGrid(Structure, step) = [n \in 1..N |-> CHOOSE t \in times : Cardinality(Before(t)) = n - 1]
  BY DEF planGrid, Rounds
<1>2. /\ times \subseteq Nat
      /\ \A t \in times : t <= Structure[Len(Structure)].to + step
  BY PlannedInOrder
<1>3. IsFiniteSet(times)
  <2>1. CASE Rounds = {}
    <3>1. times = {}
      BY <2>1
    <3> QED BY <3>1, FS_EmptySet
  <2>2. CASE Rounds # {}
    <3> HIDE DEF times, Before, Below, first, N
    <3>0. PICK i \in Rounds : i \in 1..Len(Structure)
      BY <2>2, StructureFacts
    <3>1. Len(Structure) \in 1..Len(Structure)
      BY <3>0, StructureFacts
    <3>2. Structure[Len(Structure)].to + step \in Nat
      BY <3>1, StructureFacts DEF INTERVALS
    <3> QED BY <1>2, <3>2, FS_BoundedSetOfNaturals
  <2> QED BY <2>1, <2>2
<1>4. ASSUME NEW t \in times
      PROVE  /\ first[t] \in Rounds /\ t \in SegmentPlan(Structure[first[t]], step)
             /\ \A j \in Rounds : t \in SegmentPlan(Structure[j], step) => first[t] <= j
  <2> DEFINE In == {i \in Rounds : t \in SegmentPlan(Structure[i], step)}
  <2>1. In # {} /\ In \subseteq Nat
    BY StructureFacts
  <2>2. \E i \in In : \A j \in In : i <= j
    BY <2>1, LeastOf
  <2>3. first[t] = First(t)
    OBVIOUS
  <2> QED BY <2>2, <2>3
<1> HIDE DEF first
<1>5. ASSUME NEW t \in times
      PROVE  Before(t) = Below(t)
  <2>a. /\ t \in Nat /\ first[t] \in Nat /\ first[t] \in Rounds
        /\ t \in SegmentPlan(Structure[first[t]], step)
    BY <1>2, <1>4, StructureFacts
  <2>1. ASSUME NEW u \in times, first[u] < first[t] PROVE u < t
    <3>1. first[u] \in Rounds /\ u \in SegmentPlan(Structure[first[u]], step)
      BY <1>4
    <3>2. u <= t
      BY <2>a, <2>1, <3>1, PlannedInOrder
    <3>3. first[u] # first[t]
      BY <2>a, <2>1
    <3>4. u # t
      BY <3>3
    <3> QED BY <1>2, <2>a, <3>2, <3>4
  <2>2. ASSUME NEW u \in times, u < t, ~(first[u] < first[t]), first[u] # first[t] PROVE FALSE
    <3>1. first[u] \in Rounds /\ first[u] \in Nat /\ u \in SegmentPlan(Structure[first[u]], step)
      BY <1>4, StructureFacts
    <3>2. first[t] < first[u]
      BY <2>a, <2>2, <3>1
    <3>3. t <= u
      BY <2>a, <3>1, <3>2, PlannedInOrder
    <3>4. u \in Nat /\ t \in Nat
      BY <1>2, <2>a
    <3> HIDE DEF times
    <3> QED BY <2>2, <3>3, <3>4
  <2> HIDE DEF times
  <2> QED BY <2>1, <2>2
<1> HIDE DEF times, Before, N
<1>7. /\ \A n \in 1..N : \E t \in times : Cardinality(Below(t)) = n - 1
      /\ \A t, u \in times : Cardinality(Below(t)) < Cardinality(Below(u)) => t < u
  BY <1>2, <1>3, PlacesAreTaken DEF N
<1>8. N \in Nat
  BY <1>3, FS_CardinalityType DEF N
<1>9. PICK p : p = planGrid(Structure, step)
  OBVIOUS
<1>10. ASSUME NEW n \in 1..N
       PROVE  p[n] \in times /\ Cardinality(Below(p[n])) = n - 1
  <2>1. p[n] = CHOOSE t \in times : Cardinality(Before(t)) = n - 1
    BY <1>1, <1>9
  <2>2. \E t \in times : Cardinality(Before(t)) = n - 1
    BY <1>5, <1>7
  <2>3. p[n] \in times /\ Cardinality(Before(p[n])) = n - 1
    BY <2>1, <2>2
  <2> QED BY <1>5, <2>3
<1>11. p \in Seq(Nat) /\ Len(p) = N
  <2>1. p = [n \in 1..N |-> p[n]]
    BY <1>1, <1>9
  <2>2. \A n \in 1..N : p[n] \in Nat
    BY <1>2, <1>10
  <2>3. [n \in 1..N |-> p[n]] \in Seq(Nat) /\ Len([n \in 1..N |-> p[n]]) = N
    BY <1>8, <2>2
  <2> QED BY <2>1, <2>3
<1>12. ASSUME NEW i \in 1..N, NEW k \in 1..N, i < k
       PROVE  p[i] < p[k]
  <2>1. /\ p[i] \in times /\ Cardinality(Below(p[i])) = i - 1
        /\ p[k] \in times /\ Cardinality(Below(p[k])) = k - 1
    BY <1>10
  <2>2. Cardinality(Below(p[i])) < Cardinality(Below(p[k]))
    BY <1>8, <1>12, <2>1
  <2> QED BY <1>7, <2>1, <2>2
<1> QED BY <1>9, <1>11, <1>12

Near(t, i) == Abs(2 * t - Mid(i))
InRound(t, i) == t >= Structure[i].from /\ t < Structure[i].to

\* A time is of the round it lies in, or else of the nearest.
LEMMA RoundFacts ==
    ASSUME NEW t \in Nat, Rounds # {}
    PROVE  LET r == RoundIndexOf(t)
           IN  /\ r \in Rounds
               /\ \/ InRound(t, r)
                  \/ /\ \A i \in Rounds : ~InRound(t, i)
                     /\ \A i \in Rounds : Near(t, r) < Near(t, i) \/ (Near(t, r) = Near(t, i) /\ r <= i)
<1> DEFINE Within == {i \in Rounds : InRound(t, i)}
           Closest(i) == \A j \in Rounds : Near(t, i) < Near(t, j) \/ (Near(t, i) = Near(t, j) /\ i <= j)
<1>1. /\ Within # {} => RoundIndexOf(t) = CHOOSE i \in Within : \A j \in Within : i <= j
      /\ Within = {} => RoundIndexOf(t) = CHOOSE i \in Rounds : Closest(i)
  <2>1. RoundIndexOf(t) = IF Within # {} THEN CHOOSE i \in Within : \A j \in Within : i <= j
                          ELSE IF Rounds = {} THEN 0
                          ELSE CHOOSE i \in Rounds : Closest(i)
    BY Zenon DEF RoundIndexOf, Rounds, Near, InRound
  <2> HIDE DEF Within, Closest
  <2>2. ASSUME Within # {} PROVE RoundIndexOf(t) = CHOOSE i \in Within : \A j \in Within : i <= j
    BY <2>1, <2>2
  <2>3. ASSUME Within = {} PROVE RoundIndexOf(t) = CHOOSE i \in Rounds : Closest(i)
    BY <2>1, <2>3
  <2> QED BY <2>2, <2>3
<1>2. Within \subseteq Nat /\ Rounds \subseteq Nat
  <2>1. Rounds \subseteq 1..Len(Structure) /\ 1..Len(Structure) \subseteq Nat
    BY StructureFacts
  <2> QED BY <2>1
<1>3. CASE Within # {}
  <2>1. \E i \in Within : \A j \in Within : i <= j
    BY <1>2, <1>3, LeastOf
  <2>2. RoundIndexOf(t) \in Within
    <3> HIDE DEF Within
    <3> QED BY <1>1, <1>3, <2>1
  <2> QED BY <2>2
<1>4. CASE Within = {}
  <2>1. \A i \in Rounds : Mid(i) \in Nat /\ Near(t, i) \in Nat
    <3> SUFFICES ASSUME NEW i \in Rounds PROVE Mid(i) \in Nat /\ Near(t, i) \in Nat
      OBVIOUS
    <3>1. Mid(i) \in Nat
      BY StructureFacts DEF Mid
    <3> QED BY <3>1 DEF Near, Abs
  <2> DEFINE Ways == {Near(t, i) : i \in Rounds}
  <2>2. PICK d \in Ways : \A e \in Ways : d <= e
    <3>1. Ways \subseteq Nat /\ Ways # {}
      BY <2>1
    <3> HIDE DEF Ways
    <3> QED BY <3>1, LeastOf
  <2> DEFINE At == {i \in Rounds : Near(t, i) = d}
  <2>3. PICK r \in At : \A j \in At : r <= j
    <3>1. At \subseteq Nat /\ At # {}
      BY <1>2, <2>2
    <3> HIDE DEF At
    <3> QED BY <3>1, LeastOf
  <2>4. r \in Rounds /\ Closest(r)
    <3>1. \A j \in Rounds : d <= Near(t, j) /\ (Near(t, j) = d => r <= j)
      BY <2>2, <2>3
    <3>2. d \in Nat /\ Near(t, r) = d /\ r \in Rounds
      BY <2>1, <2>2, <2>3
    <3> QED BY <2>1, <3>1, <3>2
  <2>5. RoundIndexOf(t) \in Rounds /\ Closest(RoundIndexOf(t))
    <3> HIDE DEF Closest, Within
    <3> QED BY <1>1, <1>4, <2>4
  <2> QED BY <1>4, <2>5
<1> QED BY <1>3, <1>4

\* A later time is of the same round or of a later one.
LEMMA RoundsGoUp ==
    ASSUME NEW t \in Nat, NEW u \in Nat, t <= u
    PROVE  RoundIndexOf(t) \in Nat /\ RoundIndexOf(t) <= RoundIndexOf(u)
<1>1. CASE Rounds = {}
  <2>1. RoundIndexOf(t) = 0 /\ RoundIndexOf(u) = 0
    BY <1>1 DEF RoundIndexOf, Rounds
  <2> QED BY <2>1
<1>2. CASE Rounds # {}
  <2>1. PICK r \in Rounds :
          /\ r = RoundIndexOf(t)
          /\ \/ InRound(t, r)
             \/ /\ \A i \in Rounds : ~InRound(t, i)
                /\ \A i \in Rounds : Near(t, r) < Near(t, i) \/ (Near(t, r) = Near(t, i) /\ r <= i)
    BY <1>2, RoundFacts
  <2>2. PICK q \in Rounds :
          /\ q = RoundIndexOf(u)
          /\ \/ InRound(u, q)
             \/ /\ \A i \in Rounds : ~InRound(u, i)
                /\ \A i \in Rounds : Near(u, q) < Near(u, i) \/ (Near(u, q) = Near(u, i) /\ q <= i)
    BY <1>2, RoundFacts
  <2>3. r \in Nat /\ q \in Nat
    BY StructureFacts
  <2>4. ASSUME q < r PROVE FALSE
    <3>1. PICK a \in Nat, b \in Nat, c \in Nat, d \in Nat :
            /\ a = Structure[q].from /\ b = Structure[q].to
            /\ c = Structure[r].from /\ d = Structure[r].to
            /\ a < b /\ b <= c /\ c < d
      BY <2>4, StructureFacts
    <3>2. /\ Near(t, q) = Abs(2 * t - (a + b)) /\ Near(t, r) = Abs(2 * t - (c + d))
          /\ Near(u, q) = Abs(2 * u - (a + b)) /\ Near(u, r) = Abs(2 * u - (c + d))
      BY <3>1 DEF Near, Mid
    <3>3. InRound(t, r) => c <= t
      BY <3>1 DEF InRound
    <3>4. InRound(u, q) => u < b
      BY <3>1 DEF InRound
    <3>5. ~InRound(t, r) => (t < a \/ b <= t) /\ Near(t, r) < Near(t, q)
      <4>1. ASSUME ~InRound(t, r) PROVE ~InRound(t, q) /\ (Near(t, r) < Near(t, q) \/ r <= q)
        BY <2>1, <4>1
      <4> QED BY <2>3, <2>4, <3>1, <4>1 DEF InRound
    <3>6. ~InRound(u, q) => (u < c \/ d <= u) /\ (Near(u, q) < Near(u, r) \/ Near(u, q) = Near(u, r))
      <4>1. ASSUME ~InRound(u, q) PROVE ~InRound(u, r) /\ (Near(u, q) < Near(u, r) \/ Near(u, q) = Near(u, r))
        BY <2>2, <4>1
      <4> QED BY <3>1, <4>1 DEF InRound
    <3> QED BY <3>1, <3>2, <3>3, <3>4, <3>5, <3>6 DEF Abs
  <2> QED BY <2>1, <2>2, <2>3, <2>4
<1> QED BY <1>1, <1>2

\* The plan of a bar whose rounds lie one after another goes along them.
LEMMA PlanGoesAlong ==
    ASSUME NEW step \in INTERVALS
    PROVE  GoesAlong(planGrid(Structure, step))
<1>1. PICK p \in Seq(Nat) : /\ p = planGrid(Structure, step)
                            /\ \A i, k \in 1..Len(p) : i < k => p[i] < p[k]
  BY PlanIsOrdered
<1>2. ASSUME NEW k \in 2..Len(p), RoundIndexOf(p[k]) # RoundIndexOf(p[k - 1]), NEW i \in 1..k - 1
      PROVE  RoundIndexOf(p[i]) # RoundIndexOf(p[k])
  <2>1. /\ k \in 1..Len(p) /\ k - 1 \in 1..Len(p) /\ i \in 1..Len(p) /\ k - 1 < k
        /\ i = k - 1 \/ i < k - 1
    OBVIOUS
  <2>2. p[i] \in Nat /\ p[k - 1] \in Nat /\ p[k] \in Nat
    BY <2>1
  <2>3. p[i] <= p[k - 1] /\ p[k - 1] <= p[k]
    <3>1. \A j, l \in 1..Len(p) : j < l => p[j] < p[l]
      BY <1>1
    <3>2. p[k - 1] < p[k]
      BY <2>1, <3>1
    <3>3. i < k - 1 => p[i] < p[k - 1]
      BY <2>1, <3>1
    <3> QED BY <2>1, <2>2, <3>2, <3>3
  <2>4. /\ RoundIndexOf(p[i]) \in Nat /\ RoundIndexOf(p[k - 1]) \in Nat /\ RoundIndexOf(p[k]) \in Nat
        /\ RoundIndexOf(p[i]) <= RoundIndexOf(p[k - 1]) /\ RoundIndexOf(p[k - 1]) <= RoundIndexOf(p[k])
    <3>1. RoundIndexOf(p[i]) \in Nat /\ RoundIndexOf(p[i]) <= RoundIndexOf(p[k - 1])
      BY <2>2, <2>3, RoundsGoUp
    <3>2. RoundIndexOf(p[k - 1]) \in Nat /\ RoundIndexOf(p[k - 1]) <= RoundIndexOf(p[k])
      BY <2>2, <2>3, RoundsGoUp
    <3>3. RoundIndexOf(p[k]) \in Nat
      <4>1. p[k] <= p[k]
        BY <2>2
      <4> QED BY <2>2, <4>1, RoundsGoUp
    <3> QED BY <3>1, <3>2, <3>3
  <2> QED BY <1>2, <2>4
<1> QED BY <1>1, <1>2 DEF GoesAlong

-----------------------------------------------------------------------------
(* Where the playhead is and is taken to be.                               *)

\* Presses, some lost and one doubled, lead to a time.
LEMMA PressedIsATime ==
    ASSUME NEW from \in Int, NEW n \in Int, NEW s \in Int
    PROVE  Pressed(from, n, s) \subseteq Int
<1>1. \A x \in Int : Clamp(x) \in Int
  BY CaptureAssumption DEF Clamp
<1>2. \A k \in 0..n \cup {2 * n} : from + k * s \in Int
  OBVIOUS
<1> QED BY <1>1, <1>2 DEF Pressed

\* A number of presses is an integer.
LEMMA RoundedIsAnInteger ==
    ASSUME NEW n \in Int, NEW d \in INTERVALS
    PROVE  Rounded(n, d) \in Int
  BY DEF Rounded, INTERVALS

\* Keys and drags lead to times.
LEMMA MovesAreTimes ==
    ASSUME ScaleIsRead, phase \in Measured, NEW from \in Int, NEW t \in Nat, NEW b \in BOOLEAN
    PROVE  Moves(from, t, b) \subseteq Int
<1>1. /\ client.where \in Int /\ client.interval \in INTERVALS /\ client.interval \in Int
      /\ scale.zero \in Int /\ scale.is \in Int /\ scale.said \in INTERVALS
  BY DEF ScaleIsRead, Client, Scale, INTERVALS
<1>2. /\ Rounded(t, scale.said) \in Int /\ Rounded(from - t, scale.said) \in Int
      /\ Rounded(t - from, scale.said) \in Int
  BY <1>1, RoundedIsAnInteger
<1>3. \A z \in {0, client.where} : Pressed(z, Rounded(t, scale.said), client.interval) \subseteq Int
  BY <1>1, <1>2, PressedIsATime
<1>4. Pressed(client.where, Rounded(t - from, scale.said), client.interval) \subseteq Int
  BY <1>1, <1>2, PressedIsATime
<1>5. Pressed(client.where, Rounded(from - t, scale.said), -client.interval) \subseteq Int
  BY <1>1, <1>2, PressedIsATime
<1>6. KeysTo(from, t) \subseteq Int
  <2> DEFINE restart == UNION {Pressed(z, Rounded(t, scale.said), client.interval) : z \in {0, client.where}}
  <2>1. restart \subseteq Int
    BY <1>3
  <2>2. KeysTo(from, t) \in {restart, {client.where},
            Pressed(client.where, Rounded(t - from, scale.said), client.interval),
            Pressed(client.where, Rounded(from - t, scale.said), -client.interval)}
    <3>1. from = Nowhere \/ from = t \/ t > from \/ from > t
      BY DEF Nowhere
    <3> QED BY <3>1 DEF KeysTo
  <2> QED BY <1>1, <1>4, <1>5, <2>1, <2>2
<1>7. DragTo(t) \subseteq Int
  <2>1. (t * scale.is) \div scale.said \in Int
    BY <1>1 DEF INTERVALS
  <2>2. TrueTime(t) \in Int
    BY <1>1, <2>1 DEF TrueTime
  <2> QED BY <1>1, <2>2 DEF DragTo
<1> QED BY <1>6, <1>7 DEF Moves

\* Where the playhead is taken to be is a time.
LEMMA PositionsAreTimes ==
    ASSUME ScaleIsRead, phase \in Measured, NEW where \in Int
    PROVE  Positions(where) \subseteq Int
<1>1. scale.zero \in Int /\ scale.is \in Nat \ {0} /\ scale.said \in INTERVALS
  BY DEF ScaleIsRead, Scale
<1>2. (where - scale.zero) * scale.said \in Int
  BY <1>1 DEF INTERVALS
<1>3. ((where - scale.zero) * scale.said) \div scale.is \in Int
  BY <1>1, <1>2
<1> QED BY <1>3 DEF Positions, Nowhere

\* What a seek leaves: the client elsewhere, and the time that was meant.
LEMMA MoveFacts ==
    ASSUME ScaleIsRead, phase \in Measured, NEW from \in Int, NEW t \in Nat, NEW left,
           NEW b \in BOOLEAN, Move(t, from, left, b), UNCHANGED scale
    PROVE  /\ client' \in Client /\ client'.interval = client.interval
           /\ seek'.t = t /\ seek'.at \in Positions(client'.where) /\ seek'.at \in Int
<1>1. PICK where \in Moves(from, t, b) : \E at \in Positions(where) :
        /\ client' = [client EXCEPT !.where = where]
        /\ seek' = [t |-> t, at |-> at, left |-> left]
  BY DEF Move
<1>2. where \in Int
  BY MovesAreTimes
<1>3. PICK at \in Positions(where) : /\ client' = [client EXCEPT !.where = where]
                                     /\ seek' = [t |-> t, at |-> at, left |-> left]
  BY <1>1
<1>4. client' \in Client /\ client'.interval = client.interval /\ client'.where = where
  BY <1>2, <1>3 DEF ScaleIsRead, Client
<1>5. at \in Int
  BY <1>2, PositionsAreTimes
<1> QED BY <1>3, <1>4, <1>5

\* Seen from its start, and in single presses, a bar shows the true time.
LEMMA TrueBar ==
    ASSUME NEW where \in Int, NEW step \in INTERVALS
    PROVE  ((where - 0) * step) \div step = where
  BY DEF INTERVALS

-----------------------------------------------------------------------------
(* The steps.                                                              *)

\* What was sampled stays as it is.
LEMMA SamplesStay ==
    ASSUME RecentIsOfTheRound, SamplesAreWhereTheySay, EveryCompHasAFrame, UNCHANGED sampleVars,
           phase' \notin Sampling => phase \notin Sampling
    PROVE  RecentIsOfTheRound' /\ SamplesAreWhereTheySay' /\ EveryCompHasAFrame'
<1>1. UNCHANGED <<plan, next, samples, kept, seen, recent>>
  BY DEF sampleVars
<1>2. RecentIsOfTheRound'
  BY <1>1 DEF RecentIsOfTheRound
<1>3. SamplesAreWhereTheySay'
  BY <1>1 DEF SamplesAreWhereTheySay
<1>4. EveryCompHasAFrame'
  BY <1>1 DEF EveryCompHasAFrame, Differ
<1> QED BY <1>2, <1>3, <1>4

\* Nothing is measured and nothing sampled.
LEMMA CaptureInvInit == CaptureInit => CaptureInv
<1> SUFFICES ASSUME CaptureInit PROVE CaptureInv
  OBVIOUS
<1>1. /\ phase = "pause"
      /\ client \in [playing : BOOLEAN, media : BOOLEAN, panel : {FALSE}, interval : Intervals,
                     where : {Opened}]
      /\ scale = [zero |-> 0, is |-> 0, said |-> 0] /\ pos = -1
      /\ plan = <<>> /\ next = 1 /\ samples = <<>> /\ kept = {} /\ seen = {} /\ recent = <<0, 0>>
  BY DEF CaptureInit, NoScale, Nowhere
<1>2. client \in Client
  <2>1. Intervals \subseteq INTERVALS /\ Opened \in Int
    BY CaptureAssumption
  <2>2. PICK b1 \in BOOLEAN, b2 \in BOOLEAN, v \in Intervals :
          client = [playing |-> b1, media |-> b2, panel |-> FALSE, interval |-> v, where |-> Opened]
    BY <1>1
  <2> QED BY <2>1, <2>2 DEF Client
<1>3. ScaleIsRead
  <2>1. plan \in Seq(Nat) /\ scale \in Scale
    BY <1>1 DEF Scale
  <2> QED BY <1>1, <1>2, <2>1 DEF ScaleIsRead, Measured
<1>4. SeekIsSeen
  BY <1>1 DEF SeekIsSeen
<1>5. GoesAlong(plan)
  BY <1>1 DEF GoesAlong
<1>6. RecentIsOfTheRound
  BY <1>1, <1>5 DEF RecentIsOfTheRound
<1>7. SamplesAreWhereTheySay /\ EveryCompHasAFrame
  BY <1>1 DEF SamplesAreWhereTheySay, EveryCompHasAFrame
<1> QED BY <1>3, <1>4, <1>6, <1>7 DEF CaptureInv

\* Up to the bar: the replay is stopped, the panel raised, the menu visited.
LEMMA RaisingKeeps ==
    ASSUME CaptureInv, EnsurePaused \/ OpenEventsViewer \/ SetInterval \/ NoOptionsTrip
    PROVE  CaptureInv'
<1>1. ScaleIsRead /\ SeekIsSeen /\ RecentIsOfTheRound /\ SamplesAreWhereTheySay /\ EveryCompHasAFrame
  BY DEF CaptureInv
<1>2. /\ phase \in {"pause", "viewer", "options"}
      /\ phase' \in {"viewer", "options", "calibrate", "failed"}
      /\ UNCHANGED <<scale, pos, seek, sampleVars>>
  BY DEF EnsurePaused, OpenEventsViewer, SetInterval, NoOptionsTrip, Fail
<1>3. client \in Client /\ ChosenInterval \in INTERVALS
  BY <1>1, CaptureAssumption DEF ScaleIsRead
<1>4. client' \in Client
  <2>1. CASE EnsurePaused
    BY <1>3, <2>1 DEF EnsurePaused, Fail, Client
  <2>2. CASE OpenEventsViewer
    <3>1. client' = client \/ \E media \in BOOLEAN, panel \in BOOLEAN :
            client' = [client EXCEPT !.media = media, !.panel = panel]
      BY <1>3, <2>2 DEF OpenEventsViewer, Toggled, Fail, Client
    <3> QED BY <1>3, <3>1 DEF Client
  <2>3. CASE SetInterval
    <3>1. client' = client \/ \E media \in BOOLEAN :
            client' = [client EXCEPT !.interval = ChosenInterval, !.media = media]
      BY <2>3 DEF SetInterval, Fail
    <3> QED BY <1>3, <3>1 DEF Client
  <2>4. CASE NoOptionsTrip
    BY <1>3, <2>4 DEF NoOptionsTrip
  <2> QED BY <2>1, <2>2, <2>3, <2>4
<1>5. ScaleIsRead'
  BY <1>1, <1>2, <1>4 DEF ScaleIsRead, Measured, sampleVars
<1>6. SeekIsSeen'
  BY <1>2 DEF SeekIsSeen
<1>7. phase' \notin Sampling => phase \notin Sampling
  BY <1>2 DEF Sampling
<1>8. RecentIsOfTheRound' /\ SamplesAreWhereTheySay' /\ EveryCompHasAFrame'
  BY <1>1, <1>2, <1>7, SamplesStay
<1> QED BY <1>5, <1>6, <1>8 DEF CaptureInv

\* The one press that is measured; what it is taken for is right if it was one press.
LEMMA CalibrateKeeps == ASSUME CaptureInv, CalibrateBar PROVE CaptureInv'
<1>1. ScaleIsRead /\ SeekIsSeen /\ RecentIsOfTheRound /\ SamplesAreWhereTheySay /\ EveryCompHasAFrame
  BY DEF CaptureInv
<1>2. client \in Client /\ client.interval \in INTERVALS /\ client.interval \in Int /\ client.where \in Int
  BY <1>1 DEF ScaleIsRead, Client, INTERVALS
<1>3. PICK zero \in {0, client.where}, e \in RateErrors :
       \E one \in Pressed(zero, 1, client.interval) :
       \E said \in {stepSecondsFrom((one - zero) * (100 + e), 100)}
                    \cup {ChosenInterval} :
          IF said = 0 \/ one <= zero THEN Fail
          ELSE /\ scale' = [zero |-> zero, is |-> one - zero, said |-> said]
               /\ client' = [client EXCEPT !.where = one]
               /\ phase' = "structure" /\ pos' = Nowhere
               /\ UNCHANGED <<seek, sampleVars>>
  BY DEF CalibrateBar
<1>4. PICK one \in Pressed(zero, 1, client.interval) :
       \E said \in {stepSecondsFrom((one - zero) * (100 + e), 100)}
                    \cup {ChosenInterval} :
          IF said = 0 \/ one <= zero THEN Fail
          ELSE /\ scale' = [zero |-> zero, is |-> one - zero, said |-> said]
               /\ client' = [client EXCEPT !.where = one]
               /\ phase' = "structure" /\ pos' = Nowhere
               /\ UNCHANGED <<seek, sampleVars>>
  BY <1>3
<1>5. PICK said \in {stepSecondsFrom((one - zero) * (100 + e), 100)}
                      \cup {ChosenInterval} :
          IF said = 0 \/ one <= zero THEN Fail
          ELSE /\ scale' = [zero |-> zero, is |-> one - zero, said |-> said]
               /\ client' = [client EXCEPT !.where = one]
               /\ phase' = "structure" /\ pos' = Nowhere
               /\ UNCHANGED <<seek, sampleVars>>
  BY <1>4
<1>6. zero \in Int /\ one \in Int /\ e \in -12..16 /\ e \in Int /\ phase = "calibrate"
  <2>1. zero \in Int
    BY <1>2
  <2>2. one \in Int
    BY <1>2, <2>1, PressedIsATime
  <2> QED BY <2>1, <2>2, CaptureAssumption DEF CalibrateBar
<1>a. CASE said = 0 \/ one <= zero
  <2>1. phase' = "failed" /\ UNCHANGED <<client, scale, pos, seek, sampleVars>>
    BY <1>5, <1>a DEF Fail
  <2>2. ScaleIsRead'
    BY <1>1, <2>1 DEF ScaleIsRead, Measured, sampleVars
  <2>3. SeekIsSeen'
    BY <2>1 DEF SeekIsSeen
  <2>4. phase' \notin Sampling => phase \notin Sampling
    BY <1>6 DEF Sampling
  <2>5. RecentIsOfTheRound' /\ SamplesAreWhereTheySay' /\ EveryCompHasAFrame'
    BY <1>1, <2>1, <2>4, SamplesStay
  <2> QED BY <2>2, <2>3, <2>5 DEF CaptureInv
<1>b. CASE said # 0 /\ ~(one <= zero)
  <2>1. /\ scale' = [zero |-> zero, is |-> one - zero, said |-> said]
        /\ client' = [client EXCEPT !.where = one]
        /\ phase' = "structure" /\ pos' = Nowhere
        /\ UNCHANGED <<seek, sampleVars>>
    BY <1>5, <1>b
  <2>2. said \in INTERVALS
    <3>1. (one - zero) * (100 + e) \in Int
      BY <1>6
    <3>2. stepSecondsFrom((one - zero) * (100 + e), 100) \in INTERVALS \cup {0}
      BY <3>1, StepIsAnInterval
    <3> QED BY <1>5, <1>b, <3>2, CaptureAssumption
  <2>3. one - zero = client.interval => said \in {client.interval, ChosenInterval}
    <3>1. stepSecondsFrom(client.interval * (100 + e), 100) = client.interval
      BY <1>2, <1>6, IntervalsAreTold
    <3> QED BY <1>5, <3>1
  <2>4. client' \in Client /\ client'.interval = client.interval
    BY <1>2, <1>6, <2>1 DEF Client
  <2>5. scale' \in Scale /\ scale'.zero = zero /\ scale'.is = one - zero /\ scale'.said = said
        /\ one - zero \in Nat \ {0}
    <3>1. said \in Int /\ one - zero \in Int /\ one - zero \in Nat \ {0}
      BY <1>6, <1>b, <2>2 DEF INTERVALS
    <3> QED BY <1>6, <2>1, <3>1 DEF Scale
  <2>6. ScaleIsRead'
    BY <1>1, <2>1, <2>2, <2>3, <2>4, <2>5 DEF ScaleIsRead, Nowhere, sampleVars
  <2>7. SeekIsSeen'
    BY <2>1 DEF SeekIsSeen
  <2>8. phase' \notin Sampling => phase \notin Sampling
    BY <1>6 DEF Sampling
  <2>9. RecentIsOfTheRound' /\ SamplesAreWhereTheySay' /\ EveryCompHasAFrame'
    BY <1>1, <2>1, <2>8, SamplesStay
  <2> QED BY <2>6, <2>7, <2>9 DEF CaptureInv
<1> QED BY <1>a, <1>b

\* The bar is read: the plan goes along its rounds.
LEMMA ReadStructureKeeps == ASSUME CaptureInv, ReadStructure PROVE CaptureInv'
<1>1. ScaleIsRead /\ SeekIsSeen /\ RecentIsOfTheRound /\ SamplesAreWhereTheySay /\ EveryCompHasAFrame
  BY DEF CaptureInv
<1>2. /\ phase = "structure" /\ phase' = "drive" /\ next' = 1
      /\ plan' = planGrid(Structure, scale.said)
      /\ UNCHANGED <<client, scale, pos, seek, samples, kept, seen, recent>>
  BY DEF ReadStructure
<1>3. scale.said \in INTERVALS
  BY <1>1, <1>2 DEF ScaleIsRead, Measured
<1>4. GoesAlong(plan')
  BY <1>2, <1>3, PlanGoesAlong
<1>5. plan' \in Seq(Nat)
  BY <1>4 DEF GoesAlong
<1>6. ScaleIsRead'
  BY <1>1, <1>2, <1>5 DEF ScaleIsRead, Measured
<1>7. SeekIsSeen'
  BY <1>2 DEF SeekIsSeen
<1>8. seen = {} /\ samples = <<>>
  BY <1>1, <1>2 DEF RecentIsOfTheRound, Sampling
<1>9. RecentIsOfTheRound'
  <2>1. Len(plan') \in Nat
    BY <1>5
  <2> QED BY <1>1, <1>2, <1>4, <1>8, <2>1 DEF RecentIsOfTheRound, Sampling
<1>10. SamplesAreWhereTheySay' /\ EveryCompHasAFrame'
  BY <1>2, <1>8 DEF SamplesAreWhereTheySay, EveryCompHasAFrame
<1> QED BY <1>6, <1>7, <1>9, <1>10 DEF CaptureInv

\* A move of the playhead, the first of a seek or one that corrects it.
LEMMA SeekKeeps == ASSUME CaptureInv, StartSeek \/ Correct PROVE CaptureInv'
<1>1. ScaleIsRead /\ SeekIsSeen /\ RecentIsOfTheRound /\ SamplesAreWhereTheySay /\ EveryCompHasAFrame
  BY DEF CaptureInv
<1>2. /\ phase \in {"drive", "check"} /\ phase' = "check" /\ next <= Len(plan)
      /\ UNCHANGED <<scale, pos, sampleVars>>
  BY <1>1 DEF StartSeek, Correct, SeekIsSeen
<1>3. phase \in Measured
  BY <1>2 DEF Measured
<1>4. /\ client' \in Client /\ client'.interval = client.interval
      /\ seek'.t \in Nat /\ seek'.t = plan[next] /\ seek'.at \in Positions(client'.where)
  <2>1. CASE StartSeek
    <3>1. plan[next] \in Nat /\ pos \in Int /\ FALSE \in BOOLEAN
      BY <1>1, <1>2 DEF ScaleIsRead
    <3>2. Move(plan[next], pos, MaxCorrections, FALSE)
      BY <2>1 DEF StartSeek
    <3> QED BY <1>1, <1>2, <1>3, <3>1, <3>2, MoveFacts
  <2>2. CASE Correct
    <3>1. phase = "check" /\ Move(seek.t, seek.at, seek.left - 1, seek.left = 1)
      BY <2>2 DEF Correct
    <3>2. client.where \in Int
      BY <1>1 DEF ScaleIsRead, Client
    <3>3. seek.t \in Nat /\ seek.t = plan[next] /\ seek.at \in Int /\ (seek.left = 1) \in BOOLEAN
      BY <1>1, <1>3, <3>1, <3>2, PositionsAreTimes DEF SeekIsSeen
    <3> QED BY <1>1, <1>2, <1>3, <3>1, <3>3, MoveFacts
  <2> QED BY <2>1, <2>2
<1>5. UNCHANGED <<plan, next>>
  BY <1>2 DEF sampleVars
<1>6. ScaleIsRead'
  BY <1>1, <1>2, <1>3, <1>4, <1>5 DEF ScaleIsRead
<1>7. SeekIsSeen'
  <2>1. Positions(client'.where) = Positions(client.where)'
    BY <1>2 DEF Positions
  <2> QED BY <1>2, <1>4, <1>5, <2>1 DEF SeekIsSeen
<1>8. phase' \notin Sampling => phase \notin Sampling
  BY <1>2 DEF Sampling
<1>9. RecentIsOfTheRound' /\ SamplesAreWhereTheySay' /\ EveryCompHasAFrame'
  BY <1>1, <1>2, <1>8, SamplesStay
<1> QED BY <1>6, <1>7, <1>9 DEF CaptureInv

\* The playhead is near enough, or there are no tries left: where it was seen is where it is.
LEMMA LandKeeps == ASSUME CaptureInv, Land PROVE CaptureInv'
<1>1. ScaleIsRead /\ SeekIsSeen /\ RecentIsOfTheRound /\ SamplesAreWhereTheySay /\ EveryCompHasAFrame
  BY DEF CaptureInv
<1>2. /\ phase = "check" /\ phase' = "sample" /\ pos' = (IF seek.at = Nowhere THEN seek.t ELSE seek.at)
      /\ UNCHANGED <<client, scale, seek, sampleVars>>
  BY DEF Land
<1>3. UNCHANGED <<plan, next>>
  BY <1>2 DEF sampleVars
<1>4. pos' \in Int
  <2>1. client.where \in Int /\ phase \in Measured
    BY <1>1, <1>2 DEF ScaleIsRead, Client, Measured
  <2> QED BY <1>1, <1>2, <2>1, PositionsAreTimes DEF SeekIsSeen
<1>5. ScaleIsRead'
  BY <1>1, <1>2, <1>3, <1>4 DEF ScaleIsRead, Measured
<1>6. SeekIsSeen'
  BY <1>1, <1>2, <1>3 DEF SeekIsSeen, Positions
<1>7. phase' \notin Sampling => phase \notin Sampling
  BY <1>2 DEF Sampling
<1>8. RecentIsOfTheRound' /\ SamplesAreWhereTheySay' /\ EveryCompHasAFrame'
  BY <1>1, <1>2, <1>7, SamplesStay
<1> QED BY <1>5, <1>6, <1>8 DEF CaptureInv

\* A round that is seen and sampled again is the one that was sampled last.
LEMMA SeenIsRecent ==
    ASSUME RecentIsOfTheRound, ScaleIsRead, next <= Len(plan), ~IsFirst(plan[next])
    PROVE  /\ recent[1] \in 1..Len(samples) /\ samples[recent[1]].round = RoundIndexOf(plan[next])
<1> DEFINE round == RoundIndexOf(plan[next])
<1>1. round # 0 /\ round \in seen
  BY DEF IsFirst
<1>2. next \in Nat \ {0} /\ plan \in Seq(Nat) /\ Len(plan) \in Nat
  BY DEF ScaleIsRead
<1>3. PICK i \in 1..next - 1 : round = RoundIndexOf(plan[i])
  BY <1>1 DEF RecentIsOfTheRound
<1>4. next \in 2..Len(plan) /\ i \in 1..next - 1
  BY <1>2, <1>3
<1>5. RoundIndexOf(plan[next]) = RoundIndexOf(plan[next - 1])
  BY <1>3, <1>4 DEF RecentIsOfTheRound, GoesAlong
<1> HIDE DEF round
<1>6. recent[1] # 0 /\ samples[recent[1]].round = round
  BY <1>1, <1>2, <1>4, <1>5 DEF RecentIsOfTheRound, round
<1>7. recent[1] \in 1..Len(samples)
  BY <1>6 DEF RecentIsOfTheRound
<1> QED BY <1>6, <1>7 DEF round

\* A time is given up: the round goes on without it.
LEMMA MissKeeps == ASSUME CaptureInv, Miss PROVE CaptureInv'
<1>1. ScaleIsRead /\ SeekIsSeen /\ RecentIsOfTheRound /\ SamplesAreWhereTheySay /\ EveryCompHasAFrame
  BY DEF CaptureInv
<1>2. /\ phase = "sample" /\ phase' = "drive" /\ next' = next + 1
      /\ recent' = IF IsFirst(seek.t) THEN <<0, 0>> ELSE recent
      /\ UNCHANGED <<client, scale, pos, plan, samples, kept, seen>>
  BY DEF Miss, Missed
<1>3. next <= Len(plan) /\ seek.t = plan[next] /\ next \in Nat \ {0} /\ Len(plan) \in Nat
  BY <1>1, <1>2 DEF SeekIsSeen, ScaleIsRead
<1>4. ScaleIsRead'
  BY <1>1, <1>2, <1>3 DEF ScaleIsRead, Measured
<1>5. SeekIsSeen'
  BY <1>2 DEF SeekIsSeen
<1>6. RecentIsOfTheRound'
  <2>1. recent'[1] \in 0..Len(samples)
    BY <1>1, <1>2 DEF RecentIsOfTheRound
  <2>2. ASSUME RoundIndexOf(plan[next]) \in seen, RoundIndexOf(plan[next]) # 0
        PROVE  recent'[1] # 0 /\ samples[recent'[1]].round = RoundIndexOf(plan[next])
    <3>1. ~IsFirst(plan[next])
      BY <2>2 DEF IsFirst
    <3> QED BY <1>1, <1>2, <1>3, <3>1, SeenIsRecent
  <2>3. seen \subseteq {RoundIndexOf(plan[i]) : i \in 1..next' - 1}
    <3>1. 1..next - 1 \subseteq 1..next' - 1
      BY <1>2, <1>3
    <3> QED BY <1>1, <3>1 DEF RecentIsOfTheRound
  <2>4. next' - 1 = next /\ next' <= Len(plan) + 1
    BY <1>2, <1>3
  <2> QED BY <1>1, <1>2, <2>1, <2>2, <2>3, <2>4 DEF RecentIsOfTheRound, Sampling
<1>7. SamplesAreWhereTheySay'
  BY <1>1, <1>2 DEF SamplesAreWhereTheySay
<1>8. EveryCompHasAFrame'
  BY <1>1, <1>2 DEF EveryCompHasAFrame, Differ
<1> QED BY <1>4, <1>5, <1>6, <1>7, <1>8 DEF CaptureInv

\* What is sampled is where the seek says, or was not seen.
LEMMA SampledIsRight ==
    ASSUME ScaleIsRead, SeekIsSeen, phase = "sample", ~Off(pos, seek.t)
    PROVE  seek.at = Nowhere \/ scale.zero # 0 \/ scale.is # client.interval
           \/ Outdated \/ 2 * Abs(client.where - seek.t) < scale.said
<1> SUFFICES ASSUME seek.at # Nowhere, scale.zero = 0, scale.is = client.interval, ~Outdated
             PROVE  2 * Abs(client.where - seek.t) < scale.said
  OBVIOUS
<1>1. /\ client.where \in Int /\ seek.t \in Nat /\ scale.said \in INTERVALS
      /\ scale.said = client.interval /\ pos = seek.at
      /\ seek.at = ((client.where - scale.zero) * scale.said) \div scale.is
  BY DEF ScaleIsRead, SeekIsSeen, Client, Positions, Measured, Outdated
<1>2. pos = client.where
  BY <1>1, TrueBar
<1>3. ~(2 * Abs(client.where - seek.t) >= scale.said)
  BY <1>1, <1>2 DEF Off
<1>4. Abs(client.where - seek.t) \in Int /\ scale.said \in Int
  BY <1>1 DEF Abs, INTERVALS
<1> QED BY <1>3, <1>4

\* What is appended comes last; the rest stays.
LEMMA AppendedLast ==
    ASSUME NEW s, NEW e, Len(s) \in Nat, s = [i \in 1..Len(s) |-> s[i]]
    PROVE  /\ Len(Append(s, e)) = Len(s) + 1 /\ Append(s, e)[Len(s) + 1] = e
           /\ \A i \in 1..Len(s) : Append(s, e)[i] = s[i]
           /\ Append(s, e) = [i \in 1..Len(s) + 1 |-> Append(s, e)[i]]
<1> DEFINE R == {s[i] : i \in 1..Len(s)} \cup {e}
<1>1. \A i \in 1..Len(s) : s[i] \in R
  OBVIOUS
<1>2. e \in R
  OBVIOUS
<1> HIDE DEF R
<1>3. s \in Seq(R)
  BY <1>1
<1>4. /\ Append(s, e) \in Seq(R) /\ Len(Append(s, e)) = Len(s) + 1 /\ Append(s, e)[Len(s) + 1] = e
      /\ \A i \in 1..Len(s) : Append(s, e)[i] = s[i]
  BY <1>2, <1>3
<1>5. \A t \in Seq(R) : t = [i \in 1..Len(t) |-> t[i]]
  OBVIOUS
<1>6. Append(s, e) = [i \in 1..Len(Append(s, e)) |-> Append(s, e)[i]]
  BY <1>4, <1>5
<1> QED BY <1>4, <1>6

\* A sample whose frame is not stored reads as the one before it, whose round is its own.
LEMMA TakeSampleKeeps == ASSUME CaptureInv, TakeSample PROVE CaptureInv'
<1>1. ScaleIsRead /\ SeekIsSeen /\ RecentIsOfTheRound /\ SamplesAreWhereTheySay /\ EveryCompHasAFrame
  BY DEF CaptureInv
<1> DEFINE n == Len(samples) + 1
           first == IsFirst(seek.t)
           round == RoundIndexOf(seek.t)
           right == seek.at = Nowhere \/ scale.zero # 0 \/ scale.is # client.interval
                    \/ Outdated \/ 2 * Abs(client.where - seek.t) < scale.said
<1>2. /\ phase = "sample" /\ ~Off(pos, seek.t) /\ phase' = "drive" /\ next' = next + 1
      /\ seen' = seen \cup {round} /\ UNCHANGED <<client, scale, pos, plan>>
  BY DEF TakeSample
<1>3. PICK r \in Reads(client.where) :
        /\ samples' = Append(samples, [t |-> seek.t, read |-> r, round |-> round, right |-> right])
        /\ kept' = kept \cup IF ShouldKeep(r, first) THEN {n} ELSE {}
        /\ recent' = <<n, IF first THEN 0 ELSE recent[1]>>
  BY DEF TakeSample
<1>4. right
  BY <1>1, <1>2, SampledIsRight
<1>5. next <= Len(plan) /\ seek.t = plan[next] /\ next \in Nat \ {0} /\ Len(plan) \in Nat
  BY <1>1, <1>2 DEF SeekIsSeen, ScaleIsRead
<1>6. /\ Len(samples) \in Nat /\ samples = [i \in 1..Len(samples) |-> samples[i]]
      /\ kept \subseteq 1..Len(samples) /\ recent[1] \in 0..Len(samples) /\ n \in Nat \ {0}
  BY <1>1 DEF RecentIsOfTheRound
<1> HIDE DEF right
<1> DEFINE sample == [t |-> seek.t, read |-> r, round |-> round, right |-> right]
<1>7. sample.read = r /\ sample.round = round /\ sample.right = right
  OBVIOUS
<1> HIDE DEF sample
<1>8. /\ Len(samples') = n /\ samples'[n] = sample
      /\ \A i \in 1..Len(samples) : samples'[i] = samples[i]
      /\ samples' = [i \in 1..n |-> samples'[i]]
  <2>1. samples' = Append(samples, sample)
    BY <1>3 DEF sample
  <2> QED BY <1>6, <2>1, AppendedLast
<1>9. \A i \in 1..n : i = n \/ i \in 1..Len(samples)
  BY <1>6
<1>10. \A i \in 1..Len(samples) : i \in 1..n
  BY <1>6
<1>11. DOMAIN samples' = 1..n /\ DOMAIN samples = 1..Len(samples)
  BY <1>6, <1>8
<1>12. ScaleIsRead'
  BY <1>1, <1>2, <1>5 DEF ScaleIsRead, Measured
<1>13. SeekIsSeen'
  BY <1>2 DEF SeekIsSeen
<1>14. ~first => recent[1] \in 1..Len(samples) /\ samples[recent[1]].round = round
  BY <1>1, <1>5, SeenIsRecent
<1>15. recent'[1] = n
  BY <1>3
<1>16. n \in 1..n /\ kept' \subseteq 1..n
  BY <1>3, <1>6, <1>10
<1> HIDE DEF n
<1>17. RecentIsOfTheRound'
  <2>1. seen' \subseteq {RoundIndexOf(plan[i]) : i \in 1..next' - 1}
    <3>1. 1..next - 1 \subseteq 1..next' - 1 /\ next \in 1..next' - 1
      BY <1>2, <1>5
    <3>2. seen \subseteq {RoundIndexOf(plan[i]) : i \in 1..next' - 1}
      BY <1>1, <3>1 DEF RecentIsOfTheRound
    <3> QED BY <1>2, <1>5, <3>1, <3>2
  <2>2. next' - 1 = next /\ next' <= Len(plan) + 1
    BY <1>2, <1>5
  <2>3. recent'[1] # 0 /\ samples'[recent'[1]].round = RoundIndexOf(plan[next])
    BY <1>5, <1>6, <1>7, <1>8, <1>15
  <2>4. recent'[1] \in 0..Len(samples') /\ Len(samples') \in Nat
    BY <1>6, <1>8, <1>15
  <2>5. samples' = [i \in 1..Len(samples') |-> samples'[i]] /\ kept' \subseteq 1..Len(samples')
    BY <1>8, <1>16
  <2>6. GoesAlong(plan') /\ phase' \in Sampling
    BY <1>1, <1>2 DEF RecentIsOfTheRound, Sampling
  <2> QED BY <1>2, <2>1, <2>2, <2>3, <2>4, <2>5, <2>6 DEF RecentIsOfTheRound
<1>18. SamplesAreWhereTheySay'
  <2>1. \A i \in 1..Len(samples) : samples[i].right
    BY <1>1, <1>11 DEF SamplesAreWhereTheySay
  <2>2. \A i \in 1..n : samples'[i].right
    BY <1>4, <1>7, <1>8, <1>9, <2>1
  <2> QED BY <1>11, <2>2 DEF SamplesAreWhereTheySay
<1>19. ASSUME NEW i \in 1..Len(samples), NEW x, NEW q,
              samples[i].round = x, ~Differ(samples[i].read, q)
       PROVE  \E j \in kept' : j <= i /\ samples'[j].round = x /\ ~Differ(samples'[j].read, q)
  <2>1. PICK j \in kept : /\ j <= i /\ samples[j].round = samples[i].round
                          /\ ~Differ(samples[j].read, samples[i].read)
    BY <1>1, <1>11 DEF EveryCompHasAFrame
  <2>2. ~Differ(samples[j].read, q)
    BY <1>19, <2>1 DEF Differ
  <2>3. j \in kept' /\ samples'[j] = samples[j]
    BY <1>3, <1>6, <1>8, <2>1
  <2> QED BY <1>19, <2>1, <2>2, <2>3
<1>20. EveryCompHasAFrame'
  <2>1. ASSUME NEW i \in 1..Len(samples)
        PROVE  \E j \in kept' : j <= i /\ samples'[j].round = samples'[i].round
                                /\ ~Differ(samples'[j].read, samples'[i].read)
    <3>1. ~Differ(samples[i].read, samples[i].read)
      BY DEF Differ
    <3> QED BY <1>8, <1>19, <3>1
  <2>2. \E j \in kept' : j <= n /\ samples'[j].round = samples'[n].round
                         /\ ~Differ(samples'[j].read, samples'[n].read)
    <3>1. CASE ShouldKeep(r, first)
      <4>1. n \in kept' /\ n <= n
        BY <1>3, <1>6, <3>1 DEF n
      <4>2. ~Differ(samples'[n].read, samples'[n].read)
        BY DEF Differ
      <4> QED BY <4>1, <4>2
    <3>2. CASE ~ShouldKeep(r, first)
      <4>1. ~first /\ recent[1] # 0 /\ ~Differ(r, samples[recent[1]].read)
        BY <3>2 DEF ShouldKeep
      <4>2. recent[1] \in 1..Len(samples) /\ samples[recent[1]].round = round
        BY <1>14, <4>1
      <4>3. ~Differ(samples[recent[1]].read, r)
        BY <4>1 DEF Differ
      <4>4. PICK j \in kept' : j <= recent[1] /\ samples'[j].round = round /\ ~Differ(samples'[j].read, r)
        BY <1>19, <4>2, <4>3
      <4>5. j <= n
        BY <1>6, <1>16, <4>2, <4>4 DEF n
      <4> QED BY <1>7, <1>8, <4>4, <4>5
    <3> QED BY <3>1, <3>2
  <2> QED BY <1>9, <1>11, <2>1, <2>2 DEF EveryCompHasAFrame
<1> QED BY <1>12, <1>13, <1>17, <1>18, <1>20 DEF CaptureInv

\* Every step of a map keeps the invariant.
LEMMA CaptureInvNext == CaptureInv /\ [CaptureNext]_captureVars => CaptureInv'
<1> SUFFICES ASSUME CaptureInv, [CaptureNext]_captureVars PROVE CaptureInv'
  OBVIOUS
<1>1. CASE EnsurePaused \/ OpenEventsViewer \/ SetInterval \/ NoOptionsTrip
  BY <1>1, RaisingKeeps
<1>2. CASE CalibrateBar
  BY <1>2, CalibrateKeeps
<1>3. CASE ReadStructure
  BY <1>3, ReadStructureKeeps
<1>4. CASE StartSeek \/ Correct
  BY <1>4, SeekKeeps
<1>5. CASE Land
  BY <1>5, LandKeeps
<1>6. CASE Miss
  BY <1>6, MissKeeps
<1>7. CASE TakeSample
  BY <1>7, TakeSampleKeeps
<1>8. CASE CaptureDone \/ UNCHANGED captureVars
  <2>1. ScaleIsRead /\ SeekIsSeen /\ RecentIsOfTheRound /\ SamplesAreWhereTheySay /\ EveryCompHasAFrame
    BY DEF CaptureInv
  <2>2. UNCHANGED <<client, scale, pos, seek, plan, next, samples, kept, seen, recent>>
        /\ UNCHANGED sampleVars
        /\ (phase' = phase \/ (phase = "drive" /\ phase' = "done"))
    BY <1>8 DEF CaptureDone, captureVars, sampleVars
  <2>3. ScaleIsRead'
    BY <2>1, <2>2 DEF ScaleIsRead, Measured
  <2>4. SeekIsSeen'
    BY <2>1, <2>2 DEF SeekIsSeen, Positions
  <2>5. phase' \notin Sampling => phase \notin Sampling
    BY <2>2 DEF Sampling
  <2>6. RecentIsOfTheRound' /\ SamplesAreWhereTheySay' /\ EveryCompHasAFrame'
    BY <2>1, <2>2, <2>5, SamplesStay
  <2> QED BY <2>3, <2>4, <2>6 DEF CaptureInv
<1> QED BY <1>1, <1>2, <1>3, <1>4, <1>5, <1>6, <1>7, <1>8 DEF CaptureNext

\* The inductive invariant of a map's capture (capture.js, phases.js, driver.js).
THEOREM CaptureInvHolds == CaptureSpec => []CaptureInv
<1> QED BY CaptureInvInit, CaptureInvNext, PTL DEF CaptureSpec

\* driver.js:178, timeline.js:184: whatever keys are dropped or sent twice, wherever a drag
\* comes down, and on whatever bar, a sample that is taken with the playhead in sight was
\* taken within half a step of the time it carries, if the bar was measured from its start
\* and over one press, at a rate good enough to tell the intervals apart, and the step is
\* what the client still has.
THEOREM SamplesAreTrue == CaptureSpec => []SamplesAreWhereTheySay
<1>1. CaptureInv => SamplesAreWhereTheySay
  BY DEF CaptureInv
<1> QED BY <1>1, CaptureInvHolds, PTL

\* phases.js:332, phases.js:439: of whatever samples a map has, and whatever was missed
\* between them, each shows what the frame of one of its round that was stored shows.
THEOREM FramesShowEveryComp == CaptureSpec => []EveryCompHasAFrame
<1>1. CaptureInv => EveryCompHasAFrame
  BY DEF CaptureInv
<1> QED BY <1>1, CaptureInvHolds, PTL

---------------------------------------------------------------------------
(*************************************************************************)
(* Who the opponent of a scrim is, for any league, any readings and any  *)
(* number of corrections: what is taken back leaves nothing behind.      *)
(*************************************************************************)

HudNames == UNION {s[1] \cup s[2] : s \in Readings}

\* Who a scrim's identity can be: a team of the league with five of the names, or a group.
IdentityFits ==
    \/ identity = NoOne
    \/ /\ identity.kind = "team" /\ identity.team \in Teams
       /\ identity.names \in SUBSET HudNames
    \/ identity.kind = "group" /\ identity.names \in SUBSET HudNames

ScrimsInv ==
    /\ aliases \in [Teams -> SUBSET HudNames]
    /\ groups \in Seq(SUBSET HudNames) /\ Len(groups) <= MaxGroups
    /\ scrim \in [team : Teams \cup {NoTeam}, group : 0..MaxGroups]
    /\ denied \in SUBSET (Teams \X HudNames)
    /\ IdentityFits

\* What is read is one of the teams or none of them.
LEMMA IdentifiedIsTeam ==
    ASSUME NEW names
    PROVE  identifyTeam(names) \in Teams \cup {NoTeam}
<1> DEFINE best == {t \in Hits(names) : \A u \in Hits(names) :
                      Overlap(names, indexWithAliases[u]) <= Overlap(names, indexWithAliases[t])}
<1>1. best \subseteq Teams
  BY DEF Hits
<1>2. CASE Cardinality(best) = 1
  <2>1. best # {}
    BY <1>2, FS_EmptySet
  <2> QED BY <1>1, <1>2, <2>1 DEF identifyTeam
<1>3. CASE Cardinality(best) # 1
  BY <1>3 DEF identifyTeam
<1> QED BY <1>2, <1>3

\* The group found is one of those that are there.
LEMMA FoundIsGroup ==
    ASSUME NEW names, IsFiniteSet(names), groups \in Seq(SUBSET HudNames)
    PROVE  findLocalGroup(names) \in 0..Len(groups)
<1> DEFINE n(g) == Overlap(names, groups[g])
           fits == {g \in DOMAIN groups : n(g) >= MIN_MATCHES}
           most == {g \in fits : \A h \in fits : n(h) <= n(g)}
<1>1. CASE fits = {}
  BY <1>1 DEF findLocalGroup
<1>2. CASE fits # {}
  <2>1. Cardinality(names) \in Nat
        /\ \A g \in fits : n(g) \in Nat /\ n(g) <= Cardinality(names)
    BY FS_CardinalityType, FS_Intersection DEF Overlap
  <2>2. most # {}
    <3> DEFINE Lack == {Cardinality(names) - n(g) : g \in fits}
    <3>1. Lack \subseteq Nat /\ Lack # {}
      BY <1>2, <2>1
    <3>2. PICK i \in Lack : \A j \in Lack : i <= j
      BY <3>1, LeastOf
    <3>3. PICK g \in fits : i = Cardinality(names) - n(g)
      BY <3>2
    <3>4. \A h \in fits : Cardinality(names) - n(g) <= Cardinality(names) - n(h)
      BY <3>2, <3>3
    <3>5. \A h \in fits : n(h) <= n(g)
      BY <2>1, <3>4
    <3> QED BY <3>5
  <2>3. most \subseteq Nat
    OBVIOUS
  <2>4. Min(most) \in most
    <3>1. PICK i \in most : \A j \in most : i <= j
      BY <2>2, <2>3, LeastOf
    <3> QED BY <3>1 DEF Min
  <2> QED BY <1>2, <2>4 DEF findLocalGroup
<1> QED BY <1>1, <1>2

\* A side that is read is one of two, and what is made of it is somebody.
LEMMA ResolvedFits ==
    ASSUME ScrimsInv, NEW read \in Readings, NEW o, o = resolveScrimIdentity(read), o # NoOne
    PROVE  /\ o.names \in SUBSET HudNames
           /\ \/ /\ o.kind = "team" /\ o.team \in Teams
                 /\ o.unmatched = o.names \ (Rosters[o.team] \cup aliases[o.team])
              \/ o.kind = "group" /\ o.group \in 0..Len(groups)
<1>1. Us(read) \in {1, 2}
  BY DEF resolveScrimIdentity, Us, ourSide
<1> DEFINE them == read[3 - Us(read)]
           team == identifyTeam(them)
<1>2. them \in SUBSET HudNames /\ IsFiniteSet(them)
  BY <1>1, ScrimsAssumption DEF HudNames
<1>3. team \in Teams \cup {NoTeam}
  BY IdentifiedIsTeam
<1>4. findLocalGroup(them) \in 0..Len(groups)
  BY <1>2, FoundIsGroup DEF ScrimsInv
<1>5. CASE team # NoTeam
  BY <1>1, <1>2, <1>3, <1>5 DEF resolveScrimIdentity, unmatched, indexWithAliases
<1>6. CASE team = NoTeam
  BY <1>1, <1>2, <1>4, <1>6 DEF resolveScrimIdentity
<1> QED BY <1>5, <1>6

\* At the start no team has an alias, and nothing is denied.
LEMMA ScrimsInvInit == ScrimsInit => ScrimsInv /\ DenialForgets
  BY ScrimsAssumption DEF ScrimsInit, ScrimsInv, IdentityFits, DenialForgets

\* No step of the page disturbs the types, and what is denied stays forgotten.
LEMMA ScrimsInvNext ==
    ScrimsInv /\ DenialForgets /\ [ScrimsNext]_scrimVars => ScrimsInv' /\ DenialForgets'
<1> SUFFICES ASSUME ScrimsInv, DenialForgets, [ScrimsNext]_scrimVars
             PROVE  ScrimsInv' /\ DenialForgets'
  OBVIOUS
<1>a. MaxGroups \in Nat /\ NoTeam \notin Teams
  BY ScrimsAssumption
<1>1. ASSUME NEW read \in Readings, Detect(read) PROVE ScrimsInv' /\ DenialForgets'
  <2> DEFINE o == resolveScrimIdentity(read)
  <2>1. CASE o = NoOne
    BY <1>1, <2>1 DEF Detect, ScrimsInv, IdentityFits, DenialForgets
  <2>2. CASE o # NoOne
    <3>1. commitScrimIdentity(o)
      BY <1>1, <2>2 DEF Detect
    <3>2. /\ o.names \in SUBSET HudNames
          /\ \/ /\ o.kind = "team" /\ o.team \in Teams
                /\ o.unmatched = o.names \ (Rosters[o.team] \cup aliases[o.team])
             \/ o.kind = "group" /\ o.group \in 0..Len(groups)
      BY <2>2, ResolvedFits
    <3> HIDE DEF o
    <3>3. CASE o.kind = "team"
      <4>1. /\ aliases' = [aliases EXCEPT ![o.team] = @ \cup o.unmatched]
            /\ scrim' = [scrim EXCEPT !.team = o.team] /\ identity' = o
            /\ denied' = denied \ ({o.team} \X o.unmatched) /\ UNCHANGED groups
        BY <3>1, <3>3 DEF commitScrimIdentity, learnAliases
      <4>2. o.team \in Teams /\ o.unmatched \in SUBSET HudNames
            /\ o.unmatched \cap Rosters[o.team] = {}
        BY <3>2, <3>3
      <4>3. ScrimsInv'
        BY <3>2, <3>3, <4>1, <4>2 DEF ScrimsInv, IdentityFits
      <4>4. \A d \in denied' : d[2] \notin aliases'[d[1]]
        BY <4>1, <4>2 DEF ScrimsInv, DenialForgets
      <4>5. \A t \in Teams : aliases'[t] \cap Rosters[t] = {}
        BY <4>1, <4>2 DEF ScrimsInv, DenialForgets
      <4> QED BY <4>3, <4>4, <4>5 DEF DenialForgets
    <3>4. CASE o.kind = "group" /\ o.group # 0
      <4>1. /\ groups' = [groups EXCEPT ![o.group] = @ \cup o.names]
            /\ scrim' = [scrim EXCEPT !.group = o.group] /\ identity' = o
            /\ UNCHANGED <<aliases, denied>>
        BY <3>1, <3>4 DEF commitScrimIdentity
      <4>2. o.group \in DOMAIN groups /\ o.group \in 0..MaxGroups
        BY <1>a, <3>2, <3>4 DEF ScrimsInv
      <4>3. groups' \in Seq(SUBSET HudNames) /\ Len(groups') <= MaxGroups
        BY <3>2, <4>1, <4>2 DEF ScrimsInv
      <4>4. ScrimsInv'
        BY <3>2, <3>4, <4>1, <4>2, <4>3 DEF ScrimsInv, IdentityFits
      <4> QED BY <4>1, <4>4 DEF DenialForgets
    <3>5. CASE o.kind = "group" /\ o.group = 0
      <4>1. /\ Len(groups) < MaxGroups /\ groups' = Append(groups, o.names)
            /\ scrim' = [scrim EXCEPT !.group = Len(groups) + 1]
            /\ identity' = [o EXCEPT !.group = Len(groups) + 1]
            /\ UNCHANGED <<aliases, denied>>
        BY <3>1, <3>5 DEF commitScrimIdentity
      <4>2. groups' \in Seq(SUBSET HudNames) /\ Len(groups') = Len(groups) + 1 /\ Len(groups) \in Nat
        BY <3>2, <4>1 DEF ScrimsInv
      <4>3. identity'.kind = "group" /\ identity'.names = o.names
        BY <3>5, <4>1
      <4>4. IdentityFits'
        BY <3>2, <4>3 DEF IdentityFits
      <4>5. scrim' \in [team : Teams \cup {NoTeam}, group : 0..MaxGroups] /\ Len(groups') <= MaxGroups
        BY <1>a, <4>1, <4>2 DEF ScrimsInv
      <4>6. ScrimsInv'
        BY <4>1, <4>2, <4>4, <4>5 DEF ScrimsInv
      <4> QED BY <4>1, <4>6 DEF DenialForgets
    <3> QED BY <3>2, <3>3, <3>4, <3>5
  <2> QED BY <2>1, <2>2
<1>2. ASSUME OpponentWrong PROVE ScrimsInv' /\ DenialForgets'
  <2>1. /\ identity # NoOne /\ Len(groups) < MaxGroups
        /\ groups' = Append(groups, identity.names)
        /\ scrim' = [team |-> NoTeam, group |-> Len(groups) + 1]
        /\ identity' = [kind |-> "group", group |-> Len(groups) + 1, names |-> identity.names]
    BY <1>2 DEF OpponentWrong
  <2>2. identity.names \in SUBSET HudNames /\ identity.kind \in {"team", "group"}
    BY <2>1 DEF ScrimsInv, IdentityFits
  <2>3. /\ groups' \in Seq(SUBSET HudNames) /\ Len(groups') <= MaxGroups
        /\ scrim' \in [team : Teams \cup {NoTeam}, group : 0..MaxGroups]
    BY <1>a, <2>1, <2>2 DEF ScrimsInv
  <2>4. IdentityFits'
    BY <2>1, <2>2 DEF IdentityFits
  <2>5. /\ aliases' \in [Teams -> SUBSET HudNames] /\ denied' \in SUBSET (Teams \X HudNames)
        /\ DenialForgets'
    <3>1. CASE identity.kind = "team"
      <4>1. /\ aliases' = [aliases EXCEPT ![identity.team] = @ \ identity.names]
            /\ denied' = denied \cup ({identity.team} \X identity.names)
        BY <1>2, <3>1 DEF OpponentWrong, correctScrimOpponent
      <4>2. identity.team \in Teams
        BY <2>1, <3>1 DEF ScrimsInv, IdentityFits
      <4> QED BY <2>2, <4>1, <4>2 DEF ScrimsInv, DenialForgets
    <3>2. CASE identity.kind # "team"
      <4>1. UNCHANGED <<aliases, denied>>
        BY <1>2, <3>2 DEF OpponentWrong
      <4> QED BY <4>1 DEF ScrimsInv, DenialForgets
    <3> QED BY <3>1, <3>2
  <2> QED BY <2>3, <2>4, <2>5 DEF ScrimsInv
<1>3. CASE NewScrim
  BY <1>3, <1>a DEF NewScrim, ScrimsInv, IdentityFits, DenialForgets
<1>4. CASE UNCHANGED scrimVars
  BY <1>4 DEF scrimVars, ScrimsInv, IdentityFits, DenialForgets
<1> QED BY <1>1, <1>2, <1>3, <1>4 DEF ScrimsNext

\* The invariant holds in every state of the scrim page.
THEOREM ScrimsInvHolds == ScrimsSpec => [](ScrimsInv /\ DenialForgets)
  BY ScrimsInvInit, ScrimsInvNext, PTL DEF ScrimsSpec

\* The aliases, the groups and the active scrim keep their types.
THEOREM ScrimsTypeCorrect == ScrimsSpec => []ScrimsTypeOK
<1>1. ScrimsInv => ScrimsTypeOK
  BY DEF ScrimsInv, ScrimsTypeOK, HudNames
<1> QED BY <1>1, ScrimsInvHolds, PTL

\* A correction forgets, for any league, any readings and any number of groups.
THEOREM CorrectionsForget == ScrimsSpec => []DenialForgets
  BY ScrimsInvHolds, PTL
=============================================================================
