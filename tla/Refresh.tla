------------------------------- MODULE Refresh -------------------------------
(***************************************************************************)
(* The upload worker's /refresh: anyone may start a build, at most once in *)
(* a cooldown.  The lock is one KV value with a TTL, written and read back *)
(* because KV has no compare-and-set.  KV is taken as an atomic register   *)
(* and claim values as distinct, the strongest they can be.  An action is  *)
(* the code between two awaits.                                            *)
(***************************************************************************)
EXTENDS Naturals

CONSTANTS
    Requests,       \* requests that can be in flight together
    NoClaim

ASSUME RefreshAssumption == NoClaim \notin Requests

VARIABLES
    claim,          \* KV _refresh_at: whose value is stored
    req,            \* the await each request is at
    \* history since the cooldown last ran out
    fired,          \* dispatches (2 is many)
    raced,          \* two requests passed the read together
    died            \* a request died on the worker

vars == <<claim, req, fired, raced, died>>

Steps == {"idle", "claim", "verify", "send"}

TypeOK ==
    /\ claim \in Requests \cup {NoClaim}
    /\ req \in [Requests -> Steps]
    /\ fired \in 0..2 /\ raced \in BOOLEAN /\ died \in BOOLEAN

Init ==
    /\ claim = NoClaim /\ req = [r \in Requests |-> "idle"]
    /\ fired = 0 /\ raced = FALSE /\ died = FALSE

\* Reads the stored time; inside the cooldown it answers 429 and changes nothing.
ReadCooldown(r) ==
    /\ req[r] = "idle" /\ claim = NoClaim
    /\ req' = [req EXCEPT ![r] = "claim"]
    /\ raced' = (raced \/ \E q \in Requests : req[q] = "claim")
    /\ UNCHANGED <<claim, fired, died>>

\* Mutant: the dispatch comes before any claim is stored, as it once did.
DispatchUnclaimed(r) ==
    /\ req[r] = "claim"
    /\ req' = [req EXCEPT ![r] = "send"]
    /\ UNCHANGED <<claim, fired, raced, died>>

WriteClaim(r) ==
    /\ req[r] = "claim"
    /\ claim' = r
    /\ req' = [req EXCEPT ![r] = "verify"]
    /\ UNCHANGED <<fired, raced, died>>

\* Reads it back: the loser of a race sees another value and answers 429.
ReadBack(r) ==
    /\ req[r] = "verify"
    /\ req' = [req EXCEPT ![r] = IF claim = r THEN "send" ELSE "idle"]
    /\ UNCHANGED <<claim, fired, raced, died>>

\* GitHub answers 204.
Dispatched(r) ==
    /\ req[r] = "send"
    /\ req' = [req EXCEPT ![r] = "idle"]
    /\ fired' = IF fired = 0 THEN 1 ELSE 2
    /\ UNCHANGED <<claim, raced, died>>

\* Any other answer: the stored claim is deleted, whosever it is by now.
DispatchFails(r) ==
    /\ req[r] = "send"
    /\ req' = [req EXCEPT ![r] = "idle"]
    /\ claim' = NoClaim
    /\ UNCHANGED <<fired, raced, died>>

\* The worker dies with the request, or its call to GitHub throws; what it wrote
\* stays until the TTL.
WorkerDies(r) ==
    /\ req[r] # "idle"
    /\ req' = [req EXCEPT ![r] = "idle"]
    /\ died' = TRUE
    /\ UNCHANGED <<claim, fired, raced>>

\* The TTL, as long as the cooldown.  It is ten minutes and a request lasts
\* seconds: none is in flight across it.
CooldownEnds ==
    /\ \A r \in Requests : req[r] = "idle"
    /\ claim' = NoClaim /\ fired' = 0 /\ raced' = FALSE /\ died' = FALSE
    /\ UNCHANGED req

Next ==
    \/ \E r \in Requests : \/ ReadCooldown(r) \/ WriteClaim(r) \/ ReadBack(r)
                           \/ Dispatched(r) \/ DispatchFails(r) \/ WorkerDies(r)
    \/ CooldownEnds

Spec == Init /\ [][Next]_vars

-----------------------------------------------------------------------------
\* Unless two requests pass the read together, a cooldown starts one build, even
\* when requests overlap and dispatches fail (worker.js:88, "Globally cooled
\* down").
CooldownHolds == ~ raced => fired <= 1

\* A claim that outlives its requests has started a build: a race has a winner,
\* and a failed dispatch does not burn the cooldown (worker.js:126-129).  Only a
\* worker that dies leaves a claim for nothing.
CooldownEarned ==
    claim # NoClaim /\ (\A r \in Requests : req[r] = "idle") => fired > 0 \/ died

\* What worker.js:100-106 says of the write and the read back: of the requests
\* that read the same stale time, only one fires.
OneRefreshPerCooldown == fired <= 1
=============================================================================
