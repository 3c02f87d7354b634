------------------------------- MODULE Upload -------------------------------
(***************************************************************************)
(* The upload worker's POST: a contribution becomes the one file of its    *)
(* key.  Who may write which key is decided from the session or the name,  *)
(* the first token to use a name owns it, and between the reading of that  *)
(* record and its writing lie two calls to GitHub.  An action is the code  *)
(* between two awaits.                                                     *)
(***************************************************************************)
EXTENDS Naturals

CONSTANTS
    UploadRequests,
    Accounts,       \* Discord accounts
    Admins,         \* ADMIN_IDS
    Denied,         \* DENYLIST: accounts and names
    Tokens,         \* identity tokens of installs, of an accepted length
    Nobody

ASSUME UploadAssumption ==
    /\ Admins \subseteq Accounts /\ Nobody \notin Tokens \cup Accounts
    /\ Tokens \cap Accounts = {} /\ "replay-bot" \notin Accounts

VARIABLES
    record,         \* KV: whose the key is, and whether it was uploaded to just now
    stored,         \* the file in the repository: who wrote it, and its version
    upload,         \* the await each request is at, its key and sender, and the version it saw
    tick,           \* versions handed out
    \* history: keys that two installs were at together, or whose record was not
    \* written after the file
    crossed

uploadVars == <<record, stored, upload, tick, crossed>>

REPLAY_BOT_NAME == "replay-bot"
\* A session's key is its account's, "u_" and its id: a name can be spelled like that.
Names == {REPLAY_BOT_NAME, "somebody"} \cup Accounts
Keys == Accounts \cup {REPLAY_BOT_NAME}
MaxVersions == 3            \* bound

\* What a request brings: the session's account if it verifies, a name, a token; the
\* token may claim to be a session's, and the body may be no contribution.
Headers == [session : Accounts \cup {Nobody}, name : Names,
            token : Tokens \cup {"discord:", "short"}, body : {"good", "bad"}]

Idle == [at |-> "idle", key |-> REPLAY_BOT_NAME, by |-> Nobody, saw |-> 0]
NoFileYet == [by |-> Nobody, version |-> 0]

UploadTypeOK ==
    /\ record \in [Keys -> [of : Tokens \cup Accounts \cup {Nobody}, hot : BOOLEAN]]
    /\ stored \in [Keys -> [by : Tokens \cup Accounts \cup {Nobody}, version : 0..MaxVersions]]
    /\ upload \in [UploadRequests -> [at : {"idle", "record", "head", "put", "note"}, key : Keys,
                                      by : Tokens \cup Accounts \cup {Nobody},
                                      saw : 0..MaxVersions]]
    /\ tick \in 0..MaxVersions /\ crossed \subseteq Keys

UploadInit ==
    /\ record = [k \in Keys |-> [of |-> Nobody, hot |-> FALSE]]
    /\ stored = [k \in Keys |-> NoFileYet]
    /\ upload = [r \in UploadRequests |-> Idle]
    /\ tick = 0 /\ crossed = {}

-----------------------------------------------------------------------------
IsAdminSession(h) == h.session \in Admins

\* The key a request writes to.
KeyOf(h) == IF h.session # Nobody THEN h.session ELSE h.name

\* An operator's session, or the bot's own name with a token of its own.
Admitted(h) ==
    /\ IsAdminSession(h) \/ h.name = REPLAY_BOT_NAME
    /\ h.session = Nobody => h.name \notin Accounts /\ h.token \in Tokens
    /\ {h.session, KeyOf(h)} \cap Denied = {}
    /\ h.body = "good"

Writer(h) == IF h.session # Nobody THEN h.session ELSE h.token

InFlight(k) == {r \in UploadRequests : upload[r].at # "idle" /\ upload[r].key = k}

Post(r, h) ==
    /\ upload[r].at = "idle" /\ Admitted(h)
    /\ upload' = [upload EXCEPT ![r] = [at |-> "record", key |-> KeyOf(h), by |-> Writer(h),
                                        saw |-> 0]]
    /\ crossed' = crossed \cup {KeyOf(h) : q \in {q \in InFlight(KeyOf(h)) : upload[q].by # Writer(h)}}
    /\ UNCHANGED <<record, stored, tick>>

Go(r, step) == upload' = [upload EXCEPT ![r].at = step]
Answer(r) == upload' = [upload EXCEPT ![r] = Idle]

\* Mutant: the first upload under a name does not make it its sender's.
OwnsUnclaimed(u) == TRUE

\* A session is proof enough; a token has to be the one the name was first used with.
Owns(u) == u.by \in Accounts \/ record[u.key].of \in {Nobody, u.by}

ReadRecord(r) ==
    /\ upload[r].at = "record"
    /\ IF Owns(upload[r]) /\ ~record[upload[r].key].hot THEN Go(r, "head") ELSE Answer(r)
    /\ UNCHANGED <<record, stored, tick, crossed>>

\* The version of the file that is there; none is fine, an error is not.
ReadHead(r) ==
    /\ upload[r].at = "head"
    /\ \/ upload' = [upload EXCEPT ![r].at = "put", ![r].saw = stored[upload[r].key].version]
       \/ Answer(r)
    /\ UNCHANGED <<record, stored, tick, crossed>>

\* Mutant: what GitHub answers is not looked at.
PutUnchecked(r) ==
    LET u == upload[r]
    IN  /\ u.at = "put" /\ tick < MaxVersions
        /\ Go(r, "note")
        /\ \/ /\ stored[u.key].version = u.saw
              /\ tick' = tick + 1
              /\ stored' = [stored EXCEPT ![u.key] = [by |-> u.by, version |-> tick + 1]]
           \/ UNCHANGED <<stored, tick>>
        /\ UNCHANGED <<record, crossed>>

\* GitHub takes it only over the version that was read.
PutUpload(r) ==
    LET u == upload[r]
    IN  /\ u.at = "put" /\ tick < MaxVersions
        /\ \/ /\ stored[u.key].version = u.saw
              /\ tick' = tick + 1
              /\ stored' = [stored EXCEPT ![u.key] = [by |-> u.by, version |-> tick + 1]]
              /\ Go(r, "note")
           \/ Answer(r) /\ UNCHANGED <<stored, tick>>
        /\ UNCHANGED <<record, crossed>>

WriteRecord(r) ==
    LET u == upload[r]
    IN  /\ u.at = "note"
        /\ record' = [record EXCEPT ![u.key] = [of |-> u.by, hot |-> TRUE]]
        /\ Answer(r)
        /\ UNCHANGED <<stored, tick, crossed>>

UploadDies(r) ==
    /\ upload[r].at # "idle" /\ Answer(r)
    /\ crossed' = crossed \cup IF upload[r].at = "note" THEN {upload[r].key} ELSE {}
    /\ UNCHANGED <<record, stored, tick>>

\* MIN_INTERVAL_MS is over.
IntervalOver(k) ==
    /\ record[k].hot /\ record' = [record EXCEPT ![k].hot = FALSE]
    /\ UNCHANGED <<stored, upload, tick, crossed>>

UploadNext ==
    \/ \E r \in UploadRequests : (\E h \in Headers : Post(r, h)) \/ ReadRecord(r) \/ ReadHead(r)
                                 \/ PutUpload(r) \/ WriteRecord(r) \/ UploadDies(r)
    \/ \E k \in Keys : IntervalOver(k)

UploadSpec == UploadInit /\ [][UploadNext]_uploadVars

-----------------------------------------------------------------------------
(* The operator's pages, read from the records and from the files           *)

\* The roster has a row for each record, in whatever state its upload is.
adminContributors == {k \in Keys : record[k].of # Nobody}
login(k) == record[k].of \in Accounts

\* What a row opens: the file of its key, if there is one.
adminContributorDetail(k) == stored[k]

\* The roster is the list of the files: every row opens one, which an account wrote if
\* the row says so, and every file has a row, as soon as its request has noted it; only
\* a request that died between the two leaves a file the operator does not see
\* (worker.js:272 and 284).
RosterIsTheFiles ==
    \A k \in Keys :
        /\ k \in adminContributors => /\ adminContributorDetail(k).by # Nobody
                                      /\ login(k) <=> adminContributorDetail(k).by \in Accounts
        /\ adminContributorDetail(k).by # Nobody =>
              \/ k \in adminContributors \cup crossed
              \/ \E r \in UploadRequests : upload[r].at = "note" /\ upload[r].key = k

\* A file stays its author's: an account's is written by that account, and a name's by
\* the install that wrote it first, as long as two installs were not at it together and
\* no request died between the file and the record (worker.js:236, where the ownership
\* is read, and 282, where it is written).
FileKeepsItsAuthor ==
    \A k \in Keys : stored'[k] # stored[k] =>
        /\ k \in Accounts => stored'[k].by = k
        /\ stored[k].by \in {Nobody, stored'[k].by} \/ k \in crossed
FileIsTheOwners == [][FileKeepsItsAuthor]_uploadVars
=============================================================================
