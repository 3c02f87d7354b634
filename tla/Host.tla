-------------------------------- MODULE Host --------------------------------
(***************************************************************************)
(* The PowerShell process that grabs the window and presses the keys for   *)
(* the replay bot (host.js), and its two callers (grab.js, input.js), who  *)
(* fall back to a script of their own.  The bot makes one call at a time;  *)
(* the process, its exit and the timers come in between.  An action is one *)
(* callback of Node's loop with the promises it settles.                   *)
(***************************************************************************)
EXTENDS Naturals, Sequences

CONSTANT MaxCalls        \* bound: the calls of a run

ASSUME HostAssumption == MaxCalls \in Nat

VARIABLES
    host,           \* the module's variables, its timers and the processes it started
    call,           \* the bot's last call and what it waits for
    carried,        \* what the client saw of each call: by the host, by the script
    down,           \* the run was ended by an exception nobody catches
    \* history
    cut,            \* a process was gone with a request in its hands
    late            \* a killed process was heard to exit after the next was started

hostVars == <<host, call, carried, down, cut, late>>

Calls == 1..MaxCalls
None0 == 0
Booting == [state |-> "booting", settled |-> FALSE, work |-> None0, did |-> FALSE]

\* The environment may have switched the host off (OWDB_NO_HOST).
HostInit ==
    /\ \E off \in BOOLEAN :
         host = [disabled |-> off, ready |-> FALSE, child |-> None0, queue |-> <<>>,
                 current |-> None0, torn |-> FALSE, timers |-> {}, procs |-> <<>>, failed |-> {}]
    /\ call = [n |-> 0, for |-> "nothing"]
    /\ carried = [n \in Calls |-> {}]
    /\ down = FALSE /\ cut = FALSE /\ late = FALSE

-----------------------------------------------------------------------------
(* What the callbacks are made of: functions of the host *)

Alive(p) == p.state \in {"booting", "up"}

\* A killed process is heard to exit later.
kill(h) ==
    IF h.child = None0 THEN h
    ELSE [h EXCEPT !.procs[h.child].state = IF Alive(h.procs[h.child]) THEN "dead" ELSE @,
                   !.child = None0, !.ready = FALSE]

\* The timer of the request that is failed stays armed.
failAll(h) ==
    [h EXCEPT !.failed = @ \cup ({h.current} \ {None0}) \cup {h.queue[i] : i \in DOMAIN h.queue},
              !.current = None0, !.queue = <<>>]

\* Without a process there is no pipe to write to: the write throws in the caller's
\* promise, with the timer armed and the request current.
pump(h) ==
    IF h.current # None0 \/ h.queue = <<>> \/ ~h.ready THEN h
    ELSE LET r == Head(h.queue)
             g == [h EXCEPT !.current = r, !.queue = Tail(@), !.timers = @ \cup {r}]
         IN  IF h.child = None0 THEN [g EXCEPT !.failed = @ \cup {r}]
             ELSE [g EXCEPT !.procs[h.child].work = r, !.procs[h.child].did = FALSE]

request(h, n) == pump([h EXCEPT !.queue = Append(@, n)])

\* The host after a callback, and the call: over, failed (the script is next) or waiting.
Becomes(h, for) ==
    /\ host' = [h EXCEPT !.failed = {}]
    /\ call' = [call EXCEPT !.for = IF call.n \in h.failed THEN "script" ELSE for]

-----------------------------------------------------------------------------
(* The caller *)

\* grab, sendKeys: available(), and the request if the host is up.  A host that is not
\* up is started anew, which may throw at once.
Call ==
    /\ call.for = "nothing" /\ call.n < MaxCalls
    /\ LET n == call.n + 1
           asked == request(host, n)
           p == Len(host.procs) + 1
       IN  \/ /\ host.disabled
              /\ call' = [n |-> n, for |-> "script"] /\ UNCHANGED host
           \/ /\ ~host.disabled /\ host.ready
              /\ host' = [asked EXCEPT !.failed = {}]
              /\ call' = [n |-> n, for |-> IF n \in asked.failed THEN "script" ELSE "answer"]
           \/ /\ ~host.disabled /\ ~host.ready
              /\ host' = [host EXCEPT !.procs = Append(@, Booting), !.child = p]
              /\ call' = [n |-> n, for |-> "start"]
           \/ /\ ~host.disabled /\ ~host.ready
              /\ host' = [host EXCEPT !.disabled = TRUE]
              /\ call' = [n |-> n, for |-> "script"]
    /\ UNCHANGED <<carried, down, cut, late>>

\* captureBySpawn, sendKeysBySpawn.
Script ==
    /\ call.for = "script"
    /\ call' = [call EXCEPT !.for = "nothing"]
    /\ carried' = [carried EXCEPT ![call.n] = @ \cup {"script"}]
    /\ UNCHANGED <<host, down, cut, late>>

\* close(), at the end of the run.
Close ==
    /\ call = [n |-> MaxCalls, for |-> "nothing"]
    /\ host' = [kill(failAll(host)) EXCEPT !.failed = {}]
    /\ UNCHANGED <<call, carried, down, cut, late>>

-----------------------------------------------------------------------------
(* The process *)

\* A settled start that did not succeed: no host from here on, the caller is told.
Refused(h, p) == [h EXCEPT !.disabled = TRUE, !.procs[p].settled = TRUE]
Told(p, for) == IF host.procs[p].settled THEN call.for ELSE for

\* READY.  Behind half a line of the process before it, it is not recognised.
Ready(p) ==
    /\ host.procs[p].state = "booting"
    /\ LET up == [host EXCEPT !.procs[p].state = "up", !.torn = FALSE]
           heard == pump([up EXCEPT !.ready = TRUE, !.procs[p].settled = TRUE])
       IN  IF host.torn \/ host.ready THEN host' = up /\ UNCHANGED call
           ELSE IF host.procs[p].settled THEN Becomes(heard, call.for)
           ELSE Becomes(request(heard, call.n), "answer")
    /\ UNCHANGED <<carried, down, cut, late>>

\* No READY within START_TIMEOUT_MS.
GiveUp(p) ==
    /\ ~host.procs[p].settled
    /\ host' = kill(Refused(host, p))
    /\ call' = [call EXCEPT !.for = "script"]
    /\ UNCHANGED <<carried, down, cut, late>>

\* 'error': it could not be started.
StartError(p) ==
    /\ host.procs[p].state = "booting" /\ ~host.procs[p].settled
    /\ host' = [Refused(host, p) EXCEPT !.procs[p].state = "gone"]
    /\ call' = [call EXCEPT !.for = "script"]
    /\ UNCHANGED <<carried, down, cut, late>>

\* host.ps1 does what it was asked; the answer may still be lost.
Carry(p) ==
    /\ host.procs[p].state = "up" /\ host.procs[p].work # None0 /\ ~host.procs[p].did
    /\ host' = [host EXCEPT !.procs[p].did = TRUE]
    /\ carried' = [carried EXCEPT ![host.procs[p].work] = @ \cup {"host"}]
    /\ UNCHANGED <<call, down, cut, late>>

\* onLine: the answer is for the current request.
OnLine(p) ==
    /\ host.procs[p].state = "up" /\ host.procs[p].did
    /\ LET g == [host EXCEPT !.procs[p].work = None0, !.procs[p].did = FALSE]
           answered == pump([g EXCEPT !.current = None0, !.timers = @ \ {host.current}])
       IN  IF host.current = None0 \/ ~host.ready THEN host' = g /\ UNCHANGED call
           ELSE Becomes(answered, IF host.current = call.n THEN "nothing" ELSE call.for)
    /\ UNCHANGED <<carried, down, cut, late>>

\* It dies, perhaps in the middle of a line.
Die(p) ==
    /\ Alive(host.procs[p])
    /\ \E torn \in BOOLEAN : host' = [host EXCEPT !.procs[p].state = "dead", !.torn = @ \/ torn]
    /\ UNCHANGED <<call, carried, down, cut, late>>

\* 'exit': whatever process it was, the host is taken for gone.
Exit(p) ==
    /\ host.procs[p].state = "dead"
    /\ LET g == [host EXCEPT !.procs[p].state = "gone", !.ready = FALSE, !.child = None0]
       IN  Becomes(failAll(IF g.procs[p].settled THEN g ELSE Refused(g, p)), Told(p, "script"))
    /\ cut' = (cut \/ host.current # None0)
    /\ late' = (late \/ host.child \notin {None0, p})
    /\ UNCHANGED <<carried, down>>

\* Mutant: what waits behind the request that timed out is left waiting.
TimeoutOfOne(r) ==
    /\ r \in host.timers
    /\ LET g == kill([host EXCEPT !.current = None0, !.timers = @ \ {r}])
       IN  IF host.current = None0 THEN host' = g /\ down' = TRUE /\ UNCHANGED call
           ELSE Becomes([g EXCEPT !.failed = {host.current}], call.for) /\ UNCHANGED down
    /\ UNCHANGED <<carried, cut, late>>

\* A request's time is up.  What is rejected is the current request, whichever the timer
\* was set for; and where there is none, the exception ends the run.
Timeout(r) ==
    /\ r \in host.timers
    /\ LET g == kill([host EXCEPT !.timers = @ \ {r}])
       IN  IF host.current = None0 THEN host' = g /\ down' = TRUE /\ UNCHANGED call
           ELSE Becomes(failAll(g), call.for) /\ UNCHANGED down
    /\ UNCHANGED <<carried, cut, late>>

-----------------------------------------------------------------------------
HostNext ==
    /\ ~down
    /\ \/ Call \/ Script \/ Close
       \/ \E p \in DOMAIN host.procs :
            Ready(p) \/ GiveUp(p) \/ StartError(p) \/ Carry(p) \/ OnLine(p) \/ Die(p) \/ Exit(p)
       \/ \E r \in Calls : Timeout(r)

HostSpec == HostInit /\ [][HostNext]_hostVars

-----------------------------------------------------------------------------
(* The properties *)

\* grab.js, input.js, host.js: a caller that waits is woken, and what it asked for is
\* done.  A call that waits for an answer has a timer armed behind it, its own or that
\* of the request it queues behind; one that waits for a start has a process whose start
\* is not settled.  And unless the exit of an old process is heard after the next was
\* started, a call that is over was carried out, by the host or by the script, a host
\* that is ready has a process, and what takes the run down is a process that died over
\* a request; that exit takes the new one for the old: it is never killed, and its answer
\* may be taken for that of a later request.
HostServes ==
    /\ call.for = "answer" =>
         /\ host.current \in host.timers
         /\ call.n = host.current \/ \E i \in DOMAIN host.queue : host.queue[i] = call.n
    /\ call.for = "start" => \E p \in DOMAIN host.procs : ~host.procs[p].settled
    /\ \A n \in Calls : (n < call.n \/ (n = call.n /\ call.for = "nothing")) => carried[n] # {} \/ late
    /\ down => cut \/ late
    /\ host.ready => host.child # None0 \/ late

\* host.js:13-16 of a host that dies in the middle of a run: the callers fall back, and
\* the run goes on.
NightGoesOn == ~down
=============================================================================
