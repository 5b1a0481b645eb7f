----------------------------- MODULE NetworkIdle ----------------------------
(***************************************************************************)
(* POST /tabs/{id}/wait of app.py, from the moment rec.lock is held: the   *)
(* selector wait and the network-idle wait that asyncio.gather runs under  *)
(* asyncio.wait_for.  The idle wait counts requests by the CDP events it   *)
(* hears from its beginning on: requestWillBeSent up, loadingFinished and  *)
(* loadingFailed down.  Time is counted in polls of the idle loop (50 ms). *)
(***************************************************************************)
EXTENDS Integers, FiniteSets

CONSTANTS
  Req,           \* network requests of the tab
  Quiet,         \* how long the count must have been zero (0.5 s)
  Timeout,       \* timeout_s
  MaxHops        \* bound on the redirects of a request

ASSUME IdleAssumption ==
  /\ IsFiniteSet(Req)
  /\ Quiet \in Nat \ {0}
  /\ Timeout \in Nat
  /\ MaxHops \in Nat

VARIABLES
  net,           \* Chromium: how far a request has come
  hops,          \* Chromium: how often it was redirected
  inflight,      \* the counter of _wait_network_idle
  last_zero_at,  \* its last_zero_at
  now,           \* the loop's clock, from the beginning of the wait
  looked,        \* when the idle loop last looked at its count; -1: never
  idle,          \* where _wait_network_idle stands; "off" if not asked for
  selector,      \* where _wait_selector stands
  reply,         \* what the request was answered
  old,           \* history: the requests that were open when it began
  lastBusy       \* history: when a request was last open

network == <<net, hops>>
count == <<inflight, last_zero_at>>
clock == <<now, looked>>
tasks == <<idle, selector, reply>>
vars == <<network, count, clock, tasks, old, lastBusy>>

Open == {r \in Req : net[r] = "open"}
Serving == reply = "none" /\ (idle # "off" \/ selector # "off")

\* The handlers are added by the idle wait and never removed.
Hearing == idle # "off"

IdleInit ==
  /\ net = [r \in Req |-> "none"]
  /\ hops = [r \in Req |-> 0]
  /\ inflight = 0
  /\ last_zero_at = 0
  /\ now = 0
  /\ looked = -1
  /\ idle = "off"
  /\ selector = "off"
  /\ reply = "none"
  /\ old = {}
  /\ lastBusy = 0

----------------------------------------------------------------------------
(* The handlers of the idle wait                                           *)

OnRequest ==
  /\ inflight' = IF Hearing THEN inflight + 1 ELSE inflight
  /\ UNCHANGED last_zero_at

\* Fault: every end is taken for that of the last request.
OnDone_Zero ==
  IF Hearing THEN inflight' = 0 /\ last_zero_at' = now ELSE UNCHANGED count

OnDone ==
  IF Hearing
  THEN /\ inflight' = IF inflight > 0 THEN inflight - 1 ELSE 0
       /\ last_zero_at' = IF inflight' = 0 THEN now ELSE last_zero_at
  ELSE UNCHANGED count

----------------------------------------------------------------------------
(* Chromium                                                                *)

Begin(r) ==
  /\ net[r] = "none"
  /\ net' = [net EXCEPT ![r] = "open"]
  /\ lastBusy' = now
  /\ OnRequest
  /\ UNCHANGED <<hops, clock, tasks, old>>

\* A redirect is announced by requestWillBeSent again, under the same id; no
\* loadingFinished comes of what was redirected.
Redirect(r) ==
  /\ net[r] = "open"
  /\ hops[r] < MaxHops
  /\ hops' = [hops EXCEPT ![r] = @ + 1]
  /\ OnRequest
  /\ UNCHANGED <<net, clock, tasks, old, lastBusy>>

\* loadingFinished or loadingFailed
End(r) ==
  /\ net[r] = "open"
  /\ net' = [net EXCEPT ![r] = "done"]
  /\ lastBusy' = now
  /\ OnDone
  /\ UNCHANGED <<hops, clock, tasks, old>>

----------------------------------------------------------------------------
(* The request                                                             *)

\* rec.lock is held; at least one of the two is asked for (400 otherwise).
Start(i, s) ==
  /\ idle = "off" /\ selector = "off"
  /\ i \/ s
  /\ idle' = IF i THEN "enabling" ELSE "off"
  /\ selector' = IF s THEN "waiting" ELSE "off"
  /\ old' = Open
  /\ UNCHANGED <<network, count, clock, reply, lastBusy>>

\* gather is done when all of its coroutines are.
Gathered(i, s) == i \in {"off", "done"} /\ s \in {"off", "found"}

\* A coroutine has gone on; the request is answered if it was the last.
Proceed(i, s) ==
  /\ idle' = i
  /\ selector' = s
  /\ reply' = IF reply = "none" /\ Gathered(i, s) THEN "ok" ELSE reply
  /\ UNCHANGED <<network, count, now, old, lastBusy>>

\* The first exception ends the request with 502; gather leaves the other
\* coroutine running.
Raise ==
  /\ reply = "none"
  /\ reply' = "error"
  /\ UNCHANGED <<network, count, clock, old, lastBusy>>

Enabled ==
  /\ idle = "enabling"
  /\ Proceed("polling", selector)
  /\ UNCHANGED looked

EnableRaises == idle = "enabling" /\ idle' = "ended" /\ UNCHANGED selector /\ Raise

\* Fault: the count alone decides.
IsIdle_Count == inflight = 0

\* Fault: the quiet time must be exceeded.
IsIdle_More == inflight = 0 /\ now - last_zero_at > Quiet

IsIdle == inflight = 0 /\ now - last_zero_at >= Quiet

\* One look of the loop, which then sleeps for one tick.
Poll ==
  /\ idle = "polling"
  /\ looked < now
  /\ Proceed(IF IsIdle THEN "done" ELSE "polling", selector)
  /\ looked' = now

SelectorFound ==
  /\ selector = "waiting"
  /\ Proceed(idle, "found")
  /\ UNCHANGED looked

SelectorRaises ==
  selector = "waiting" /\ selector' = "ended" /\ UNCHANGED idle /\ Raise

\* wait_for cancels both coroutines: 408.
TimedOut ==
  /\ Serving
  /\ now = Timeout
  /\ reply' = "timeout"
  /\ idle' = IF idle = "off" THEN "off" ELSE "ended"
  /\ selector' = IF selector = "off" THEN "off" ELSE "ended"
  /\ UNCHANGED <<network, count, clock, old, lastBusy>>

\* The loop looks once per tick; an answer to Network.enable may take long.
Tick ==
  /\ Serving
  /\ now < Timeout
  /\ idle = "polling" => looked = now
  /\ now' = now + 1
  /\ UNCHANGED <<network, count, looked, tasks, old, lastBusy>>

Chromium == \E r \in Req : Begin(r) \/ Redirect(r) \/ End(r)

Handler ==
  \/ \E i, s \in BOOLEAN : Start(i, s)
  \/ Enabled
  \/ EnableRaises
  \/ Poll
  \/ SelectorFound
  \/ SelectorRaises
  \/ TimedOut

IdleNext == Chromium \/ Handler \/ Tick

IdleSpec == IdleInit /\ [][IdleNext]_vars

----------------------------------------------------------------------------
(* Properties                                                              *)

\* The values of the variables.
IdleTypeOK ==
  /\ net \in [Req -> {"none", "open", "done"}]
  /\ hops \in [Req -> 0..MaxHops]
  /\ inflight \in Nat
  /\ now \in 0..Timeout
  /\ {last_zero_at, lastBusy} \subseteq 0..now
  /\ looked \in -1..now
  /\ idle \in {"off", "enabling", "polling", "done", "ended"}
  /\ selector \in {"off", "waiting", "found", "ended"}
  /\ reply \in {"none", "ok", "error", "timeout"}
  /\ old \subseteq Req

SeesIdle == idle = "polling" /\ idle' = "done"

\* When the network is found idle and nothing was open when the wait began,
\* nothing is open, nor has been for the quiet time.
IdleIsQuiet ==
  [][SeesIdle /\ old = {} => Open = {} /\ now - lastBusy >= Quiet]_vars

\* Otherwise the requests it has missed are no more than those that were
\* open when it began and ended since: each takes one off the count.
MissesNoMoreThanOld ==
  [][SeesIdle => Cardinality(Open \ old) <= Cardinality(old \ Open)]_vars

\* A wait for the network alone that is answered 408 although nothing was
\* redirected has reason to: Network.enable was not answered in time, one of
\* the wait's own requests is open, or some request was within the quiet time.
TimeoutIsBusy ==
  [][reply = "none" /\ reply' = "timeout" /\ selector = "off"
     /\ (\A r \in Req : hops[r] = 0)
     => \/ looked < now - 1
        \/ Open \ old # {}
        \/ now - lastBusy <= Quiet]_vars

\* app.py:859, README.md:121: a quiet network is found idle in time.
QuietIsSeen ==
  [][reply = "none" /\ reply' = "timeout" /\ selector = "off"
     => \/ looked < now - 1
        \/ Open # {}
        \/ now - lastBusy <= Quiet]_vars

=============================================================================
