-------------------------- MODULE NetworkIdleProofs --------------------------
(***************************************************************************)
(* Every execution of a wait, for any set of requests, quiet time, timeout *)
(* and number of redirects, keeps IdleTypeOK, IdleIsQuiet,                 *)
(* MissesNoMoreThanOld and TimeoutIsBusy.                                  *)
(***************************************************************************)
EXTENDS NetworkIdle, FiniteSetTheorems, TLAPS

\* The wait's own requests that are open; those it missed the beginning of
\* and heard the end of.
Own == Open \ old
Missed == old \ Open

\* Nothing is counted and no time passes before the wait begins.
BeforeInv ==
  /\ ~Hearing => inflight = 0
  /\ idle = "off" /\ selector = "off" => now = 0 /\ reply = "none"
  /\ \A r \in old : net[r] # "none"

\* What the count is worth: an end that was not counted in takes one off it,
\* and a redirect adds one.
CountInv ==
  Hearing =>
    /\ Cardinality(Own) <= inflight + Cardinality(Missed)
    /\ (\A r \in Req : hops[r] = 0) => inflight <= Cardinality(Own)

\* What last_zero_at is worth.
ZeroInv ==
  /\ last_zero_at <= lastBusy
  /\ Hearing /\ old = {} /\ inflight = 0 => lastBusy <= last_zero_at
  /\ idle = "polling" /\ looked >= 0 /\ inflight = 0
       => looked - last_zero_at < Quiet

\* Where the coroutines stand while the request is unanswered.
TaskInv ==
  /\ idle \in {"off", "enabling"} => looked = -1
  /\ reply = "none" => "ended" \notin {idle, selector}
  /\ reply = "none" /\ idle = "done" => selector = "waiting"

IInv == IdleTypeOK /\ BeforeInv /\ CountInv /\ ZeroInv /\ TaskInv

USE IdleAssumption

\* Any set of requests is finite.
LEMMA Finite ==
  ASSUME NEW S \in SUBSET Req
  PROVE  IsFiniteSet(S) /\ Cardinality(S) \in Nat
  BY FS_Subset, FS_CardinalityType

\* The initial states satisfy the invariant.
LEMMA InitInv == IdleInit => IInv
<1> SUFFICES ASSUME IdleInit PROVE IInv
  OBVIOUS
<1>1. IdleTypeOK
  BY DEF IdleInit, IdleTypeOK
<1>2. BeforeInv /\ CountInv /\ ZeroInv /\ TaskInv
  BY DEF IdleInit, BeforeInv, CountInv, ZeroInv, TaskInv, Hearing
<1> QED
  BY <1>1, <1>2 DEF IInv

\* A request begins: it is one of the wait's own, and is counted.
LEMMA BeginInv == ASSUME IInv, NEW r \in Req, Begin(r) PROVE IInv'
<1> USE DEF IInv
<1>1. /\ net' = [net EXCEPT ![r] = "open"] /\ net[r] = "none"
      /\ lastBusy' = now
      /\ inflight' = (IF Hearing THEN inflight + 1 ELSE inflight)
      /\ UNCHANGED <<last_zero_at, hops, now, looked, idle, selector, reply,
                     old>>
  BY DEF Begin, OnRequest, clock, tasks
<1>2. IdleTypeOK'
  BY <1>1 DEF IdleTypeOK
<1>3. BeforeInv'
  BY <1>1 DEF BeforeInv, Hearing, IdleTypeOK
<1>4. Own' = Own \cup {r} /\ r \notin Own /\ Missed' = Missed
  BY <1>1 DEF Own, Missed, Open, IdleTypeOK, BeforeInv
<1>5. Cardinality(Own') = Cardinality(Own) + 1
      /\ Cardinality(Own) \in Nat /\ Cardinality(Missed) \in Nat
  <2>1. Own \in SUBSET Req /\ Missed \in SUBSET Req
    BY DEF Own, Missed, Open, IdleTypeOK
  <2>2. IsFiniteSet(Own) /\ Cardinality(Own) \in Nat
        /\ Cardinality(Missed) \in Nat
    BY <2>1, Finite
  <2> QED
    BY <1>4, <2>2, FS_AddElement
<1>6. CountInv'
  BY <1>1, <1>4, <1>5 DEF CountInv, Hearing, IdleTypeOK
<1>7. ZeroInv'
  BY <1>1 DEF ZeroInv, Hearing, IdleTypeOK
<1>8. TaskInv'
  BY <1>1 DEF TaskInv
<1> QED
  BY <1>2, <1>3, <1>6, <1>7, <1>8

\* A request is redirected: it is counted once more.
LEMMA RedirectInv == ASSUME IInv, NEW r \in Req, Redirect(r) PROVE IInv'
<1> USE DEF IInv
<1>1. /\ hops' = [hops EXCEPT ![r] = @ + 1] /\ hops[r] < MaxHops
      /\ inflight' = (IF Hearing THEN inflight + 1 ELSE inflight)
      /\ UNCHANGED <<net, lastBusy, last_zero_at, now, looked, idle, selector,
                     reply, old>>
  BY DEF Redirect, OnRequest, clock, tasks
<1>2. hops'[r] # 0 /\ hops' \in [Req -> 0..MaxHops]
  BY <1>1 DEF IdleTypeOK
<1>3. IdleTypeOK'
  BY <1>1, <1>2 DEF IdleTypeOK
<1>4. Own' = Own /\ Missed' = Missed
  BY <1>1 DEF Own, Missed, Open
<1>5. Cardinality(Own) \in Nat /\ Cardinality(Missed) \in Nat
  BY Finite DEF Own, Missed, Open, IdleTypeOK
<1>6. CountInv'
  BY <1>1, <1>2, <1>4, <1>5 DEF CountInv, Hearing, IdleTypeOK
<1>7. BeforeInv' /\ ZeroInv' /\ TaskInv'
  BY <1>1 DEF BeforeInv, ZeroInv, TaskInv, Hearing, IdleTypeOK
<1> QED
  BY <1>3, <1>6, <1>7

\* A request ends: one of the wait's own, or one it missed the beginning of.
LEMMA EndInv == ASSUME IInv, NEW r \in Req, End(r) PROVE IInv'
<1> USE DEF IInv
<1>1. /\ net' = [net EXCEPT ![r] = "done"] /\ net[r] = "open"
      /\ lastBusy' = now
      /\ UNCHANGED <<hops, now, looked, idle, selector, reply, old>>
  BY DEF End, clock, tasks
<1>2. IF Hearing
      THEN /\ inflight' = (IF inflight > 0 THEN inflight - 1 ELSE 0)
           /\ last_zero_at' = (IF inflight' = 0 THEN now ELSE last_zero_at)
      ELSE UNCHANGED <<inflight, last_zero_at>>
  BY DEF End, OnDone, count
<1>3. IdleTypeOK'
  BY <1>1, <1>2 DEF IdleTypeOK
<1>4. BeforeInv'
  BY <1>1, <1>2 DEF BeforeInv, Hearing, IdleTypeOK
<1>5. IF r \in old
      THEN Own' = Own /\ Missed' = Missed \cup {r} /\ r \notin Missed
      ELSE Own' = Own \ {r} /\ r \in Own /\ Missed' = Missed
  BY <1>1 DEF Own, Missed, Open, IdleTypeOK
<1>6. /\ Cardinality(Own) \in Nat /\ Cardinality(Missed) \in Nat
      /\ IF r \in old
         THEN /\ Cardinality(Own') = Cardinality(Own)
              /\ Cardinality(Missed') = Cardinality(Missed) + 1
         ELSE /\ Cardinality(Own') = Cardinality(Own) - 1
              /\ Cardinality(Missed') = Cardinality(Missed)
  <2>1. Own \in SUBSET Req /\ Missed \in SUBSET Req
    BY DEF Own, Missed, Open, IdleTypeOK
  <2>2. /\ IsFiniteSet(Own) /\ Cardinality(Own) \in Nat
        /\ IsFiniteSet(Missed) /\ Cardinality(Missed) \in Nat
    BY <2>1, Finite
  <2>3. CASE r \in old
    BY <1>5, <2>2, <2>3, FS_AddElement
  <2>4. CASE r \notin old
    BY <1>5, <2>2, <2>4, FS_RemoveElement
  <2> QED
    BY <2>2, <2>3, <2>4
<1>7. Cardinality(Own') \in Nat
  BY <1>1, Finite DEF Own, Open, IdleTypeOK
<1>8. CountInv'
  <2> SUFFICES ASSUME Hearing
               PROVE  /\ Cardinality(Own') <= inflight' + Cardinality(Missed')
                      /\ (\A q \in Req : hops[q] = 0)
                           => inflight' <= Cardinality(Own')
    BY <1>1 DEF CountInv, Hearing
  <2> QED
    BY <1>2, <1>6, <1>7 DEF CountInv, IdleTypeOK
<1>9. ZeroInv'
  BY <1>1, <1>2 DEF ZeroInv, Hearing, IdleTypeOK
<1>10. TaskInv'
  BY <1>1 DEF TaskInv
<1> QED
  BY <1>3, <1>4, <1>8, <1>9, <1>10

\* The wait begins: what is open then is old.
LEMMA StartInv == ASSUME IInv, NEW i \in BOOLEAN, NEW s \in BOOLEAN, Start(i, s)
                  PROVE  IInv'
<1> USE DEF IInv
<1>1. /\ idle = "off" /\ selector = "off"
      /\ idle' = (IF i THEN "enabling" ELSE "off")
      /\ selector' = (IF s THEN "waiting" ELSE "off") /\ (i \/ s)
      /\ old' = Open
      /\ UNCHANGED <<net, hops, inflight, last_zero_at, now, looked, reply,
                     lastBusy>>
  BY DEF Start, network, count, clock
<1>2. IdleTypeOK'
  BY <1>1 DEF IdleTypeOK, Open
<1>3. Own' = {} /\ Missed' = {}
  BY <1>1 DEF Own, Missed, Open
<1>4. inflight' = 0 /\ now' = 0
  BY <1>1 DEF BeforeInv, Hearing
<1>5. CountInv'
  BY <1>3, <1>4, FS_EmptySet DEF CountInv
<1>6. BeforeInv' /\ ZeroInv' /\ TaskInv'
  BY <1>1, <1>4 DEF BeforeInv, ZeroInv, TaskInv, Hearing, Open, IdleTypeOK
<1> QED
  BY <1>2, <1>5, <1>6

\* The coroutines only look at the count.
LEMMA CountKept ==
  ASSUME IInv, UNCHANGED <<net, hops, inflight, old>>, Hearing' = Hearing
  PROVE  CountInv'
  BY DEF IInv, CountInv, Own, Missed, Open

\* A step of a coroutine that has begun, or the end of the request.
LEMMA TaskStepInv ==
  ASSUME IInv,
         Enabled \/ EnableRaises \/ Poll \/ SelectorFound \/ SelectorRaises
           \/ TimedOut
  PROVE  IInv'
<1> USE DEF IInv
<1>1. /\ UNCHANGED <<net, hops, inflight, last_zero_at, now, old, lastBusy>>
      /\ (idle' = "off") <=> (idle = "off")
      /\ ~(idle' = "off" /\ selector' = "off")
      /\ looked' \in -1..now /\ (looked' = looked \/ looked' = now)
      /\ idle' \in {"off", "enabling", "polling", "done", "ended"}
      /\ selector' \in {"off", "waiting", "found", "ended"}
      /\ reply' \in {"none", "ok", "error", "timeout"}
  BY DEF Enabled, EnableRaises, Poll, SelectorFound, SelectorRaises, TimedOut,
     Proceed, Raise, Serving, network, count, clock, IdleTypeOK
<1>2. IdleTypeOK'
  BY <1>1 DEF IdleTypeOK
<1>3. CountInv'
  BY <1>1, CountKept DEF Hearing
<1>4. BeforeInv'
  BY <1>1 DEF BeforeInv, Hearing
<1>5. ZeroInv'
  <2>1. ASSUME idle' = "polling", looked' >= 0, inflight = 0
        PROVE  looked' - last_zero_at < Quiet
    BY <1>1, <2>1 DEF Enabled, EnableRaises, Poll, SelectorFound,
       SelectorRaises, TimedOut, Proceed, Raise, IsIdle, ZeroInv, TaskInv,
       clock, IdleTypeOK
  <2> QED
    BY <1>1, <2>1 DEF ZeroInv, Hearing
<1>6. TaskInv'
  BY <1>1 DEF TaskInv, Enabled, EnableRaises, Poll, SelectorFound,
     SelectorRaises, TimedOut, Proceed, Raise, Gathered, clock, IdleTypeOK
<1> QED
  BY <1>2, <1>3, <1>4, <1>5, <1>6

\* Time passes.
LEMMA TickInv == ASSUME IInv, Tick PROVE IInv'
<1> USE DEF IInv
<1>1. /\ now' = now + 1 /\ now < Timeout /\ Serving
      /\ UNCHANGED <<net, hops, inflight, last_zero_at, looked, idle, selector,
                     reply, old, lastBusy>>
  BY DEF Tick, network, count, tasks
<1>2. IdleTypeOK'
  BY <1>1 DEF IdleTypeOK
<1>3. CountInv'
  BY <1>1, CountKept DEF Hearing
<1>4. BeforeInv' /\ ZeroInv' /\ TaskInv'
  BY <1>1 DEF BeforeInv, ZeroInv, TaskInv, Hearing, Serving
<1> QED
  BY <1>2, <1>3, <1>4

\* Every step keeps the invariant.
LEMMA NextInv == IInv /\ [IdleNext]_vars => IInv'
<1> SUFFICES ASSUME IInv, [IdleNext]_vars PROVE IInv'
  OBVIOUS
<1>1. CASE UNCHANGED vars
  BY <1>1 DEF vars, network, count, clock, tasks, IInv, IdleTypeOK, BeforeInv,
     CountInv, ZeroInv, TaskInv, Hearing, Own, Missed, Open
<1>2. CASE Chromium
  BY <1>2, BeginInv, RedirectInv, EndInv DEF Chromium
<1>3. CASE Handler
  BY <1>3, StartInv, TaskStepInv DEF Handler
<1>4. CASE Tick
  BY <1>4, TickInv
<1> QED
  BY <1>1, <1>2, <1>3, <1>4 DEF IdleNext

\* The invariant holds in every state of every execution.
THEOREM InvHolds == IdleSpec => []IInv
  BY InitInv, NextInv, PTL DEF IdleSpec

\* The variables keep to their values: above all the count is never negative.
THEOREM TypeCorrect == IdleSpec => []IdleTypeOK
<1>1. IInv => IdleTypeOK
  BY DEF IInv
<1> QED
  BY <1>1, InvHolds, PTL

\* Only the loop's look at the count finds the network idle.
LEMMA SeenByPoll ==
  ASSUME IInv, [IdleNext]_vars, SeesIdle
  PROVE  IsIdle /\ UNCHANGED <<net, old, now, lastBusy>>
<1>1. idle # idle'
  BY DEF SeesIdle
<1>2. CASE Handler
  BY <1>1, <1>2 DEF Handler, Start, Enabled, EnableRaises, Poll, SelectorFound,
     SelectorRaises, TimedOut, Proceed, SeesIdle, network
<1> QED
  BY <1>1, <1>2 DEF IdleNext, Tick, Chromium, Begin, Redirect, End, tasks, vars

\* What is not counted when the network is found idle.
LEMMA SeenCount ==
  ASSUME IInv, IsIdle, idle = "polling"
  PROVE  Cardinality(Own) <= Cardinality(Missed)
<1>1. Cardinality(Own) \in Nat /\ Cardinality(Missed) \in Nat
  BY Finite DEF IInv, IdleTypeOK, Own, Missed, Open
<1> QED
  BY <1>1 DEF IInv, CountInv, Hearing, IsIdle

\* An idle network has been quiet, if nothing was open when the wait began.
THEOREM IdleNetworkIsQuiet == IdleSpec => IdleIsQuiet
<1>1. ASSUME IInv, [IdleNext]_vars
      PROVE  [SeesIdle /\ old = {} =>
                Open = {} /\ now - lastBusy >= Quiet]_vars
  <2> SUFFICES ASSUME SeesIdle, old = {}
               PROVE  Open = {} /\ now - lastBusy >= Quiet
    OBVIOUS
  <2>1. IsIdle /\ idle = "polling"
    BY <1>1, SeenByPoll DEF SeesIdle
  <2>2. Own = Open /\ Missed = {} /\ Open \in SUBSET Req
    BY DEF Own, Missed, Open
  <2>3. Cardinality(Open) <= 0
    BY <1>1, <2>1, <2>2, SeenCount, FS_EmptySet
  <2>4. Open = {}
    BY <2>2, <2>3, Finite, FS_EmptySet
  <2> QED
    BY <1>1, <2>1, <2>4 DEF IInv, ZeroInv, IdleTypeOK, Hearing, IsIdle
<1> QED
  BY <1>1, InvHolds, PTL DEF IdleSpec, IdleIsQuiet

\* The wait misses no more requests than were open when it began and ended.
THEOREM MissedAreOld == IdleSpec => MissesNoMoreThanOld
<1>1. ASSUME IInv, [IdleNext]_vars
      PROVE  [SeesIdle =>
                Cardinality(Open \ old) <= Cardinality(old \ Open)]_vars
  BY <1>1, SeenByPoll, SeenCount DEF SeesIdle, Own, Missed
<1> QED
  BY <1>1, InvHolds, PTL DEF IdleSpec, MissesNoMoreThanOld

\* Without redirects, no wait times out over a network that is quiet.
THEOREM TimeoutHasReason == IdleSpec => TimeoutIsBusy
<1>1. ASSUME IInv, [IdleNext]_vars
      PROVE  [reply = "none" /\ reply' = "timeout" /\ selector = "off"
                /\ (\A r \in Req : hops[r] = 0)
                => \/ looked < now - 1
                   \/ Open \ old # {}
                   \/ now - lastBusy <= Quiet]_vars
  <2> SUFFICES ASSUME reply = "none", reply' = "timeout", selector = "off",
                      \A r \in Req : hops[r] = 0,
                      looked >= now - 1, Own = {}, now - lastBusy > Quiet
               PROVE  FALSE
    BY <1>1 DEF Own, IInv, IdleTypeOK
  <2>1. idle \in {"enabling", "polling"}
    <3>1. TimedOut
      BY <1>1 DEF IdleNext, Chromium, Begin, Redirect, End, Handler, Start,
         Enabled, EnableRaises, Poll, SelectorFound, SelectorRaises, Proceed,
         Raise, Tick, tasks, vars
    <3> QED
      BY <1>1, <3>1 DEF TimedOut, Serving, IInv, TaskInv, IdleTypeOK
  <2>2. now > 0 /\ looked >= 0
    BY <1>1 DEF IInv, IdleTypeOK
  <2>3. idle = "polling"
    BY <1>1, <2>1, <2>2 DEF IInv, TaskInv
  <2>4. inflight = 0
    BY <1>1, <2>3, FS_EmptySet DEF IInv, CountInv, Hearing, IdleTypeOK
  <2> QED
    BY <1>1, <2>2, <2>3, <2>4 DEF IInv, ZeroInv, IdleTypeOK
<1> QED
  BY <1>1, InvHolds, PTL DEF IdleSpec, TimeoutIsBusy

=============================================================================
