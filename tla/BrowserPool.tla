----------------------------- MODULE BrowserPool -----------------------------
(***************************************************************************)
(* browser_pool.py: one Chromium process shared by every tab, started on   *)
(* demand, counted by _active, stopped by an idle timer, by DELETE         *)
(* /browser, or when the service ends.  Coroutines interleave only where   *)
(* the code awaits: a critical section without an await is one action, and *)
(* the one that awaits uc.start holds `lock` from CreateCold to Admit.     *)
(* A browsing context is named after the call that creates it.             *)
(***************************************************************************)
EXTENDS Integers, FiniteSets

CONSTANTS
  Caller,        \* coroutines that call the pool, and the contexts they create
  Task,          \* identities of asyncio tasks running _idle_shutdown
  NoCaller,      \* the lock is free; no context
  NoTask,        \* _idle_task is None
  IdleShutdown,  \* cfg.idle_chrome_shutdown_seconds > 0
  Extensions,    \* cfg.extension_dirs is not empty
  MaxLeaked      \* bound: contexts counted in _active that do not exist

ASSUME PoolAssumption ==
  /\ IsFiniteSet(Caller)
  /\ NoCaller \notin Caller
  /\ NoTask \notin Task
  /\ IdleShutdown \in BOOLEAN
  /\ Extensions \in BOOLEAN
  /\ MaxLeaked \in Nat

VARIABLES
  running,       \* _browser is not None
  active,        \* _active
  lock,          \* the caller that holds _lock across an await, or NoCaller
  idleTask,      \* _idle_task
  task,          \* each idle task: dead (ended or cancelled), sleeping, ready
  call,          \* where each caller stands in its pool call
  arg,           \* the context each caller passes to close_context
  ctx,           \* each context as Chromium has it
  halted         \* the lifespan has called stop()

poolVars == <<running, active, lock, idleTask, task, call, arg, ctx, halted>>

CreatePhase == {"createWait", "starting", "settling", "opening"}
ClosePhase == {"closing", "releaseWait", "raiseWait"}
Pending == CreatePhase \cup ClosePhase \cup {"stopWait"}
Result == {"created", "createRaised", "closed", "closeRaised",
           "stopped", "wasDown", "refused"}

\* The contexts that need the running process.  One that was held when the
\* process was stopped is "lost".
HeldState == {"opening", "open", "closing"}
Held == {t \in Caller : ctx[t] \in HeldState}

PoolInit ==
  /\ running = ~IdleShutdown
  /\ active = 0
  /\ lock = NoCaller
  /\ idleTask = NoTask
  /\ task = [t \in Task |-> "dead"]
  /\ call = [c \in Caller |-> "out"]
  /\ arg = [c \in Caller |-> NoCaller]
  /\ ctx = [c \in Caller |-> "none"]
  /\ halted = FALSE

----------------------------------------------------------------------------
(* The steps every critical section is made of.                            *)

\* Fault: the handle is dropped and the task left running.
CancelIdle_HandleOnly == idleTask' = NoTask /\ UNCHANGED task

CancelIdle ==
  /\ idleTask' = NoTask
  /\ task' = [t \in Task |-> IF t = idleTask THEN "dead" ELSE task[t]]

RearmIdle ==
  \E new \in {t \in Task : task[t] = "dead" /\ t # idleTask} :
    /\ idleTask' = new
    /\ task' = [t \in Task |-> CASE t = new -> "sleeping"
                                 [] t = idleTask -> "dead"
                                 [] OTHER -> task[t]]

\* Faults: the count is read before it is lowered; 0 seconds is not special.
ArmIfIdle_Early ==
  IF active = 0 /\ IdleShutdown THEN RearmIdle ELSE UNCHANGED <<idleTask, task>>

ArmIfIdle_Always ==
  IF active' = 0 THEN RearmIdle ELSE UNCHANGED <<idleTask, task>>

\* Reads the count the same step has lowered.
ArmIfIdle ==
  IF active' = 0 /\ IdleShutdown THEN RearmIdle ELSE UNCHANGED <<idleTask, task>>

StopBrowser ==
  /\ running' = FALSE
  /\ ctx' = [t \in Caller |-> IF t \in Held THEN "lost" ELSE ctx[t]]

\* Faults: lowered on return and again in the finally block; reset; forgotten.
Dec_Twice(n) == n - 2
Dec_ToZero(n) == 0
Dec_Forgotten(n) == n

Dec(n) == IF n > 0 THEN n - 1 ELSE 0

\* Fault: _active is bumped only after the context is there.
Admit_Late(c) ==
  /\ lock' = NoCaller
  /\ call' = [call EXCEPT ![c] = "opening"]
  /\ ctx' = [ctx EXCEPT ![c] = "opening"]
  /\ UNCHANGED active

\* _active is bumped and the lock released; the context is asked for next.
Admit(c) ==
  /\ active' = active + 1
  /\ lock' = NoCaller
  /\ call' = [call EXCEPT ![c] = "opening"]
  /\ ctx' = [ctx EXCEPT ![c] = "opening"]

----------------------------------------------------------------------------
(* create_context                                                          *)

CallCreate(c) ==
  /\ ~halted
  /\ call[c] = "out"
  /\ ctx[c] = "none"
  /\ call' = [call EXCEPT ![c] = "createWait"]
  /\ UNCHANGED <<running, active, lock, idleTask, task, arg, ctx, halted>>

CreateWarm(c) ==
  /\ call[c] = "createWait"
  /\ lock = NoCaller
  /\ running
  /\ CancelIdle
  /\ Admit(c)
  /\ UNCHANGED <<running, arg, halted>>

CreateCold(c) ==
  /\ call[c] = "createWait"
  /\ lock = NoCaller
  /\ ~running
  /\ CancelIdle
  /\ lock' = c
  /\ call' = [call EXCEPT ![c] = "starting"]
  /\ UNCHANGED <<running, active, arg, ctx, halted>>

StartOk(c) ==
  /\ call[c] = "starting"
  /\ running' = TRUE
  /\ IF Extensions
     THEN /\ call' = [call EXCEPT ![c] = "settling"]
          /\ UNCHANGED <<active, lock, ctx>>
     ELSE Admit(c)
  /\ UNCHANGED <<idleTask, task, arg, halted>>

\* Fault: the lock is kept when uc.start raises.
StartRaises_Locked(c) ==
  /\ call[c] = "starting"
  /\ call' = [call EXCEPT ![c] = "createRaised"]
  /\ UNCHANGED <<running, active, lock, idleTask, task, arg, ctx, halted>>

StartRaises(c) ==
  /\ call[c] = "starting"
  /\ lock' = NoCaller
  /\ call' = [call EXCEPT ![c] = "createRaised"]
  /\ UNCHANGED <<running, active, idleTask, task, arg, ctx, halted>>

Settled(c) ==
  /\ call[c] = "settling"
  /\ Admit(c)
  /\ UNCHANGED <<running, idleTask, task, arg, halted>>

OpenOk(c) ==
  /\ call[c] = "opening"
  /\ ctx[c] = "opening"
  /\ call' = [call EXCEPT ![c] = "created"]
  /\ ctx' = [ctx EXCEPT ![c] = "open"]
  /\ UNCHANGED <<running, active, lock, idleTask, task, arg, halted>>

\* Nothing takes the bump of _active back.
OpenRaises(c) ==
  /\ call[c] = "opening"
  /\ ctx[c] = "lost" \/ active - Cardinality(Held) < MaxLeaked
  /\ call' = [call EXCEPT ![c] = "createRaised"]
  /\ ctx' = [ctx EXCEPT ![c] = "none"]
  /\ UNCHANGED <<running, active, lock, idleTask, task, arg, halted>>

----------------------------------------------------------------------------
(* close_context                                                           *)

CallClose(c, t) ==
  /\ ~halted
  /\ call[c] \notin Pending
  /\ call' = [call EXCEPT ![c] = "closing"]
  /\ arg' = [arg EXCEPT ![c] = t]
  /\ ctx' = [ctx EXCEPT ![t] = IF @ = "open" THEN "closing" ELSE @]
  /\ UNCHANGED <<running, active, lock, idleTask, task, halted>>

\* Fault: closing a tab that is gone is never answered.
TabClosed_Hangs(c) ==
  /\ call[c] = "closing"
  /\ ctx[arg[c]] = "closing"
  /\ \E next \in {"releaseWait", "raiseWait"} :
       call' = [call EXCEPT ![c] = next]
  /\ UNCHANGED <<running, active, lock, idleTask, task, arg, ctx, halted>>

\* tab.close() returns or raises; the finally block waits for the lock.
TabClosed(c) ==
  /\ call[c] = "closing"
  /\ \E next \in {"releaseWait", "raiseWait"} :
       call' = [call EXCEPT ![c] = next]
  /\ UNCHANGED <<running, active, lock, idleTask, task, arg, ctx, halted>>

Release(c) ==
  /\ call[c] \in {"releaseWait", "raiseWait"}
  /\ lock = NoCaller
  /\ active' = Dec(active)
  /\ ArmIfIdle
  /\ call' = [call EXCEPT ![c] =
                IF @ = "releaseWait" THEN "closed" ELSE "closeRaised"]
  /\ ctx' = [ctx EXCEPT ![arg[c]] = "none"]
  /\ UNCHANGED <<running, lock, arg, halted>>

----------------------------------------------------------------------------
(* stop_if_idle, _idle_shutdown, stop                                      *)

CallStopIfIdle(c) ==
  /\ ~halted
  /\ call[c] = "out"
  /\ call' = [call EXCEPT ![c] = "stopWait"]
  /\ UNCHANGED <<running, active, lock, idleTask, task, arg, ctx, halted>>

StopRefused(c) ==
  /\ call[c] = "stopWait"
  /\ lock = NoCaller
  /\ active > 0
  /\ call' = [call EXCEPT ![c] = "refused"]
  /\ UNCHANGED <<running, active, lock, idleTask, task, arg, ctx, halted>>

\* Fault: the count was checked before the lock was taken.
StopIdle_Unchecked(c) ==
  /\ call[c] = "stopWait"
  /\ lock = NoCaller
  /\ CancelIdle
  /\ StopBrowser
  /\ call' = [call EXCEPT ![c] = "stopped"]
  /\ UNCHANGED <<active, lock, arg, halted>>

StopIdle(c) ==
  /\ call[c] = "stopWait"
  /\ lock = NoCaller
  /\ active = 0
  /\ CancelIdle
  /\ StopBrowser
  /\ call' = [call EXCEPT ![c] = IF running THEN "stopped" ELSE "wasDown"]
  /\ UNCHANGED <<active, lock, arg, halted>>

TimerFires(t) ==
  /\ task[t] = "sleeping"
  /\ task' = [task EXCEPT ![t] = "ready"]
  /\ UNCHANGED <<running, active, lock, idleTask, call, arg, ctx, halted>>

IdleStop(t) ==
  /\ task[t] = "ready"
  /\ lock = NoCaller
  /\ IF active = 0 THEN StopBrowser ELSE UNCHANGED <<running, ctx>>
  /\ idleTask' = NoTask
  /\ task' = [task EXCEPT ![t] = "dead"]
  /\ UNCHANGED <<active, lock, call, arg, halted>>

\* The lifespan stops the pool once the server has drained its requests and
\* the sweeper has ended.
Halt ==
  /\ ~halted
  /\ \A c \in Caller : call[c] \notin Pending
  /\ CancelIdle
  /\ StopBrowser
  /\ halted' = TRUE
  /\ UNCHANGED <<active, lock, call, arg>>

----------------------------------------------------------------------------
(* The pool on its own: any caller makes any call and takes its result; a  *)
(* context is closed by one caller, once.                                  *)

Return(c) ==
  /\ call[c] \in Result
  /\ call' = [call EXCEPT ![c] = "out"]
  /\ arg' = [arg EXCEPT ![c] = NoCaller]
  /\ UNCHANGED <<running, active, lock, idleTask, task, ctx, halted>>

CloseOnce(c) == \E t \in Caller : ctx[t] = "open" /\ CallClose(c, t)

Ended == halted /\ UNCHANGED poolVars

\* The steps the pool takes by itself, whoever calls it.
CallStep(c) ==
  \/ CreateWarm(c) \/ CreateCold(c)
  \/ StartOk(c) \/ StartRaises(c) \/ Settled(c)
  \/ OpenOk(c) \/ OpenRaises(c)
  \/ TabClosed(c) \/ Release(c)
  \/ StopRefused(c) \/ StopIdle(c)

TimerStep(t) == TimerFires(t) \/ IdleStop(t)

PoolNext ==
  \/ \E c \in Caller : \/ CallCreate(c) \/ CloseOnce(c) \/ CallStopIfIdle(c)
                       \/ CallStep(c) \/ Return(c)
  \/ \E t \in Task : TimerStep(t)
  \/ Halt
  \/ Ended

\* Chromium answers or fails, timers fire, and asyncio.Lock is first come
\* first served, so a waiter is not overtaken for ever.  A caller, or a timer,
\* leaves its phase only by a step of its own: one condition covers them all.
CallFairness(c) == SF_poolVars(CallStep(c))

TimerFairness(t) == SF_poolVars(TimerStep(t))

PoolSafe == PoolInit /\ [][PoolNext]_poolVars

PoolSpec ==
  /\ PoolSafe
  /\ \A c \in Caller : CallFairness(c)
  /\ \A t \in Task : TimerFairness(t)

----------------------------------------------------------------------------
(* Properties                                                              *)

\* Every variable of the pool stays in its range.
PoolTypeOK ==
  /\ running \in BOOLEAN
  /\ active \in Nat
  /\ lock \in Caller \cup {NoCaller}
  /\ idleTask \in Task \cup {NoTask}
  /\ task \in [Task -> {"dead", "sleeping", "ready"}]
  /\ call \in [Caller -> Pending \cup Result \cup {"out"}]
  /\ arg \in [Caller -> Caller \cup {NoCaller}]
  /\ ctx \in [Caller -> HeldState \cup {"none", "lost"}]
  /\ halted \in BOOLEAN

\* _active, which every decision to stop Chromium reads, is never below the
\* number of contexts that rely on it, whatever is raised on the way; it is
\* above only by the openings that raised (OpenRaises).
ActiveCoversHeld == Cardinality(Held) =< active

LeaksOnlyByRaise == halted \/ active =< Cardinality(Held) + MaxLeaked

\* No stop, from the timer or from stop_if_idle, takes the process away from
\* a context being opened, open or being closed; only the end of the service
\* does.
NoTabLost == halted \/ \A t \in Caller : ctx[t] # "lost"

\* A task that can still stop Chromium is the one _idle_task names, so the
\* cancel in create_context reaches it; and _idle_task never names a dead one.
TimersOwned == \A t \in Task : task[t] # "dead" <=> idleTask = t

\* Between critical sections, an idle Chromium that is to be shut down has a
\* timer pending: no path forgets to arm it.
IdleArmed ==
  IdleShutdown /\ running /\ active = 0 /\ lock = NoCaller
    => idleTask # NoTask

\* Chromium without contexts is shut down or gets a context.
IdleShutsDown == IdleShutdown => (running /\ active = 0) ~> (~running \/ active > 0)

\* Every call of the pool returns or raises.
CallsEnd == \A c \in Caller : (call[c] \in Pending) ~> (call[c] \in Result)

\* The pool implements the lease: Held are the users.
Lease == INSTANCE BrowserLease
           WITH User <- Caller, up <- running, users <- Held, over <- halted

ImplementsLease == Lease!LeaseSpec

\* With the idle shutdown off, "Chromium stays up" (config table): only a
\* stop_if_idle that somebody asked for, or the end, takes it down.
StaysUp ==
  [][~IdleShutdown /\ running /\ ~running'
       => halted' \/ \E c \in Caller : StopIdle(c)]_poolVars

=============================================================================
