------------------------- MODULE BrowserPoolProofs -------------------------
(***************************************************************************)
(* Proofs about BrowserPool, for every set of callers and idle tasks:      *)
(* its types, that _active covers the contexts that rely on Chromium, that *)
(* no stop takes Chromium away from one, and that the pool implements the  *)
(* lease of BrowserLease.                                                  *)
(***************************************************************************)
EXTENDS BrowserPool, FiniteSetTheorems, TLAPS

----------------------------------------------------------------------------
(* The inductive invariant.                                                *)

\* The lock is held across an await exactly by a start under way, of which
\* there is one, and Chromium is down before it and up after it.
LockInv ==
  \A c \in Caller :
    /\ lock = c <=> call[c] \in {"starting", "settling"}
    /\ call[c] = "starting" => ~running
    /\ call[c] = "settling" => running

\* The context a creation is about, phase by phase.
PhaseInv ==
  \A c \in Caller :
    /\ call[c] \in {"createWait", "starting", "settling"} => ctx[c] = "none"
    /\ call[c] = "opening" <=> ctx[c] = "opening"

\* A context being closed is being closed by one caller.
CloseInv ==
  \A c \in Caller : call[c] \in ClosePhase =>
    /\ arg[c] \in Caller
    /\ ctx[arg[c]] = "closing"
    /\ \A d \in Caller : call[d] \in ClosePhase /\ arg[d] = arg[c] => d = c

HaltInv == halted => \A c \in Caller : call[c] \notin Pending

Counted == ActiveCoversHeld /\ LeaksOnlyByRaise

IInv ==
  /\ PoolTypeOK
  /\ LockInv /\ PhaseInv /\ CloseInv /\ HaltInv
  /\ NoTabLost
  /\ Counted

----------------------------------------------------------------------------
(* Counting sets of callers.                                               *)

LEMMA CallerSetCard ==
  ASSUME NEW S \in SUBSET Caller
  PROVE  /\ IsFiniteSet(S)
         /\ Cardinality(S) \in Nat
         /\ Cardinality(S) = 0 <=> S = {}
BY PoolAssumption, FS_Subset, FS_CardinalityType, FS_EmptySet

LEMMA AddCaller ==
  ASSUME NEW S \in SUBSET Caller, NEW c \in Caller, c \notin S
  PROVE  Cardinality(S \cup {c}) = Cardinality(S) + 1
BY CallerSetCard, FS_AddElement

LEMMA RemoveCaller ==
  ASSUME NEW S \in SUBSET Caller, NEW c \in S
  PROVE  Cardinality(S \ {c}) = Cardinality(S) - 1
BY CallerSetCard, FS_RemoveElement

\* The contexts held, and how many they are, before and after a step.
LEMMA HeldCard ==
  /\ Held \in SUBSET Caller
  /\ Held' \in SUBSET Caller
  /\ Cardinality(Held) \in Nat
  /\ Cardinality(Held') \in Nat
<1>1. Held \in SUBSET Caller /\ Held' \in SUBSET Caller
  BY DEF Held
<1> QED
  BY <1>1, CallerSetCard

----------------------------------------------------------------------------
(* Types.                                                                  *)

LEMMA TypeInit == PoolInit => PoolTypeOK
<1> SUFFICES ASSUME PoolInit PROVE PoolTypeOK
  OBVIOUS
<1>1. running \in BOOLEAN
  BY Zenon DEF PoolInit
<1>2. halted \in BOOLEAN
  BY DEF PoolInit
<1>3. /\ active \in Nat
      /\ lock \in Caller \cup {NoCaller}
      /\ idleTask \in Task \cup {NoTask}
      /\ task \in [Task -> {"dead", "sleeping", "ready"}]
      /\ call \in [Caller -> Pending \cup Result \cup {"out"}]
      /\ arg \in [Caller -> Caller \cup {NoCaller}]
      /\ ctx \in [Caller -> HeldState \cup {"none", "lost"}]
  BY DEF PoolInit
<1> QED
  BY <1>1, <1>2, <1>3 DEF PoolTypeOK

LEMMA CancelIdleType ==
  ASSUME PoolTypeOK, CancelIdle
  PROVE  /\ idleTask' \in Task \cup {NoTask}
         /\ task' \in [Task -> {"dead", "sleeping", "ready"}]
BY DEF PoolTypeOK, CancelIdle

LEMMA ArmIfIdleType ==
  ASSUME PoolTypeOK, ArmIfIdle
  PROVE  /\ idleTask' \in Task \cup {NoTask}
         /\ task' \in [Task -> {"dead", "sleeping", "ready"}]
BY DEF PoolTypeOK, ArmIfIdle, RearmIdle

LEMMA StopBrowserType ==
  ASSUME PoolTypeOK, StopBrowser
  PROVE  /\ running' \in BOOLEAN
         /\ ctx' \in [Caller -> HeldState \cup {"none", "lost"}]
BY DEF PoolTypeOK, StopBrowser

LEMMA AdmitType ==
  ASSUME PoolTypeOK, NEW c \in Caller, Admit(c)
  PROVE  /\ active' \in Nat
         /\ lock' \in Caller \cup {NoCaller}
         /\ call' \in [Caller -> Pending \cup Result \cup {"out"}]
         /\ ctx' \in [Caller -> HeldState \cup {"none", "lost"}]
BY DEF PoolTypeOK, Admit, Pending, CreatePhase, HeldState

LEMMA TypeStep == PoolTypeOK /\ [PoolNext]_poolVars => PoolTypeOK'
<1> SUFFICES ASSUME PoolTypeOK, [PoolNext]_poolVars PROVE PoolTypeOK'
  OBVIOUS
<1> USE DEF Pending, CreatePhase, ClosePhase, Result
<1>1. ASSUME NEW c \in Caller, CallCreate(c) PROVE PoolTypeOK'
  BY <1>1 DEF CallCreate, PoolTypeOK
<1>2. ASSUME NEW c \in Caller, CloseOnce(c) PROVE PoolTypeOK'
  BY <1>2 DEF CloseOnce, CallClose, PoolTypeOK, HeldState
<1>3. ASSUME NEW c \in Caller, CallStopIfIdle(c) PROVE PoolTypeOK'
  BY <1>3 DEF CallStopIfIdle, PoolTypeOK
<1>4. ASSUME NEW c \in Caller, CreateWarm(c) PROVE PoolTypeOK'
  BY <1>4, CancelIdleType, AdmitType DEF CreateWarm, PoolTypeOK
<1>5. ASSUME NEW c \in Caller, CreateCold(c) PROVE PoolTypeOK'
  BY <1>5, CancelIdleType DEF CreateCold, PoolTypeOK
<1>6. ASSUME NEW c \in Caller, StartOk(c) PROVE PoolTypeOK'
  <2>1. CASE Extensions
    BY <1>6, <2>1 DEF StartOk, PoolTypeOK
  <2>2. CASE ~Extensions
    BY <1>6, <2>2, AdmitType DEF StartOk, PoolTypeOK
  <2> QED BY <2>1, <2>2
<1>7. ASSUME NEW c \in Caller, StartRaises(c) PROVE PoolTypeOK'
  BY <1>7 DEF StartRaises, PoolTypeOK
<1>8. ASSUME NEW c \in Caller, Settled(c) PROVE PoolTypeOK'
  BY <1>8, AdmitType DEF Settled, PoolTypeOK
<1>9. ASSUME NEW c \in Caller, OpenOk(c) PROVE PoolTypeOK'
  BY <1>9 DEF OpenOk, PoolTypeOK, HeldState
<1>10. ASSUME NEW c \in Caller, OpenRaises(c) PROVE PoolTypeOK'
  BY <1>10 DEF OpenRaises, PoolTypeOK
<1>11. ASSUME NEW c \in Caller, TabClosed(c) PROVE PoolTypeOK'
  BY <1>11 DEF TabClosed, PoolTypeOK
<1>12. ASSUME NEW c \in Caller, Release(c) PROVE PoolTypeOK'
  <2>1. active' \in Nat
    BY <1>12 DEF Release, Dec, PoolTypeOK
  <2>2. /\ idleTask' \in Task \cup {NoTask}
        /\ task' \in [Task -> {"dead", "sleeping", "ready"}]
    BY <1>12, ArmIfIdleType DEF Release
  <2>3. /\ call' \in [Caller -> Pending \cup Result \cup {"out"}]
        /\ ctx' \in [Caller -> HeldState \cup {"none", "lost"}]
    BY <1>12 DEF Release, PoolTypeOK
  <2> QED
    BY <1>12, <2>1, <2>2, <2>3 DEF Release, PoolTypeOK
<1>13. ASSUME NEW c \in Caller, StopRefused(c) PROVE PoolTypeOK'
  BY <1>13 DEF StopRefused, PoolTypeOK
<1>14. ASSUME NEW c \in Caller, StopIdle(c) PROVE PoolTypeOK'
  BY <1>14, CancelIdleType, StopBrowserType DEF StopIdle, PoolTypeOK
<1>15. ASSUME NEW c \in Caller, Return(c) PROVE PoolTypeOK'
  BY <1>15 DEF Return, PoolTypeOK
<1>16. ASSUME NEW t \in Task, TimerFires(t) PROVE PoolTypeOK'
  BY <1>16 DEF TimerFires, PoolTypeOK
<1>17. ASSUME NEW t \in Task, IdleStop(t) PROVE PoolTypeOK'
  <2>1. CASE active = 0
    BY <1>17, <2>1, StopBrowserType DEF IdleStop, PoolTypeOK
  <2>2. CASE active # 0
    BY <1>17, <2>2 DEF IdleStop, PoolTypeOK
  <2> QED BY <2>1, <2>2
<1>18. CASE Halt
  BY <1>18, CancelIdleType, StopBrowserType DEF Halt, PoolTypeOK
<1>19. CASE UNCHANGED poolVars
  BY <1>19 DEF poolVars, PoolTypeOK
<1> QED
  BY <1>1, <1>2, <1>3, <1>4, <1>5, <1>6, <1>7, <1>8, <1>9, <1>10, <1>11,
     <1>12, <1>13, <1>14, <1>15, <1>16, <1>17, <1>18, <1>19
  DEF PoolNext, CallStep, TimerStep, Ended

\* Every variable of the pool stays in its range, in every execution.
THEOREM TypeCorrect == PoolSafe => []PoolTypeOK
BY TypeInit, TypeStep, PTL DEF PoolSafe
----------------------------------------------------------------------------
(* The control invariants.                                                 *)

\* A stop that finds _active at zero finds no context.
LEMMA StopFindsNone ==
  ASSUME PoolTypeOK, Counted, active = 0, StopBrowser
  PROVE  ctx' = ctx /\ Held = {}
<1>1. Held = {}
  BY HeldCard, CallerSetCard DEF PoolTypeOK, Counted, ActiveCoversHeld
<1>2. ctx' = ctx
  BY <1>1 DEF StopBrowser, PoolTypeOK
<1> QED
  BY <1>1, <1>2

ControlInv == LockInv /\ PhaseInv /\ CloseInv /\ HaltInv

LEMMA ControlStep == IInv /\ [PoolNext]_poolVars => ControlInv'
<1> SUFFICES ASSUME IInv, [PoolNext]_poolVars PROVE ControlInv'
  OBVIOUS
<1> USE DEF Pending, CreatePhase, ClosePhase, Result, IInv, PoolTypeOK
<1>1. ASSUME NEW c \in Caller, CallCreate(c) PROVE ControlInv'
  BY <1>1 DEF CallCreate, ControlInv, LockInv, PhaseInv, CloseInv, HaltInv
<1>2. ASSUME NEW c \in Caller, CloseOnce(c) PROVE ControlInv'
  <2>1. LockInv'
    BY <1>2 DEF CloseOnce, CallClose, LockInv
  <2>2. PhaseInv'
    BY <1>2 DEF CloseOnce, CallClose, PhaseInv
  <2>3. CloseInv'
    BY <1>2 DEF CloseOnce, CallClose, CloseInv
  <2>4. HaltInv'
    BY <1>2 DEF CloseOnce, CallClose, HaltInv
  <2> QED
    BY <2>1, <2>2, <2>3, <2>4 DEF ControlInv
<1>3. ASSUME NEW c \in Caller, CallStopIfIdle(c) PROVE ControlInv'
  BY <1>3 DEF CallStopIfIdle, ControlInv, LockInv, PhaseInv, CloseInv, HaltInv
<1>4. ASSUME NEW c \in Caller, CreateWarm(c) PROVE ControlInv'
  <2>1. LockInv'
    BY <1>4 DEF CreateWarm, Admit, LockInv
  <2>2. PhaseInv'
    BY <1>4 DEF CreateWarm, Admit, PhaseInv
  <2>3. CloseInv'
    BY <1>4 DEF CreateWarm, Admit, CloseInv, PhaseInv
  <2>4. HaltInv'
    BY <1>4 DEF CreateWarm, Admit, HaltInv
  <2> QED
    BY <2>1, <2>2, <2>3, <2>4 DEF ControlInv
<1>5. ASSUME NEW c \in Caller, CreateCold(c) PROVE ControlInv'
  <2>1. LockInv'
    BY <1>5, PoolAssumption DEF CreateCold, LockInv
  <2>2. PhaseInv'
    BY <1>5 DEF CreateCold, PhaseInv
  <2>3. CloseInv'
    BY <1>5 DEF CreateCold, CloseInv
  <2>4. HaltInv'
    BY <1>5 DEF CreateCold, HaltInv
  <2> QED
    BY <2>1, <2>2, <2>3, <2>4 DEF ControlInv
<1>6. ASSUME NEW c \in Caller, StartOk(c) PROVE ControlInv'
  <2>1. LockInv'
    BY <1>6, PoolAssumption DEF StartOk, Admit, LockInv
  <2>2. PhaseInv'
    BY <1>6 DEF StartOk, Admit, PhaseInv
  <2>3. CloseInv'
    BY <1>6 DEF StartOk, Admit, CloseInv, PhaseInv
  <2>4. HaltInv'
    BY <1>6 DEF StartOk, Admit, HaltInv
  <2> QED
    BY <2>1, <2>2, <2>3, <2>4 DEF ControlInv
<1>7. ASSUME NEW c \in Caller, StartRaises(c) PROVE ControlInv'
  <2>1. LockInv'
    BY <1>7, PoolAssumption DEF StartRaises, LockInv
  <2>2. PhaseInv'
    BY <1>7 DEF StartRaises, PhaseInv
  <2>3. CloseInv'
    BY <1>7 DEF StartRaises, CloseInv
  <2>4. HaltInv'
    BY <1>7 DEF StartRaises, HaltInv
  <2> QED
    BY <2>1, <2>2, <2>3, <2>4 DEF ControlInv
<1>8. ASSUME NEW c \in Caller, Settled(c) PROVE ControlInv'
  <2>1. LockInv'
    BY <1>8, PoolAssumption DEF Settled, Admit, LockInv
  <2>2. PhaseInv'
    BY <1>8 DEF Settled, Admit, PhaseInv
  <2>3. CloseInv'
    BY <1>8 DEF Settled, Admit, CloseInv, PhaseInv
  <2>4. HaltInv'
    BY <1>8 DEF Settled, Admit, HaltInv
  <2> QED
    BY <2>1, <2>2, <2>3, <2>4 DEF ControlInv
<1>9. ASSUME NEW c \in Caller, OpenOk(c) PROVE ControlInv'
  <2>1. LockInv'
    BY <1>9 DEF OpenOk, LockInv
  <2>2. PhaseInv'
    BY <1>9 DEF OpenOk, PhaseInv
  <2>3. CloseInv'
    BY <1>9 DEF OpenOk, CloseInv
  <2>4. HaltInv'
    BY <1>9 DEF OpenOk, HaltInv
  <2> QED
    BY <2>1, <2>2, <2>3, <2>4 DEF ControlInv
<1>10. ASSUME NEW c \in Caller, OpenRaises(c) PROVE ControlInv'
  <2>1. LockInv'
    BY <1>10 DEF OpenRaises, LockInv
  <2>2. PhaseInv'
    BY <1>10 DEF OpenRaises, PhaseInv
  <2>3. CloseInv'
    BY <1>10 DEF OpenRaises, CloseInv, PhaseInv
  <2>4. HaltInv'
    BY <1>10 DEF OpenRaises, HaltInv
  <2> QED
    BY <2>1, <2>2, <2>3, <2>4 DEF ControlInv
<1>11. ASSUME NEW c \in Caller, TabClosed(c) PROVE ControlInv'
  BY <1>11 DEF TabClosed, ControlInv, LockInv, PhaseInv, CloseInv, HaltInv
<1>12. ASSUME NEW c \in Caller, Release(c) PROVE ControlInv'
  <2>1. LockInv'
    BY <1>12 DEF Release, LockInv
  <2>2. PhaseInv'
    BY <1>12 DEF Release, PhaseInv, CloseInv
  <2>3. CloseInv'
    BY <1>12 DEF Release, CloseInv
  <2>4. HaltInv'
    BY <1>12 DEF Release, HaltInv
  <2> QED
    BY <2>1, <2>2, <2>3, <2>4 DEF ControlInv
<1>13. ASSUME NEW c \in Caller, StopRefused(c) PROVE ControlInv'
  BY <1>13 DEF StopRefused, ControlInv, LockInv, PhaseInv, CloseInv, HaltInv
<1>14. ASSUME NEW c \in Caller, StopIdle(c) PROVE ControlInv'
  <2>1. ctx' = ctx
    BY <1>14, StopFindsNone DEF StopIdle
  <2> QED
    BY <1>14, <2>1, PoolAssumption
    DEF StopIdle, StopBrowser, ControlInv, LockInv, PhaseInv, CloseInv, HaltInv
<1>15. ASSUME NEW c \in Caller, Return(c) PROVE ControlInv'
  BY <1>15 DEF Return, ControlInv, LockInv, PhaseInv, CloseInv, HaltInv
<1>16. ASSUME NEW t \in Task, TimerFires(t) PROVE ControlInv'
  BY <1>16 DEF TimerFires, ControlInv, LockInv, PhaseInv, CloseInv, HaltInv
<1>17. ASSUME NEW t \in Task, IdleStop(t) PROVE ControlInv'
  <2>1. ctx' = ctx
    BY <1>17, StopFindsNone DEF IdleStop
  <2> QED
    BY <1>17, <2>1, PoolAssumption
    DEF IdleStop, StopBrowser, ControlInv, LockInv, PhaseInv, CloseInv, HaltInv
<1>18. CASE Halt
  <2>1. \A c \in Caller : call[c] \notin Pending
    BY <1>18 DEF Halt
  <2>2. LockInv' /\ CloseInv' /\ HaltInv'
    BY <1>18, <2>1 DEF Halt, LockInv, CloseInv, HaltInv
  <2>3. PhaseInv'
    BY <1>18, <2>1 DEF Halt, StopBrowser, PhaseInv
  <2> QED
    BY <2>2, <2>3 DEF ControlInv
<1>19. CASE UNCHANGED poolVars
  BY <1>19 DEF poolVars, ControlInv, LockInv, PhaseInv, CloseInv, HaltInv
<1> HIDE DEF Pending, CreatePhase, ClosePhase, Result, IInv, PoolTypeOK
<1> QED
  BY <1>1, <1>2, <1>3, <1>4, <1>5, <1>6, <1>7, <1>8, <1>9, <1>10, <1>11,
     <1>12, <1>13, <1>14, <1>15, <1>16, <1>17, <1>18, <1>19
  DEF PoolNext, CallStep, TimerStep, Ended
----------------------------------------------------------------------------
(* The count.                                                              *)

\* What a step does to the count follows from what it does to Held.
LEMMA SameCount ==
  ASSUME Counted, Held' = Held, active' = active, halted' = halted
  PROVE  Counted'
BY DEF Counted, ActiveCoversHeld, LeaksOnlyByRaise

LEMMA AdmitCounts ==
  ASSUME PoolTypeOK, Counted, NEW c \in Caller, ctx[c] = "none", Admit(c),
         halted' = halted
  PROVE  Counted'
<1>1. Held' = Held \cup {c} /\ c \notin Held
  BY DEF Held, HeldState, Admit, PoolTypeOK
<1>2. Cardinality(Held') = Cardinality(Held) + 1
  BY <1>1, AddCaller, HeldCard
<1> QED
  BY <1>2, HeldCard, PoolAssumption
  DEF Counted, ActiveCoversHeld, LeaksOnlyByRaise, Admit, PoolTypeOK

CountInv == NoTabLost /\ Counted

LEMMA CountStep == IInv /\ [PoolNext]_poolVars => CountInv'
<1> SUFFICES ASSUME IInv, [PoolNext]_poolVars PROVE CountInv'
  OBVIOUS
<1>a. PoolTypeOK /\ Counted /\ NoTabLost /\ PhaseInv
  BY DEF IInv
<1>1. ASSUME ctx' = ctx, active' = active, halted' = halted PROVE CountInv'
  BY <1>1, <1>a, SameCount DEF Held, CountInv, NoTabLost
<1>2. ASSUME NEW c \in Caller,
             \/ CallCreate(c) \/ CallStopIfIdle(c) \/ CreateCold(c)
             \/ StartRaises(c) \/ TabClosed(c) \/ StopRefused(c) \/ Return(c)
      PROVE  CountInv'
  BY <1>1, <1>2
  DEF CallCreate, CallStopIfIdle, CreateCold, StartRaises, TabClosed,
      StopRefused, Return
<1>3. ASSUME NEW c \in Caller, CloseOnce(c) PROVE CountInv'
  <2>1. Held' = Held
    BY <1>3, <1>a DEF CloseOnce, CallClose, Held, HeldState, PoolTypeOK
  <2> QED
    BY <1>3, <2>1, <1>a, SameCount
    DEF CloseOnce, CallClose, CountInv, NoTabLost, PoolTypeOK
<1>4. ASSUME NEW c \in Caller, ctx[c] = "none", Admit(c), halted' = halted
      PROVE  CountInv'
  BY <1>4, <1>a, AdmitCounts DEF Admit, CountInv, NoTabLost, PoolTypeOK
<1>5. ASSUME NEW c \in Caller, CreateWarm(c) PROVE CountInv'
  BY <1>5, <1>4, <1>a DEF CreateWarm, PhaseInv
<1>6. ASSUME NEW c \in Caller, StartOk(c) PROVE CountInv'
  BY <1>6, <1>1, <1>4, <1>a DEF StartOk, PhaseInv
<1>7. ASSUME NEW c \in Caller, Settled(c) PROVE CountInv'
  BY <1>7, <1>4, <1>a DEF Settled, PhaseInv
<1>8. ASSUME NEW c \in Caller, OpenOk(c) PROVE CountInv'
  <2>1. Held' = Held
    BY <1>8, <1>a DEF OpenOk, Held, HeldState, PoolTypeOK
  <2> QED
    BY <1>8, <2>1, <1>a, SameCount DEF OpenOk, CountInv, NoTabLost, PoolTypeOK
<1>9. ASSUME NEW c \in Caller, OpenRaises(c) PROVE CountInv'
  <2>1. Held' = Held \ {c} /\ c \in Held
    BY <1>9, <1>a DEF OpenRaises, PhaseInv, Held, HeldState, PoolTypeOK
  <2>2. Cardinality(Held') = Cardinality(Held) - 1
    BY <2>1, RemoveCaller, HeldCard
  <2>3. active - Cardinality(Held) < MaxLeaked
    BY <1>9, <1>a DEF OpenRaises, PhaseInv
  <2>4. Counted'
    BY <1>9, <2>2, <2>3, <1>a, HeldCard, PoolAssumption
    DEF OpenRaises, Counted, ActiveCoversHeld, LeaksOnlyByRaise, PoolTypeOK
  <2> QED
    BY <1>9, <2>4, <1>a DEF OpenRaises, CountInv, NoTabLost, PoolTypeOK
<1>10. ASSUME NEW c \in Caller, Release(c) PROVE CountInv'
  <2>1. arg[c] \in Caller /\ ctx[arg[c]] = "closing"
    BY <1>10 DEF Release, IInv, CloseInv, ClosePhase
  <2>2. Held' = Held \ {arg[c]} /\ arg[c] \in Held
    BY <1>10, <2>1, <1>a DEF Release, Held, HeldState, PoolTypeOK
  <2>3. Cardinality(Held') = Cardinality(Held) - 1
    BY <2>2, RemoveCaller, HeldCard
  <2>4. Counted'
    BY <1>10, <2>3, <1>a, HeldCard, PoolAssumption
    DEF Release, Dec, Counted, ActiveCoversHeld, LeaksOnlyByRaise, PoolTypeOK
  <2> QED
    BY <1>10, <2>4, <1>a DEF Release, CountInv, NoTabLost, PoolTypeOK
<1>11. ASSUME NEW c \in Caller, StopIdle(c) PROVE CountInv'
  BY <1>11, <1>1, <1>a, StopFindsNone DEF StopIdle
<1>12. ASSUME NEW t \in Task, TimerFires(t) PROVE CountInv'
  BY <1>12, <1>1 DEF TimerFires
<1>13. ASSUME NEW t \in Task, IdleStop(t) PROVE CountInv'
  BY <1>13, <1>1, <1>a, StopFindsNone DEF IdleStop
<1>14. CASE Halt
  <2>1. Held' = {}
    BY <1>14, <1>a DEF Halt, StopBrowser, Held, HeldState, PoolTypeOK
  <2>2. Cardinality(Held') = 0
    BY <2>1, CallerSetCard, HeldCard
  <2> QED
    BY <1>14, <2>2, <1>a
    DEF Halt, CountInv, NoTabLost, Counted, ActiveCoversHeld,
        LeaksOnlyByRaise, PoolTypeOK
<1>15. CASE UNCHANGED poolVars
  BY <1>15, <1>1 DEF poolVars
<1> QED
  BY <1>2, <1>3, <1>5, <1>6, <1>7, <1>8, <1>9, <1>10, <1>11, <1>12, <1>13,
     <1>14, <1>15
  DEF PoolNext, CallStep, TimerStep, Ended

----------------------------------------------------------------------------
(* The theorems.                                                           *)

LEMMA InductiveInit == PoolInit => IInv
<1> SUFFICES ASSUME PoolInit PROVE IInv
  OBVIOUS
<1>1. Held = {}
  BY DEF PoolInit, Held, HeldState
<1>2. Cardinality(Held) = 0
  BY <1>1, CallerSetCard, HeldCard
<1>3. Counted
  BY <1>2, PoolAssumption
  DEF PoolInit, Counted, ActiveCoversHeld, LeaksOnlyByRaise
<1>4. LockInv /\ PhaseInv /\ CloseInv /\ HaltInv /\ NoTabLost
  BY PoolAssumption
  DEF PoolInit, LockInv, PhaseInv, CloseInv, ClosePhase, HaltInv, NoTabLost
<1> QED
  BY <1>3, <1>4, TypeInit DEF IInv

LEMMA InductiveStep == IInv /\ [PoolNext]_poolVars => IInv'
BY TypeStep, ControlStep, CountStep DEF IInv, ControlInv, CountInv

LEMMA Inductive == PoolSafe => []IInv
BY InductiveInit, InductiveStep, PTL DEF PoolSafe

\* In every execution, _active is at least the number of contexts that rely
\* on Chromium.
THEOREM CountCovers == PoolSafe => []ActiveCoversHeld
BY Inductive, PTL DEF IInv, Counted

\* ... and exceeds it by no more than the openings that raised.
THEOREM CountLeaks == PoolSafe => []LeaksOnlyByRaise
BY Inductive, PTL DEF IInv, Counted

\* In every execution, only the end of the service takes Chromium away from
\* a context.
THEOREM NoneLost == PoolSafe => []NoTabLost
BY Inductive, PTL DEF IInv

----------------------------------------------------------------------------
(* The idle timer.                                                         *)

TimerInv == TimersOwned /\ IdleArmed

LEMMA CancelOwned ==
  ASSUME TimersOwned, CancelIdle PROVE TimersOwned'
BY PoolAssumption DEF TimersOwned, CancelIdle

\* A release that leaves nobody behind arms the timer, and only one.
LEMMA ArmOwned ==
  ASSUME TimersOwned, IdleArmed, ArmIfIdle, active \in Nat, active > 0,
         running' = running, lock' = lock
  PROVE  TimersOwned' /\ IdleArmed'
<1>1. CASE RearmIdle
  BY <1>1, PoolAssumption DEF RearmIdle, TimersOwned, IdleArmed
<1>2. CASE ~(active' = 0 /\ IdleShutdown)
  BY <1>2 DEF ArmIfIdle, TimersOwned, IdleArmed
<1> QED
  BY <1>1, <1>2 DEF ArmIfIdle

LEMMA TimerStepInv == IInv /\ TimerInv /\ [PoolNext]_poolVars => TimerInv'
<1> SUFFICES ASSUME IInv, TimerInv, [PoolNext]_poolVars PROVE TimerInv'
  OBVIOUS
<1> USE DEF TimerInv
<1>a. PoolTypeOK /\ LockInv
  BY DEF IInv
<1>1. ASSUME UNCHANGED <<running, active, lock, idleTask, task>>
      PROVE  TimerInv'
  BY <1>1 DEF TimersOwned, IdleArmed
<1>2. ASSUME NEW c \in Caller,
             \/ CallCreate(c) \/ CloseOnce(c) \/ CallStopIfIdle(c) \/ OpenOk(c)
             \/ OpenRaises(c) \/ TabClosed(c) \/ StopRefused(c) \/ Return(c)
      PROVE  TimerInv'
  BY <1>1, <1>2
  DEF CallCreate, CloseOnce, CallClose, CallStopIfIdle, OpenOk, OpenRaises,
      TabClosed, StopRefused, Return
<1>3. ASSUME NEW c \in Caller, CreateWarm(c) PROVE TimerInv'
  <2>1. TimersOwned'
    BY <1>3, CancelOwned DEF CreateWarm
  <2>2. IdleArmed'
    BY <1>3, <1>a DEF CreateWarm, Admit, IdleArmed, PoolTypeOK
  <2> QED
    BY <2>1, <2>2
<1>4. ASSUME NEW c \in Caller, CreateCold(c) PROVE TimerInv'
  <2>1. TimersOwned'
    BY <1>4, CancelOwned DEF CreateCold
  <2>2. IdleArmed'
    BY <1>4 DEF CreateCold, IdleArmed
  <2> QED
    BY <2>1, <2>2
<1>5. ASSUME NEW c \in Caller, StartOk(c) PROVE TimerInv'
  <2>1. TimersOwned'
    BY <1>5 DEF StartOk, TimersOwned
  <2>2. lock = c /\ lock # NoCaller
    BY <1>5, <1>a, PoolAssumption DEF StartOk, LockInv
  <2>3. IdleArmed'
    BY <1>5, <1>a, <2>2 DEF StartOk, Admit, IdleArmed, PoolTypeOK
  <2> QED
    BY <2>1, <2>3
<1>6. ASSUME NEW c \in Caller, StartRaises(c) PROVE TimerInv'
  <2>1. TimersOwned'
    BY <1>6 DEF StartRaises, TimersOwned
  <2>2. IdleArmed'
    BY <1>6, <1>a DEF StartRaises, IdleArmed, LockInv
  <2> QED
    BY <2>1, <2>2
<1>7. ASSUME NEW c \in Caller, Settled(c) PROVE TimerInv'
  BY <1>7, <1>a DEF Settled, Admit, TimersOwned, IdleArmed, PoolTypeOK
<1>8. ASSUME NEW c \in Caller, Release(c) PROVE TimerInv'
  <2>1. Held # {}
    BY <1>8 DEF Release, IInv, CloseInv, ClosePhase, Held, HeldState
  <2>2. active \in Nat /\ active > 0
    BY <2>1, <1>a, HeldCard, CallerSetCard
    DEF IInv, Counted, ActiveCoversHeld, PoolTypeOK
  <2> QED
    BY <1>8, <2>2, ArmOwned DEF Release
<1>9. ASSUME NEW c \in Caller, StopIdle(c) PROVE TimerInv'
  <2>1. TimersOwned'
    BY <1>9, CancelOwned DEF StopIdle
  <2>2. IdleArmed'
    BY <1>9 DEF StopIdle, StopBrowser, IdleArmed
  <2> QED
    BY <2>1, <2>2
<1>10. ASSUME NEW t \in Task, TimerFires(t) PROVE TimerInv'
  BY <1>10, <1>a DEF TimerFires, TimersOwned, IdleArmed, PoolTypeOK
<1>11. ASSUME NEW t \in Task, IdleStop(t) PROVE TimerInv'
  <2>1. TimersOwned'
    BY <1>11, <1>a, PoolAssumption DEF IdleStop, TimersOwned, PoolTypeOK
  <2>2. IdleArmed'
    BY <1>11 DEF IdleStop, StopBrowser, IdleArmed
  <2> QED
    BY <2>1, <2>2
<1>12. CASE Halt
  <2>1. TimersOwned'
    BY <1>12, CancelOwned DEF Halt
  <2>2. IdleArmed'
    BY <1>12 DEF Halt, StopBrowser, IdleArmed
  <2> QED
    BY <2>1, <2>2
<1>13. CASE UNCHANGED poolVars
  BY <1>13, <1>1 DEF poolVars
<1> QED
  BY <1>2, <1>3, <1>4, <1>5, <1>6, <1>7, <1>8, <1>9, <1>10, <1>11, <1>12,
     <1>13
  DEF PoolNext, CallStep, TimerStep, Ended

LEMMA TimerInit == PoolInit => TimerInv
<1> SUFFICES ASSUME PoolInit PROVE TimerInv
  OBVIOUS
<1>1. TimersOwned
  BY PoolAssumption DEF PoolInit, TimersOwned
<1>2. IdleShutdown => ~running
  BY Zenon DEF PoolInit
<1>3. IdleArmed
  BY <1>2 DEF IdleArmed
<1> QED
  BY <1>1, <1>3 DEF TimerInv

LEMMA TimerInductive == PoolSafe => []TimerInv
BY Inductive, TimerInit, TimerStepInv, PTL DEF PoolSafe

\* In every execution, the one idle task that can still stop Chromium is the
\* one _idle_task names.
THEOREM OneTimer == PoolSafe => []TimersOwned
BY TimerInductive, PTL DEF TimerInv

\* In every execution, an idle Chromium has its timer pending.
THEOREM TimerPending == PoolSafe => []IdleArmed
BY TimerInductive, PTL DEF TimerInv

----------------------------------------------------------------------------
(* The refinement: the contexts of Held are the users of the lease, and    *)
(* every step of the pool, with its lock, counter and timer, is a step of  *)
(* the lease or leaves it alone.                                           *)

LEMMA LeaseInitially == PoolInit => Lease!LeaseInit
<1> SUFFICES ASSUME PoolInit PROVE Lease!LeaseInit
  OBVIOUS
<1>1. running \in BOOLEAN
  BY Zenon DEF PoolInit
<1>2. Held = {} /\ halted = FALSE
  BY DEF PoolInit, Held, HeldState
<1> QED
  BY <1>1, <1>2 DEF Lease!LeaseInit

\* Admission takes the lease, whether Chromium was up or comes up with it.
LEMMA AdmitAcquires ==
  ASSUME IInv, NEW c \in Caller, ctx[c] = "none", call[c] \in Pending, Admit(c),
         running', UNCHANGED halted
  PROVE  Lease!Acquire(c)
<1>1. ~halted
  BY DEF IInv, HaltInv
<1>2. c \notin Held /\ Held' = Held \cup {c}
  BY DEF IInv, PoolTypeOK, Held, HeldState, Admit
<1>3. running' = TRUE
  BY TypeStep DEF IInv, PoolTypeOK
<1> QED
  BY <1>1, <1>2, <1>3 DEF Lease!Acquire

LEMMA LeaseStep ==
  IInv /\ [PoolNext]_poolVars => [Lease!LeaseNext]_(Lease!leaseVars)
<1> SUFFICES ASSUME IInv, [PoolNext]_poolVars
             PROVE  [Lease!LeaseNext]_(Lease!leaseVars)
  OBVIOUS
<1>a. PoolTypeOK /\ PhaseInv /\ LockInv
  BY DEF IInv
<1>1. ASSUME UNCHANGED <<running, ctx, halted>>
      PROVE  UNCHANGED Lease!leaseVars
  BY <1>1 DEF Held, Lease!leaseVars
<1>2. ASSUME NEW c \in Caller,
             \/ CallCreate(c) \/ CallStopIfIdle(c) \/ CreateCold(c)
             \/ StartRaises(c) \/ TabClosed(c) \/ StopRefused(c) \/ Return(c)
      PROVE  UNCHANGED Lease!leaseVars
  BY <1>1, <1>2
  DEF CallCreate, CallStopIfIdle, CreateCold, StartRaises, TabClosed,
      StopRefused, Return
<1>3. ASSUME NEW c \in Caller, CloseOnce(c) PROVE UNCHANGED Lease!leaseVars
  BY <1>3, <1>a
  DEF CloseOnce, CallClose, Held, HeldState, PoolTypeOK, Lease!leaseVars
<1>4. ASSUME NEW c \in Caller, OpenOk(c) PROVE UNCHANGED Lease!leaseVars
  BY <1>4, <1>a DEF OpenOk, Held, HeldState, PoolTypeOK, Lease!leaseVars
<1>5. ASSUME NEW c \in Caller, CreateWarm(c) PROVE Lease!Acquire(c)
  BY <1>5, <1>a, AdmitAcquires
  DEF CreateWarm, PhaseInv, Pending, CreatePhase
<1>6. ASSUME NEW c \in Caller, Settled(c) PROVE Lease!Acquire(c)
  BY <1>6, <1>a, AdmitAcquires
  DEF Settled, PhaseInv, LockInv, Pending, CreatePhase
<1>7. ASSUME NEW c \in Caller, StartOk(c)
      PROVE  Lease!Acquire(c) \/ Lease!Boot
  <2>1. CASE ~Extensions
    BY <1>7, <2>1, <1>a, AdmitAcquires
    DEF StartOk, PhaseInv, Pending, CreatePhase
  <2>2. CASE Extensions
    <3>1. ~running /\ ~halted
      BY <1>7, <1>a
      DEF StartOk, LockInv, IInv, HaltInv, Pending, CreatePhase
    <3>2. Held' = Held
      BY <1>7, <2>2 DEF StartOk, Held
    <3> QED
      BY <1>7, <3>1, <3>2 DEF StartOk, Lease!Boot
  <2> QED
    BY <2>1, <2>2
<1>8. ASSUME NEW c \in Caller, OpenRaises(c) PROVE Lease!Leave(c)
  <2>1. c \in Held /\ Held' = Held \ {c}
    BY <1>8, <1>a DEF OpenRaises, PhaseInv, PoolTypeOK, Held, HeldState
  <2> QED
    BY <1>8, <2>1 DEF OpenRaises, Lease!Leave
<1>9. ASSUME NEW c \in Caller, Release(c)
      PROVE  arg[c] \in Caller /\ Lease!Leave(arg[c])
  <2>1. arg[c] \in Caller /\ ctx[arg[c]] = "closing"
    BY <1>9 DEF Release, IInv, CloseInv, ClosePhase
  <2>2. arg[c] \in Held /\ Held' = Held \ {arg[c]}
    BY <1>9, <2>1, <1>a DEF Release, Held, HeldState, PoolTypeOK
  <2> QED
    BY <1>9, <2>1, <2>2 DEF Release, Lease!Leave
<1>10. ASSUME active = 0, StopBrowser, UNCHANGED halted PROVE Lease!TakeDown
  <2>1. Held = {} /\ Held' = Held
    BY <1>10, StopFindsNone DEF IInv, Held
  <2> QED
    BY <1>10, <2>1 DEF StopBrowser, Lease!TakeDown
<1>11. ASSUME NEW c \in Caller, StopIdle(c) PROVE Lease!TakeDown
  BY <1>11, <1>10 DEF StopIdle
<1>12. ASSUME NEW t \in Task, TimerFires(t) PROVE UNCHANGED Lease!leaseVars
  BY <1>12, <1>1 DEF TimerFires
<1>13. ASSUME NEW t \in Task, IdleStop(t)
       PROVE  Lease!TakeDown \/ UNCHANGED Lease!leaseVars
  BY <1>13, <1>1, <1>10 DEF IdleStop
<1>14. CASE Halt
  <2>1. Held' = {}
    BY <1>14, <1>a DEF Halt, StopBrowser, Held, HeldState, PoolTypeOK
  <2> QED
    BY <1>14, <2>1 DEF Halt, StopBrowser, Lease!Finish, Lease!LeaseNext
<1>15. CASE UNCHANGED poolVars
  BY <1>15, <1>1 DEF poolVars
<1> QED
  BY <1>2, <1>3, <1>4, <1>5, <1>6, <1>7, <1>8, <1>9, <1>11, <1>12, <1>13,
     <1>14, <1>15
  DEF PoolNext, CallStep, TimerStep, Ended, Lease!LeaseNext

\* Every execution of the pool is an execution of the lease: Chromium is
\* taken down only while no context relies on it, or at the end.
THEOREM PoolImplementsLease == PoolSafe => ImplementsLease
BY Inductive, LeaseInitially, LeaseStep, PTL
DEF PoolSafe, ImplementsLease, Lease!LeaseSpec

----------------------------------------------------------------------------
(* With the idle shutdown off there is no timer.                           *)

\* What any handler may do to the pool, a second close of a context included.
PoolStep ==
  \/ \E c \in Caller :
       \/ CallCreate(c) \/ CallStopIfIdle(c) \/ CallStep(c) \/ Return(c)
       \/ \E t \in Caller : CallClose(c, t)
  \/ \E t \in Task : TimerStep(t)
  \/ Halt

NoTimer == ~IdleShutdown => \A t \in Task : task[t] = "dead"

\* No timer is started, and without one Chromium is stopped on demand only.
LEMMA StopOnDemand ==
  ASSUME NoTimer, PoolStep \/ UNCHANGED poolVars
  PROVE  /\ NoTimer'
         /\ ~IdleShutdown /\ running /\ ~running'
              => halted' \/ \E c \in Caller : StopIdle(c)
<1> SUFFICES ASSUME ~IdleShutdown, \A t \in Task : task[t] = "dead"
             PROVE  /\ \A t \in Task : task'[t] = "dead"
                    /\ running /\ ~running'
                         => halted' \/ \E c \in Caller : StopIdle(c)
  BY DEF NoTimer
<1>1. ASSUME task' = task \/ CancelIdle
      PROVE  \A t \in Task : task'[t] = "dead"
  BY <1>1 DEF CancelIdle
<1>2. ASSUME NEW c \in Caller,
             \/ CallCreate(c) \/ CallStopIfIdle(c) \/ Return(c)
             \/ \E t \in Caller : CallClose(c, t)
      PROVE  UNCHANGED <<running, task>>
  BY <1>2 DEF CallCreate, CallStopIfIdle, Return, CallClose
<1>3. ASSUME NEW c \in Caller, CallStep(c)
      PROVE  /\ task' = task \/ CancelIdle
             /\ running /\ ~running' => StopIdle(c)
  BY <1>3 DEF CallStep, CreateWarm, CreateCold, StartOk, StartRaises, Settled,
     OpenOk, OpenRaises, TabClosed, Release, ArmIfIdle, StopRefused, StopIdle
<1>4. ASSUME NEW t \in Task PROVE ~ TimerStep(t)
  BY DEF TimerStep, TimerFires, IdleStop
<1>5. CASE Halt
  BY <1>1, <1>5 DEF Halt
<1>6. CASE UNCHANGED poolVars
  BY <1>6 DEF poolVars
<1> QED
  BY <1>1, <1>2, <1>3, <1>4, <1>5, <1>6 DEF PoolStep

\* With the idle shutdown off, only a stop_if_idle or the end of the service
\* takes Chromium down.
THEOREM UpUntilAsked == PoolSafe => StaysUp
<1>1. PoolInit => NoTimer
  BY DEF PoolInit, NoTimer
<1>2. NoTimer /\ [PoolNext]_poolVars =>
        /\ NoTimer'
        /\ [~IdleShutdown /\ running /\ ~running'
              => halted' \/ \E c \in Caller : StopIdle(c)]_poolVars
  <2>1. [PoolNext]_poolVars => PoolStep \/ UNCHANGED poolVars
    BY DEF PoolNext, PoolStep, CloseOnce, Ended
  <2> QED
    BY <2>1, StopOnDemand
<1> QED
  BY <1>1, <1>2, PTL DEF PoolSafe, StaysUp
=============================================================================
