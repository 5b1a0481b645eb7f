------------------------- MODULE TabLifecycleProofs -------------------------
(***************************************************************************)
(* Proofs about TabLifecycle, for every set of clients, every cap and      *)
(* every choice of requests: its types, that every open tab and every      *)
(* residue of a tab has an owner, who may close a context twice, and that  *)
(* the count of the pool is right until somebody does.                     *)
(***************************************************************************)
EXTENDS TabLifecycle, BrowserPoolProofs

----------------------------------------------------------------------------
(* The inductive invariant.                                                *)

OwnTab == {"attaching", "navigating", "waiting", "undoing", "reading", "fetchLost"}
Closing == {"dropping", "fetchClosing", "deleting", "sweeping"}

\* Where a handler stands says where its pool call stands.
CallInv ==
  \A c \in Caller :
    /\ pc[c] = "idle" => call[c] = "out"
    /\ pc[c] = "creating" => call[c] \in CreatePhase \cup {"created", "createRaised"}
    /\ pc[c] \in OwnTab => call[c] = "created"
    /\ pc[c] \in Closing => call[c] \in ClosePhase \cup {"closed", "closeRaised"}
    /\ pc[c] = "resetting" => call[c] \in {"stopWait", "stopped", "wasDown", "refused"}

\* The context it closes: its own, or one of a client.
ArgInv ==
  \A c \in Caller :
    /\ pc[c] \in Closing => arg[c] \in Client
    /\ pc[c] \notin Closing => arg[c] = NoCaller
    /\ pc[c] \in {"dropping", "fetchClosing"} => arg[c] = c

SweeperInv ==
  /\ pc[Sweeper] \in {"idle", "sweeping"}
  /\ \A c \in Client : pc[c] # "sweeping"

\* Nothing refers to a tab that is being created.
FreshInv ==
  \A c \in Client : pc[c] = "creating" =>
    /\ c \notin registry \cup dirs \cup modes \cup sweepList
    /\ \A d \in Caller : arg[d] # c

\* What Chromium has of a tab, by its handler's pool call.
CtxInv ==
  \A t \in Client :
    /\ ctx[t] = "opening" => call[t] = "opening"
    /\ pc[t] = "creating" /\ ctx[t] = "open" => call[t] = "created"
    /\ pc[t] = "creating" /\ call[t] = "created" => ctx[t] \in {"open", "lost"}
    /\ ctx[t] = "closing" =>
         \E c \in Caller : call[c] \in ClosePhase /\ arg[c] = t

\* A registered tab has not been closed; what is being closed, or was given
\* up, is not registered.
RegistryInv ==
  /\ \A t \in registry : ctx[t] \in {"open", "lost"}
  /\ \A c \in Caller : pc[c] \in Closing => arg[c] \notin registry
  /\ \A c \in Client : pc[c] \in {"undoing", "fetchLost"} => c \notin registry

UndoneInv == \A c \in Client : pc[c] = "dropping" => c \notin dirs \cup modes

LTypes == PoolTypeOK /\ LifeTypeOK /\ halted = FALSE

\* The invariant of the pool holds until a context is closed twice.
PoolUnlessTwice == twice \/ IInv

LInv ==
  /\ LTypes
  /\ CallInv /\ ArgInv /\ SweeperInv
  /\ FreshInv /\ CtxInv /\ RegistryInv /\ UndoneInv
  /\ OpenTabReachable /\ ResidueOwned

----------------------------------------------------------------------------
(* What the pool's own steps change.                                       *)

LEMMA Clients ==
  /\ Client \subseteq Caller
  /\ Sweeper \in Caller \ Client
  /\ NoCaller \notin Caller
BY PoolAssumption, LifeAssumption DEF Client

\* A step inside a pool call moves the call of c, and of the contexts the
\* one c creates or closes; any may be lost.
CallFrame(c) ==
  /\ arg' = arg /\ halted' = halted
  /\ \A d \in Caller \ {c} : call'[d] = call[d]
  /\ \/ /\ call[c] \in CreatePhase
        /\ call'[c] \in CreatePhase \cup {"created", "createRaised"}
     \/ /\ call[c] \in ClosePhase
        /\ call'[c] \in ClosePhase \cup {"closed", "closeRaised"}
     \/ /\ call[c] = "stopWait"
        /\ call'[c] \in {"stopped", "wasDown", "refused"}

CtxFrame(c) ==
  /\ \A t \in Caller :
       \/ ctx'[t] = ctx[t]
       \/ ctx'[t] = "lost"
       \/ t = c /\ call[c] \in CreatePhase
            /\ call'[c] = "opening" /\ ctx'[t] = "opening"
       \/ t = c /\ call[c] = "opening"
            /\ call'[c] = "created" /\ ctx'[t] = "open"
       \/ t = c /\ call[c] = "opening"
            /\ call'[c] = "createRaised" /\ ctx'[t] = "none"
       \/ call[c] \in ClosePhase /\ t = arg[c] /\ ctx'[t] = "none"
  /\ call[c] = "opening" =>
       \/ call'[c] = "created" /\ ctx'[c] = "open"
       \/ call'[c] = "createRaised" /\ ctx'[c] = "none"
  /\ call[c] \in CreatePhase /\ call'[c] = "created" => call[c] = "opening"
  /\ /\ call[c] \in ClosePhase /\ call'[c] \notin ClosePhase
     /\ arg[c] \in Caller
     => ctx'[arg[c]] = "none"

LEMMA CallStepFrame ==
  ASSUME PoolTypeOK, NEW c \in Caller, CallStep(c)
  PROVE  CallFrame(c) /\ CtxFrame(c)
<1> USE DEF CallFrame, CtxFrame, CreatePhase, ClosePhase
<1> DEFINE Types == /\ call \in [Caller -> Pending \cup Result \cup {"out"}]
                    /\ ctx \in [Caller -> HeldState \cup {"none", "lost"}]
<1>1. Types
  BY DEF PoolTypeOK
<1>2. ASSUME Admit(c), UNCHANGED <<arg, halted>>,
             call[c] \in {"createWait", "starting", "settling"}
      PROVE  CallFrame(c) /\ CtxFrame(c)
  BY <1>1, <1>2 DEF Admit
<1>3. CASE CreateWarm(c)
  BY <1>2, <1>3 DEF CreateWarm
<1>4. CASE CreateCold(c)
  BY <1>1, <1>4 DEF CreateCold
<1>5. CASE StartOk(c)
  <2>1. CASE Extensions
    BY <1>1, <1>5, <2>1 DEF StartOk
  <2>2. CASE ~Extensions
    BY <1>2, <1>5, <2>2 DEF StartOk
  <2> QED BY <2>1, <2>2
<1>6. CASE StartRaises(c)
  BY <1>1, <1>6 DEF StartRaises
<1>7. CASE Settled(c)
  BY <1>2, <1>7 DEF Settled
<1>8. CASE OpenOk(c)
  BY <1>1, <1>8 DEF OpenOk
<1>9. CASE OpenRaises(c)
  BY <1>1, <1>9 DEF OpenRaises
<1>10. CASE TabClosed(c)
  BY <1>1, <1>10 DEF TabClosed
<1>11. CASE Release(c)
  BY <1>1, <1>11 DEF Release
<1>12. CASE StopRefused(c)
  BY <1>1, <1>12 DEF StopRefused
<1>13. CASE StopIdle(c)
  BY <1>1, <1>13 DEF StopIdle, StopBrowser
<1> QED
  BY <1>3, <1>4, <1>5, <1>6, <1>7, <1>8, <1>9, <1>10, <1>11, <1>12, <1>13
  DEF CallStep

LEMMA TimerStepFrame ==
  ASSUME PoolTypeOK, NEW i \in Task, TimerStep(i)
  PROVE  /\ arg' = arg /\ call' = call /\ halted' = halted
         /\ \A t \in Caller : ctx'[t] = ctx[t] \/ ctx'[t] = "lost"
BY DEF TimerStep, TimerFires, IdleStop, StopBrowser, PoolTypeOK

----------------------------------------------------------------------------
(* The pool's own steps.                                                   *)

LEMMA CallStepKeeps ==
  ASSUME LInv, NEW c \in Caller, CallStep(c), UNCHANGED tabVars
  PROVE  LInv'
<1> USE Clients DEF tabVars, records
<1>1. PoolTypeOK /\ PoolTypeOK'
  BY TypeStep DEF LInv, LTypes, PoolNext
<1>2. CallFrame(c) /\ CtxFrame(c)
  BY <1>1, CallStepFrame
<1>3. LTypes'
  BY <1>1, <1>2 DEF LInv, LTypes, LifeTypeOK, CallFrame
<1>4. CallInv'
  BY <1>1, <1>2 DEF LInv, CallInv, CallFrame, CreatePhase, ClosePhase, OwnTab, Closing
<1>5. ArgInv' /\ SweeperInv' /\ FreshInv' /\ UndoneInv' /\ ResidueOwned'
  BY <1>2 DEF LInv, ArgInv, SweeperInv, FreshInv, UndoneInv, ResidueOwned, CallFrame
<1>6. CtxInv'
  <2> SUFFICES ASSUME NEW t \in Client
               PROVE  /\ ctx'[t] = "opening" => call'[t] = "opening"
                      /\ pc[t] = "creating" /\ ctx'[t] = "open" => call'[t] = "created"
                      /\ pc[t] = "creating" /\ call'[t] = "created" => ctx'[t] \in {"open", "lost"}
                      /\ ctx'[t] = "closing" =>
                           \E d \in Caller : call'[d] \in ClosePhase /\ arg[d] = t
    BY <1>2 DEF CtxInv, CallFrame
  <2>1. ctx'[t] = "opening" => call'[t] = "opening"
    BY <1>2 DEF LInv, CtxInv, CallFrame, CtxFrame, CreatePhase, ClosePhase
  <2>2. pc[t] = "creating" /\ ctx'[t] = "open" => call'[t] = "created"
    BY <1>2 DEF LInv, CtxInv, CallFrame, CtxFrame, CreatePhase, ClosePhase
  <2>3. pc[t] = "creating" /\ call'[t] = "created" => ctx'[t] \in {"open", "lost"}
    BY <1>2 DEF LInv, CtxInv, FreshInv, CallFrame, CtxFrame, CreatePhase, ClosePhase
  <2>4. ASSUME ctx'[t] = "closing"
        PROVE  \E d \in Caller : call'[d] \in ClosePhase /\ arg[d] = t
    <3>1. ctx[t] = "closing"
      BY <1>2, <2>4 DEF CtxFrame
    <3>2. PICK d \in Caller : call[d] \in ClosePhase /\ arg[d] = t
      BY <3>1 DEF LInv, CtxInv
    <3>3. d = c => call'[c] \in ClosePhase
      BY <1>2, <2>4, <3>2 DEF CtxFrame
    <3> QED
      BY <1>2, <3>2, <3>3 DEF CallFrame
  <2> QED
    BY <2>1, <2>2, <2>3, <2>4
<1>7. RegistryInv'
  <2>1. ASSUME NEW t \in registry PROVE ctx'[t] \in {"open", "lost"}
    <3>1. t \in Client /\ pc[t] # "creating"
      BY DEF LInv, LTypes, LifeTypeOK, FreshInv
    <3>2. ctx[t] \in {"open", "lost"}
      BY DEF LInv, RegistryInv
    <3>3. t = c => call[c] \notin CreatePhase
      BY <3>1 DEF LInv, CallInv, LTypes, LifeTypeOK, CreatePhase, ClosePhase, OwnTab, Closing
    <3>4. call[c] \in ClosePhase => t # arg[c]
      BY DEF LInv, CallInv, RegistryInv, LTypes, LifeTypeOK, CreatePhase, ClosePhase, OwnTab, Closing
    <3> QED
      BY <1>2, <3>1, <3>2, <3>3, <3>4 DEF CtxFrame, CreatePhase
  <2> QED
    BY <1>2, <2>1 DEF LInv, RegistryInv, CallFrame
<1>8. OpenTabReachable'
  BY <1>2 DEF LInv, OpenTabReachable, CallInv, LTypes, LifeTypeOK, CallFrame, CtxFrame,
     CreatePhase, ClosePhase, OwnTab, Closing
<1> QED
  BY <1>3, <1>4, <1>5, <1>6, <1>7, <1>8 DEF LInv

LEMMA TimerStepKeeps ==
  ASSUME LInv, NEW i \in Task, TimerStep(i), UNCHANGED tabVars
  PROVE  LInv'
<1> USE Clients DEF tabVars, records
<1>1. PoolTypeOK /\ PoolTypeOK'
  BY TypeStep DEF LInv, LTypes, PoolNext
<1>2. /\ arg' = arg /\ call' = call /\ halted' = halted
      /\ \A t \in Caller : ctx'[t] = ctx[t] \/ ctx'[t] = "lost"
  BY <1>1, TimerStepFrame
<1>3. LTypes' /\ CallInv' /\ ArgInv' /\ SweeperInv'
  BY <1>1, <1>2 DEF LInv, LTypes, LifeTypeOK, CallInv, ArgInv, SweeperInv
<1>4. FreshInv' /\ UndoneInv' /\ ResidueOwned'
  BY <1>2 DEF LInv, FreshInv, UndoneInv, ResidueOwned
<1>5. CtxInv' /\ OpenTabReachable'
  BY <1>2 DEF LInv, CtxInv, OpenTabReachable
<1>6. RegistryInv'
  BY <1>2 DEF LInv, RegistryInv, LTypes, LifeTypeOK
<1> QED
  BY <1>3, <1>4, <1>5, <1>6 DEF LInv

----------------------------------------------------------------------------
(* The handlers' calls of the pool.                                        *)

Replied(c) ==
  /\ PoolTypeOK'
  /\ call[c] \in Result
  /\ call' = [call EXCEPT ![c] = "out"]
  /\ arg' = [arg EXCEPT ![c] = NoCaller]
  /\ UNCHANGED <<ctx, halted>>
  /\ pc' = [pc EXCEPT ![c] = "idle"]
  /\ oneShot' = oneShot \ {c}

LEMMA ReplyEffect ==
  ASSUME LInv, NEW c \in Caller, Reply(c)
  PROVE  Replied(c)
BY TypeStep DEF LInv, LTypes, Reply, Return, Goto, PoolNext, Replied

CloseCalled(c, t) ==
  /\ PoolTypeOK'
  /\ call[c] \notin Pending
  /\ call' = [call EXCEPT ![c] = "closing"]
  /\ arg' = [arg EXCEPT ![c] = t]
  /\ ctx' = [ctx EXCEPT ![t] = IF @ = "open" THEN "closing" ELSE @]
  /\ halted' = halted
  /\ twice' \in BOOLEAN

LEMMA CloseEffect ==
  ASSUME LInv, NEW c \in Caller, NEW t \in Client, Close(c, t)
  PROVE  CloseCalled(c, t)
BY Clients DEF LInv, LTypes, PoolTypeOK, LifeTypeOK, Close, CallClose, AlreadyClosed,
   Pending, ClosePhase, HeldState, CloseCalled

----------------------------------------------------------------------------
(* create_tab                                                              *)

LEMMA CallCreateEffect ==
  ASSUME LInv, NEW c \in Client, CallCreate(c)
  PROVE  /\ PoolTypeOK'
         /\ call' = [call EXCEPT ![c] = "createWait"]
         /\ ctx[c] = "none"
         /\ UNCHANGED <<arg, ctx, halted>>
BY Clients, TypeStep DEF LInv, LTypes, CallCreate, PoolNext

LEMMA CreateKeeps ==
  ASSUME LInv, NEW c \in Client, Create(c)
  PROVE  LInv'
<1> USE Clients DEF LInv, LTypes, LifeTypeOK, PoolTypeOK, CallInv, ArgInv,
  CreatePhase, ClosePhase, OwnTab, Closing, Create, Unused, Goto, records
<1>1. /\ PoolTypeOK'
      /\ call' = [call EXCEPT ![c] = "createWait"]
      /\ ctx[c] = "none"
      /\ UNCHANGED <<arg, ctx, halted>>
  BY CallCreateEffect
<1>2. LTypes'
  BY <1>1
<1>3. CallInv' /\ ArgInv' /\ SweeperInv'
  BY <1>1, <1>2 DEF SweeperInv
<1>4. FreshInv' /\ UndoneInv'
  BY <1>1, <1>2 DEF FreshInv, UndoneInv
<1>5. CtxInv'
  BY <1>1, <1>2 DEF CtxInv
<1>6. RegistryInv'
  BY <1>1, <1>2 DEF RegistryInv, FreshInv, CtxInv
<1>7. OpenTabReachable'
  BY <1>1, <1>2 DEF OpenTabReachable, CtxInv
<1>8. ResidueOwned'
  BY <1>1, <1>2 DEF ResidueOwned, CtxInv, OpenTabReachable
<1> QED
  BY <1>2, <1>3, <1>4, <1>5, <1>6, <1>7, <1>8 DEF LInv

LEMMA CreateRaisedKeeps ==
  ASSUME LInv, NEW c \in Client, CreateRaised(c)
  PROVE  LInv'
<1> USE Clients DEF LInv, LTypes, LifeTypeOK, PoolTypeOK, CallInv, ArgInv,
  CreatePhase, ClosePhase, OwnTab, Closing, CreateRaised, records, Result,
  Replied
<1>1. Replied(c)
  BY ReplyEffect
<1>2. LTypes'
  BY <1>1
<1>3. CallInv' /\ ArgInv' /\ SweeperInv'
  BY <1>1, <1>2 DEF SweeperInv
<1>4. FreshInv' /\ UndoneInv'
  BY <1>1, <1>2 DEF FreshInv, UndoneInv
<1>5. CtxInv'
  BY <1>1, <1>2 DEF CtxInv
<1>6. RegistryInv'
  BY <1>1, <1>2 DEF RegistryInv
<1>7. OpenTabReachable'
  BY <1>1, <1>2 DEF OpenTabReachable, CtxInv
<1>8. ResidueOwned'
  BY <1>1, <1>2 DEF ResidueOwned
<1> QED
  BY <1>2, <1>3, <1>4, <1>5, <1>6, <1>7, <1>8 DEF LInv

LEMMA OpenedKeeps ==
  ASSUME LInv, NEW c \in Client, Opened(c)
  PROVE  LInv'
<1> USE Clients DEF LInv, LTypes, LifeTypeOK, PoolTypeOK, CallInv, ArgInv,
  CreatePhase, ClosePhase, OwnTab, Closing, Opened, Register, Goto, poolVars,
  records
<1>1. LTypes'
  OBVIOUS
<1>2. CallInv' /\ ArgInv' /\ SweeperInv'
  BY <1>1 DEF SweeperInv
<1>3. FreshInv' /\ UndoneInv'
  BY <1>1 DEF FreshInv, UndoneInv
<1>4. CtxInv'
  BY <1>1 DEF CtxInv
<1>5. RegistryInv'
  BY <1>1 DEF RegistryInv, FreshInv, CtxInv
<1>6. OpenTabReachable'
  BY <1>1 DEF OpenTabReachable
<1>7. ResidueOwned'
  BY <1>1 DEF ResidueOwned
<1> QED
  BY <1>1, <1>2, <1>3, <1>4, <1>5, <1>6, <1>7 DEF LInv

LEMMA AttachRecorderKeeps ==
  ASSUME LInv, NEW c \in Client, AttachRecorder(c)
  PROVE  LInv'
<1> USE Clients DEF LInv, LTypes, LifeTypeOK, PoolTypeOK, CallInv, ArgInv,
  CreatePhase, ClosePhase, OwnTab, Closing, AttachRecorder, Alive, HeldState,
  Goto, poolVars, records
<1>1. LTypes'
  OBVIOUS
<1>2. CallInv' /\ ArgInv' /\ SweeperInv'
  BY <1>1 DEF SweeperInv
<1>3. FreshInv' /\ UndoneInv'
  BY <1>1 DEF FreshInv, UndoneInv
<1>4. CtxInv'
  BY <1>1 DEF CtxInv
<1>5. RegistryInv'
  BY <1>1 DEF RegistryInv
<1>6. OpenTabReachable'
  BY <1>1 DEF OpenTabReachable
<1>7. ResidueOwned'
  BY <1>1 DEF ResidueOwned, CtxInv, OpenTabReachable
<1> QED
  BY <1>1, <1>2, <1>3, <1>4, <1>5, <1>6, <1>7 DEF LInv

LEMMA NavigatedKeeps ==
  ASSUME LInv, NEW c \in Client, Navigated(c)
  PROVE  LInv'
<1> USE Clients DEF LInv, LTypes, LifeTypeOK, PoolTypeOK, CallInv, ArgInv,
  CreatePhase, ClosePhase, OwnTab, Closing, Navigated, Goto, poolVars, records
<1>1. LTypes'
  OBVIOUS
<1>2. CallInv' /\ ArgInv' /\ SweeperInv'
  BY <1>1 DEF SweeperInv
<1>3. FreshInv' /\ UndoneInv'
  BY <1>1 DEF FreshInv, UndoneInv
<1>4. CtxInv'
  BY <1>1 DEF CtxInv
<1>5. RegistryInv'
  BY <1>1 DEF RegistryInv
<1>6. OpenTabReachable'
  BY <1>1 DEF OpenTabReachable
<1>7. ResidueOwned'
  BY <1>1 DEF ResidueOwned
<1> QED
  BY <1>1, <1>2, <1>3, <1>4, <1>5, <1>6, <1>7 DEF LInv

LEMMA CreateFailsKeeps ==
  ASSUME LInv, NEW c \in Client, CreateFails(c)
  PROVE  LInv'
<1> USE Clients DEF LInv, LTypes, LifeTypeOK, PoolTypeOK, CallInv, ArgInv,
  CreatePhase, ClosePhase, OwnTab, Closing, CreateFails, Unregister, Goto,
  poolVars, records
<1>1. LTypes'
  OBVIOUS
<1>2. CallInv' /\ ArgInv' /\ SweeperInv'
  BY <1>1 DEF SweeperInv
<1>3. FreshInv' /\ UndoneInv'
  BY <1>1 DEF FreshInv, UndoneInv
<1>4. CtxInv'
  BY <1>1 DEF CtxInv
<1>5. RegistryInv'
  BY <1>1 DEF RegistryInv
<1>6. OpenTabReachable'
  BY <1>1 DEF OpenTabReachable
<1>7. ResidueOwned'
  BY <1>1 DEF ResidueOwned
<1> QED
  BY <1>1, <1>2, <1>3, <1>4, <1>5, <1>6, <1>7 DEF LInv

LEMMA UndoKeeps ==
  ASSUME LInv, NEW c \in Client, Undo(c)
  PROVE  LInv'
<1> USE Clients DEF LInv, LTypes, LifeTypeOK, PoolTypeOK, CallInv, ArgInv,
  CreatePhase, ClosePhase, OwnTab, Closing, Undo, Detach, Goto, records,
  Pending, CloseCalled
<1>1. CloseCalled(c, c)
  BY CloseEffect
<1>2. LTypes'
  BY <1>1
<1>3. CallInv' /\ ArgInv' /\ SweeperInv'
  BY <1>1, <1>2 DEF SweeperInv
<1>4. FreshInv' /\ UndoneInv'
  BY <1>1, <1>2 DEF FreshInv, UndoneInv
<1>5. CtxInv'
  BY <1>1, <1>2 DEF CtxInv
<1>6. RegistryInv'
  BY <1>1, <1>2 DEF RegistryInv
<1>7. OpenTabReachable'
  BY <1>1, <1>2 DEF OpenTabReachable
<1>8. ResidueOwned'
  BY <1>1, <1>2 DEF ResidueOwned
<1> QED
  BY <1>2, <1>3, <1>4, <1>5, <1>6, <1>7, <1>8 DEF LInv

LEMMA CreateFailedKeeps ==
  ASSUME LInv, NEW c \in Client, CreateFailed(c)
  PROVE  LInv'
<1> USE Clients DEF LInv, LTypes, LifeTypeOK, PoolTypeOK, CallInv, ArgInv,
  CreatePhase, ClosePhase, OwnTab, Closing, CreateFailed, records, Result,
  Replied
<1>1. Replied(c)
  BY ReplyEffect
<1>2. LTypes'
  BY <1>1
<1>3. CallInv' /\ ArgInv' /\ SweeperInv'
  BY <1>1, <1>2 DEF SweeperInv
<1>4. FreshInv' /\ UndoneInv'
  BY <1>1, <1>2 DEF FreshInv, UndoneInv
<1>5. CtxInv'
  BY <1>1, <1>2 DEF CtxInv
<1>6. RegistryInv'
  BY <1>1, <1>2 DEF RegistryInv
<1>7. OpenTabReachable'
  BY <1>1, <1>2 DEF OpenTabReachable
<1>8. ResidueOwned'
  BY <1>1, <1>2 DEF ResidueOwned
<1> QED
  BY <1>2, <1>3, <1>4, <1>5, <1>6, <1>7, <1>8 DEF LInv

LEMMA CreateRepliesKeeps ==
  ASSUME LInv, NEW c \in Client, CreateReplies(c)
  PROVE  LInv'
<1> USE Clients DEF LInv, LTypes, LifeTypeOK, PoolTypeOK, CallInv, ArgInv,
  CreatePhase, ClosePhase, OwnTab, Closing, CreateReplies, records, Result,
  Replied
<1>1. Replied(c)
  BY ReplyEffect
<1>2. LTypes'
  BY <1>1
<1>3. CallInv' /\ ArgInv' /\ SweeperInv'
  BY <1>1, <1>2 DEF SweeperInv
<1>4. FreshInv' /\ UndoneInv'
  BY <1>1, <1>2 DEF FreshInv, UndoneInv
<1>5. CtxInv'
  BY <1>1, <1>2 DEF CtxInv
<1>6. RegistryInv'
  BY <1>1, <1>2 DEF RegistryInv
<1>7. OpenTabReachable'
  BY <1>1, <1>2 DEF OpenTabReachable
<1>8. ResidueOwned'
  BY <1>1, <1>2 DEF ResidueOwned
<1> QED
  BY <1>2, <1>3, <1>4, <1>5, <1>6, <1>7, <1>8 DEF LInv

----------------------------------------------------------------------------
(* fetch                                                                   *)

LEMMA FetchReadsKeeps ==
  ASSUME LInv, NEW c \in Client, FetchReads(c)
  PROVE  LInv'
<1> USE Clients DEF LInv, LTypes, LifeTypeOK, PoolTypeOK, CallInv, ArgInv,
  CreatePhase, ClosePhase, OwnTab, Closing, FetchReads, Goto, poolVars, records
<1>1. LTypes'
  OBVIOUS
<1>2. CallInv' /\ ArgInv' /\ SweeperInv'
  BY <1>1 DEF SweeperInv
<1>3. FreshInv' /\ UndoneInv'
  BY <1>1 DEF FreshInv, UndoneInv
<1>4. CtxInv'
  BY <1>1 DEF CtxInv
<1>5. RegistryInv'
  BY <1>1 DEF RegistryInv
<1>6. OpenTabReachable'
  BY <1>1 DEF OpenTabReachable
<1>7. ResidueOwned'
  BY <1>1 DEF ResidueOwned
<1> QED
  BY <1>1, <1>2, <1>3, <1>4, <1>5, <1>6, <1>7 DEF LInv

LEMMA FetchLostKeeps ==
  ASSUME LInv, NEW c \in Client, FetchLost(c)
  PROVE  LInv'
<1> USE Clients DEF LInv, LTypes, LifeTypeOK, PoolTypeOK, CallInv, ArgInv,
  CreatePhase, ClosePhase, OwnTab, Closing, FetchLost, Detach, records, Result,
  Replied
<1>1. Replied(c)
  BY ReplyEffect
<1>2. LTypes'
  BY <1>1
<1>3. CallInv' /\ ArgInv' /\ SweeperInv'
  BY <1>1, <1>2 DEF SweeperInv
<1>4. FreshInv' /\ UndoneInv'
  BY <1>1, <1>2 DEF FreshInv, UndoneInv
<1>5. CtxInv'
  BY <1>1, <1>2 DEF CtxInv
<1>6. RegistryInv'
  BY <1>1, <1>2 DEF RegistryInv
<1>7. OpenTabReachable'
  BY <1>1, <1>2 DEF OpenTabReachable
<1>8. ResidueOwned'
  BY <1>1, <1>2 DEF ResidueOwned
<1> QED
  BY <1>2, <1>3, <1>4, <1>5, <1>6, <1>7, <1>8 DEF LInv

LEMMA FetchClosesKeeps ==
  ASSUME LInv, NEW c \in Client, FetchCloses(c)
  PROVE  LInv'
<1> USE Clients DEF LInv, LTypes, LifeTypeOK, PoolTypeOK, CallInv, ArgInv,
  CreatePhase, ClosePhase, OwnTab, Closing, FetchCloses, Unregister, Goto,
  records, Pending, CloseCalled
<1>1. CloseCalled(c, c)
  BY CloseEffect
<1>2. LTypes'
  BY <1>1
<1>3. CallInv' /\ ArgInv' /\ SweeperInv'
  BY <1>1, <1>2 DEF SweeperInv
<1>4. FreshInv' /\ UndoneInv'
  BY <1>1, <1>2 DEF FreshInv, UndoneInv
<1>5. CtxInv'
  BY <1>1, <1>2 DEF CtxInv
<1>6. RegistryInv'
  BY <1>1, <1>2 DEF RegistryInv
<1>7. OpenTabReachable'
  BY <1>1, <1>2 DEF OpenTabReachable
<1>8. ResidueOwned'
  BY <1>1, <1>2 DEF ResidueOwned
<1> QED
  BY <1>2, <1>3, <1>4, <1>5, <1>6, <1>7, <1>8 DEF LInv

LEMMA FetchRepliesKeeps ==
  ASSUME LInv, NEW c \in Client, FetchReplies(c)
  PROVE  LInv'
<1> USE Clients DEF LInv, LTypes, LifeTypeOK, PoolTypeOK, CallInv, ArgInv,
  CreatePhase, ClosePhase, OwnTab, Closing, FetchReplies, Detach, records,
  Result, Replied
<1>1. Replied(c)
  BY ReplyEffect
<1>2. LTypes'
  BY <1>1
<1>3. CallInv' /\ ArgInv' /\ SweeperInv'
  BY <1>1, <1>2 DEF SweeperInv
<1>4. FreshInv' /\ UndoneInv'
  BY <1>1, <1>2 DEF FreshInv, UndoneInv
<1>5. CtxInv'
  BY <1>1, <1>2 DEF CtxInv
<1>6. RegistryInv'
  BY <1>1, <1>2 DEF RegistryInv
<1>7. OpenTabReachable'
  BY <1>1, <1>2 DEF OpenTabReachable
<1>8. ResidueOwned'
  BY <1>1, <1>2 DEF ResidueOwned
<1> QED
  BY <1>2, <1>3, <1>4, <1>5, <1>6, <1>7, <1>8 DEF LInv

----------------------------------------------------------------------------
(* delete_tab, delete_browser, the sweeper and the clock                   *)

LEMMA DeleteKeeps ==
  ASSUME LInv, NEW c \in Client, NEW t \in registry, Unregister(t), Close(c, t),
         pc[c] = "idle", Goto(c, "deleting"), UNCHANGED <<oneShot, dirs, modes, sweepList>>
  PROVE  LInv'
<1> USE Clients DEF LInv, LTypes, LifeTypeOK, PoolTypeOK, CallInv, ArgInv,
  CreatePhase, ClosePhase, OwnTab, Closing, Unregister, Goto, records, Pending,
  CloseCalled
<1>1. CloseCalled(c, t)
  BY CloseEffect
<1>2. LTypes'
  BY <1>1
<1>3. CallInv' /\ ArgInv' /\ SweeperInv'
  BY <1>1, <1>2 DEF SweeperInv
<1>4. FreshInv' /\ UndoneInv'
  BY <1>1, <1>2 DEF FreshInv, UndoneInv
<1>5. CtxInv'
  BY <1>1, <1>2 DEF CtxInv, FreshInv
<1>6. RegistryInv'
  BY <1>1, <1>2 DEF RegistryInv
<1>7. OpenTabReachable'
  BY <1>1, <1>2 DEF OpenTabReachable
<1>8. ResidueOwned'
  BY <1>1, <1>2 DEF ResidueOwned
<1> QED
  BY <1>2, <1>3, <1>4, <1>5, <1>6, <1>7, <1>8 DEF LInv

LEMMA DeletedKeeps ==
  ASSUME LInv, NEW c \in Client, Deleted(c)
  PROVE  LInv'
<1> USE Clients DEF LInv, LTypes, LifeTypeOK, PoolTypeOK, CallInv, ArgInv,
  CreatePhase, ClosePhase, OwnTab, Closing, Deleted, Detach, records, Result,
  Replied
<1>1. Replied(c)
  BY ReplyEffect
<1>2. LTypes'
  BY <1>1
<1>3. CallInv' /\ ArgInv' /\ SweeperInv'
  BY <1>1, <1>2 DEF SweeperInv
<1>4. FreshInv' /\ UndoneInv'
  BY <1>1, <1>2 DEF FreshInv, UndoneInv
<1>5. CtxInv'
  BY <1>1, <1>2 DEF CtxInv
<1>6. RegistryInv'
  BY <1>1, <1>2 DEF RegistryInv
<1>7. OpenTabReachable'
  BY <1>1, <1>2 DEF OpenTabReachable
<1>8. ResidueOwned'
  BY <1>1, <1>2 DEF ResidueOwned
<1> QED
  BY <1>2, <1>3, <1>4, <1>5, <1>6, <1>7, <1>8 DEF LInv

LEMMA CallStopEffect ==
  ASSUME LInv, NEW c \in Client, CallStopIfIdle(c)
  PROVE  /\ PoolTypeOK'
         /\ call' = [call EXCEPT ![c] = "stopWait"]
         /\ call[c] = "out"
         /\ UNCHANGED <<arg, ctx, halted>>
BY Clients, TypeStep DEF LInv, LTypes, CallStopIfIdle, PoolNext

LEMMA ResetKeeps ==
  ASSUME LInv, NEW c \in Client, Reset(c)
  PROVE  LInv'
<1> USE Clients DEF LInv, LTypes, LifeTypeOK, PoolTypeOK, CallInv, ArgInv,
  CreatePhase, ClosePhase, OwnTab, Closing, Reset, Goto, records
<1>1. /\ PoolTypeOK'
      /\ call' = [call EXCEPT ![c] = "stopWait"]
      /\ call[c] = "out"
      /\ UNCHANGED <<arg, ctx, halted>>
  BY CallStopEffect
<1>2. LTypes'
  BY <1>1
<1>3. CallInv' /\ ArgInv' /\ SweeperInv'
  BY <1>1, <1>2 DEF SweeperInv
<1>4. FreshInv' /\ UndoneInv'
  BY <1>1, <1>2 DEF FreshInv, UndoneInv
<1>5. CtxInv'
  BY <1>1, <1>2 DEF CtxInv
<1>6. RegistryInv'
  BY <1>1, <1>2 DEF RegistryInv
<1>7. OpenTabReachable'
  BY <1>1, <1>2 DEF OpenTabReachable
<1>8. ResidueOwned'
  BY <1>1, <1>2 DEF ResidueOwned
<1> QED
  BY <1>2, <1>3, <1>4, <1>5, <1>6, <1>7, <1>8 DEF LInv

LEMMA ResetRepliesKeeps ==
  ASSUME LInv, NEW c \in Client, ResetReplies(c)
  PROVE  LInv'
<1> USE Clients DEF LInv, LTypes, LifeTypeOK, PoolTypeOK, CallInv, ArgInv,
  CreatePhase, ClosePhase, OwnTab, Closing, ResetReplies, records, Result,
  Replied
<1>1. Replied(c)
  BY ReplyEffect
<1>2. LTypes'
  BY <1>1
<1>3. CallInv' /\ ArgInv' /\ SweeperInv'
  BY <1>1, <1>2 DEF SweeperInv
<1>4. FreshInv' /\ UndoneInv'
  BY <1>1, <1>2 DEF FreshInv, UndoneInv
<1>5. CtxInv'
  BY <1>1, <1>2 DEF CtxInv
<1>6. RegistryInv'
  BY <1>1, <1>2 DEF RegistryInv
<1>7. OpenTabReachable'
  BY <1>1, <1>2 DEF OpenTabReachable
<1>8. ResidueOwned'
  BY <1>1, <1>2 DEF ResidueOwned
<1> QED
  BY <1>2, <1>3, <1>4, <1>5, <1>6, <1>7, <1>8 DEF LInv

LEMMA SweepBeginsKeeps ==
  ASSUME LInv, NEW t \in Client, SweepTab(t), t \in expired,
         pc[Sweeper] = "idle", sweepList' = expired \ {t}, Goto(Sweeper, "sweeping"),
         UNCHANGED <<oneShot, dirs, modes>>
  PROVE  LInv'
<1> USE Clients DEF LInv, LTypes, LifeTypeOK, PoolTypeOK, CallInv, ArgInv,
  CreatePhase, ClosePhase, OwnTab, Closing, SweepTab, Unregister, Goto,
  records, Pending, CloseCalled
<1>1. CloseCalled(Sweeper, t)
  BY CloseEffect
<1>2. LTypes'
  BY <1>1
<1>3. CallInv' /\ ArgInv' /\ SweeperInv'
  BY <1>1, <1>2 DEF SweeperInv
<1>4. FreshInv' /\ UndoneInv'
  BY <1>1, <1>2 DEF FreshInv, UndoneInv
<1>5. CtxInv'
  BY <1>1, <1>2 DEF CtxInv, FreshInv
<1>6. RegistryInv'
  BY <1>1, <1>2 DEF RegistryInv
<1>7. OpenTabReachable'
  BY <1>1, <1>2 DEF OpenTabReachable
<1>8. ResidueOwned'
  BY <1>1, <1>2 DEF ResidueOwned
<1> QED
  BY <1>2, <1>3, <1>4, <1>5, <1>6, <1>7, <1>8 DEF LInv

LEMMA SweepNextKeeps ==
  ASSUME LInv, NEW t \in Client, SweepTab(t), t \in sweepList \cap registry,
         pc[Sweeper] = "sweeping", call[Sweeper] = "closed", Detach(arg[Sweeper]),
         sweepList' = sweepList \ {t}, UNCHANGED <<pc, oneShot>>
  PROVE  LInv'
<1> USE Clients DEF LInv, LTypes, LifeTypeOK, PoolTypeOK, CallInv, ArgInv,
  CreatePhase, ClosePhase, OwnTab, Closing, SweepTab, Unregister, Detach,
  records, Pending, CloseCalled
<1>1. CloseCalled(Sweeper, t)
  BY CloseEffect
<1>2. LTypes'
  BY <1>1
<1>3. CallInv' /\ ArgInv' /\ SweeperInv'
  BY <1>1, <1>2 DEF SweeperInv
<1>4. FreshInv' /\ UndoneInv'
  BY <1>1, <1>2 DEF FreshInv, UndoneInv
<1>5. CtxInv'
  BY <1>1, <1>2 DEF CtxInv, FreshInv
<1>6. RegistryInv'
  BY <1>1, <1>2 DEF RegistryInv
<1>7. OpenTabReachable'
  BY <1>1, <1>2 DEF OpenTabReachable
<1>8. ResidueOwned'
  BY <1>1, <1>2 DEF ResidueOwned
<1> QED
  BY <1>2, <1>3, <1>4, <1>5, <1>6, <1>7, <1>8 DEF LInv

LEMMA SweepEndsKeeps ==
  ASSUME LInv, SweepEnds
  PROVE  LInv'
<1> USE Clients DEF LInv, LTypes, LifeTypeOK, PoolTypeOK, CallInv, ArgInv,
  CreatePhase, ClosePhase, OwnTab, Closing, SweepEnds, Detach, records, Result,
  Replied
<1>1. Replied(Sweeper)
  BY ReplyEffect
<1>2. LTypes'
  BY <1>1
<1>3. CallInv' /\ ArgInv' /\ SweeperInv'
  BY <1>1, <1>2 DEF SweeperInv
<1>4. FreshInv' /\ UndoneInv'
  BY <1>1, <1>2 DEF FreshInv, UndoneInv
<1>5. CtxInv'
  BY <1>1, <1>2 DEF CtxInv
<1>6. RegistryInv'
  BY <1>1, <1>2 DEF RegistryInv
<1>7. OpenTabReachable'
  BY <1>1, <1>2 DEF OpenTabReachable
<1>8. ResidueOwned'
  BY <1>1, <1>2 DEF ResidueOwned
<1> QED
  BY <1>2, <1>3, <1>4, <1>5, <1>6, <1>7, <1>8 DEF LInv

LEMMA TouchKeeps ==
  ASSUME LInv, NEW t \in Client, Touch(t)
  PROVE  LInv'
<1> USE Clients DEF LInv, LTypes, LifeTypeOK, PoolTypeOK, CallInv, ArgInv,
  CreatePhase, ClosePhase, OwnTab, Closing, Touch, Goto, poolVars, records
<1>1. LTypes'
  OBVIOUS
<1>2. CallInv' /\ ArgInv' /\ SweeperInv'
  BY <1>1 DEF SweeperInv
<1>3. FreshInv' /\ UndoneInv'
  BY <1>1 DEF FreshInv, UndoneInv
<1>4. CtxInv'
  BY <1>1 DEF CtxInv
<1>5. RegistryInv'
  BY <1>1 DEF RegistryInv
<1>6. OpenTabReachable'
  BY <1>1 DEF OpenTabReachable
<1>7. ResidueOwned'
  BY <1>1 DEF ResidueOwned
<1> QED
  BY <1>1, <1>2, <1>3, <1>4, <1>5, <1>6, <1>7 DEF LInv

LEMMA ExpireKeeps ==
  ASSUME LInv, NEW t \in Client, Expire(t)
  PROVE  LInv'
<1> USE Clients DEF LInv, LTypes, LifeTypeOK, PoolTypeOK, CallInv, ArgInv,
  CreatePhase, ClosePhase, OwnTab, Closing, Expire, Goto, poolVars, records
<1>1. LTypes'
  OBVIOUS
<1>2. CallInv' /\ ArgInv' /\ SweeperInv'
  BY <1>1 DEF SweeperInv
<1>3. FreshInv' /\ UndoneInv'
  BY <1>1 DEF FreshInv, UndoneInv
<1>4. CtxInv'
  BY <1>1 DEF CtxInv
<1>5. RegistryInv'
  BY <1>1 DEF RegistryInv
<1>6. OpenTabReachable'
  BY <1>1 DEF OpenTabReachable
<1>7. ResidueOwned'
  BY <1>1 DEF ResidueOwned
<1> QED
  BY <1>1, <1>2, <1>3, <1>4, <1>5, <1>6, <1>7 DEF LInv

----------------------------------------------------------------------------
(* The invariant.                                                          *)

LEMMA LInvInit == LifeInit => LInv
<1> SUFFICES ASSUME LifeInit PROVE LInv
  OBVIOUS
<1> USE Clients DEF LifeInit, PoolInit
<1>1. LTypes
  BY TypeInit DEF LTypes, LifeTypeOK
<1>2. CallInv /\ ArgInv /\ SweeperInv
  BY DEF CallInv, ArgInv, SweeperInv, OwnTab, Closing
<1>3. FreshInv /\ CtxInv /\ RegistryInv /\ UndoneInv
  BY DEF FreshInv, CtxInv, RegistryInv, UndoneInv, Closing
<1>4. OpenTabReachable /\ ResidueOwned
  BY DEF OpenTabReachable, ResidueOwned
<1> QED
  BY <1>1, <1>2, <1>3, <1>4 DEF LInv

LEMMA LInvStep == LInv /\ [LifeNext]_vars => LInv'
<1> SUFFICES ASSUME LInv, [LifeNext]_vars PROVE LInv'
  OBVIOUS
<1>1. ASSUME NEW c \in Client, CreateStep(c) PROVE LInv'
  BY <1>1, CreateRaisedKeeps, OpenedKeeps, AttachRecorderKeeps, NavigatedKeeps,
     CreateFailsKeeps, UndoKeeps, CreateFailedKeeps, CreateRepliesKeeps
  DEF CreateStep
<1>2. ASSUME NEW c \in Client, FetchStep(c) PROVE LInv'
  BY <1>2, FetchReadsKeeps, FetchLostKeeps, FetchClosesKeeps, FetchRepliesKeeps
  DEF FetchStep
<1>3. ASSUME NEW c \in Client, Delete(c) PROVE LInv'
  BY <1>3, DeleteKeeps DEF Delete
<1>4. ASSUME NEW c \in Client, Create(c) \/ Reset(c) \/ HandlerStep(c)
      PROVE  LInv'
  BY <1>1, <1>2, <1>4, CreateKeeps, ResetKeeps, DeletedKeeps, ResetRepliesKeeps
  DEF HandlerStep
<1>5. CASE SweepBegins
  BY <1>5, SweepBeginsKeeps DEF SweepBegins, First
<1>6. CASE SweepNext
  BY <1>6, SweepNextKeeps DEF SweepNext, First
<1>7. CASE SweepEnds
  BY <1>7, SweepEndsKeeps
<1>8. ASSUME NEW t \in Client, Touch(t) \/ Expire(t) PROVE LInv'
  BY <1>8, TouchKeeps, ExpireKeeps
<1>9. ASSUME NEW c \in Caller, CallStep(c), UNCHANGED tabVars PROVE LInv'
  BY <1>9, CallStepKeeps
<1>10. ASSUME NEW i \in Task, TimerStep(i), UNCHANGED tabVars PROVE LInv'
  BY <1>10, TimerStepKeeps
<1>11. CASE UNCHANGED vars
  BY <1>11 DEF vars, poolVars, tabVars, records, LInv, LTypes, PoolTypeOK,
     LifeTypeOK, CallInv, ArgInv, SweeperInv, FreshInv, CtxInv, RegistryInv,
     UndoneInv, OpenTabReachable, ResidueOwned
<1> QED
  BY <1>3, <1>4, <1>5, <1>6, <1>7, <1>8, <1>9, <1>10, <1>11
  DEF LifeNext, SweeperStep

LEMMA LInvHolds == LifeSafe => []LInv
BY LInvInit, LInvStep, PTL DEF LifeSafe

\* The handlers' variables stay in their ranges, for any number of clients.
THEOREM LifeTypeCorrect == LifeSafe => []LifeTypeOK
<1>1. LInv => LifeTypeOK
  BY DEF LInv, LTypes
<1> QED
  BY <1>1, LInvHolds, PTL

\* Every open tab is registered, about to be, or about to be closed.
THEOREM NoTabOrphaned == LifeSafe => []OpenTabReachable
<1>1. LInv => OpenTabReachable
  BY DEF LInv
<1> QED
  BY <1>1, LInvHolds, PTL

\* A directory or a capture mode has a registered tab or a handler that
\* still has to detach it.
THEOREM NoResidueOrphaned == LifeSafe => []ResidueOwned
<1>1. LInv => ResidueOwned
  BY DEF LInv
<1> QED
  BY <1>1, LInvHolds, PTL

----------------------------------------------------------------------------
(* Who closes a context, and the count of the pool until it is twice.      *)

\* Only these steps call close_context: on the tab of the caller's own
\* request, past its creation, or on a registered one.
LEMMA CloseCaller ==
  ASSUME LInv, LifeNext, NEW c \in Caller, NEW t \in Client, CallClose(c, t)
  PROVE  c = t \/ t \in registry
<1> USE Clients
<1>1. /\ call[c] \notin Pending
      /\ call'[c] = "closing"
      /\ arg'[c] = t
      /\ call'[c] # call[c]
  BY DEF LInv, LTypes, PoolTypeOK, CallClose, Pending, ClosePhase
<1>2. ASSUME NEW d \in Caller, Reply(d) PROVE FALSE
  <2>1. call' = [call EXCEPT ![d] = "out"]
    BY <1>2, ReplyEffect DEF Replied
  <2>2. call'[c] \in {"out", call[c]}
    BY <2>1 DEF LInv, LTypes, PoolTypeOK
  <2> QED
    BY <1>1, <2>2
<1>3. ASSUME NEW d \in Caller, NEW u \in Client, Close(d, u)
      PROVE  c = d /\ t = u
  <2>1. /\ call' = [call EXCEPT ![d] = "closing"]
        /\ arg' = [arg EXCEPT ![d] = u]
    BY <1>3, CloseEffect DEF CloseCalled
  <2>2. c = d
    BY <1>1, <2>1 DEF LInv, LTypes, PoolTypeOK
  <2> QED
    BY <1>1, <2>1, <2>2 DEF LInv, LTypes, PoolTypeOK
<1>4. ASSUME NEW d \in Caller, CallCreate(d) \/ CallStopIfIdle(d) PROVE FALSE
  BY <1>1, <1>4 DEF CallCreate, CallStopIfIdle, LInv, LTypes, PoolTypeOK
<1>5. ASSUME NEW d \in Caller, CallStep(d) PROVE FALSE
  BY <1>1, <1>5, CallStepFrame
  DEF CallFrame, LInv, LTypes, Pending, CreatePhase, ClosePhase
<1>6. ASSUME NEW i \in Task, TimerStep(i) PROVE FALSE
  BY <1>1, <1>6, TimerStepFrame DEF LInv, LTypes
<1>7. ~ UNCHANGED poolVars
  BY <1>1 DEF poolVars
<1>8. ASSUME NEW d \in Client, CreateStep(d) \/ FetchStep(d)
      PROVE  c = t
  BY <1>2, <1>3, <1>7, <1>8
  DEF CreateStep, FetchStep, CreateRaised, Opened, AttachRecorder, Navigated,
      CreateFails, Undo, CreateFailed, CreateReplies, FetchReads, FetchLost,
      FetchCloses, FetchReplies
<1>9. ASSUME NEW d \in Client, Create(d) \/ Reset(d) \/ Deleted(d) \/ ResetReplies(d)
      PROVE  FALSE
  BY <1>2, <1>4, <1>9 DEF Create, Reset, Deleted, ResetReplies
<1>10. ASSUME NEW d \in Client, Delete(d) PROVE t \in registry
  BY <1>3, <1>10 DEF Delete, LInv, LTypes, LifeTypeOK
<1>11. CASE SweeperStep
  BY <1>2, <1>3, <1>11 DEF SweeperStep, SweepBegins, SweepNext, SweepEnds, SweepTab,
     First, LInv, LTypes, LifeTypeOK
<1>12. ASSUME NEW u \in Client, Touch(u) \/ Expire(u) PROVE FALSE
  BY <1>7, <1>12 DEF Touch, Expire
<1> QED
  BY <1>5, <1>6, <1>8, <1>9, <1>10, <1>11, <1>12 DEF LifeNext, HandlerStep

\* DELETE and the sweeper never close a context that is closed already.
THEOREM OthersCloseOnce == LifeSafe => OnlyOwnerClosesTwice
<1>1. LInv /\ [LifeNext]_vars =>
        [\A c \in Caller : \A t \in Client :
           CallClose(c, t) /\ AlreadyClosed(t) => c = t]_vars
  <2> SUFFICES ASSUME LInv, LifeNext, NEW c \in Caller, NEW t \in Client,
                      CallClose(c, t), AlreadyClosed(t)
               PROVE  c = t
    OBVIOUS
  <2>1. t \notin registry
    BY DEF LInv, RegistryInv, AlreadyClosed
  <2> QED
    BY <2>1, CloseCaller
<1> QED
  BY <1>1, LInvHolds, PTL DEF LifeSafe, OnlyOwnerClosesTwice

\* A step after which nothing was closed twice is a step of the pool alone,
\* where each context is closed once.
LEMMA StepOfThePool ==
  ASSUME LInv, [LifeNext]_vars, IInv, twice = FALSE, twice' = FALSE
  PROVE  [PoolNext]_poolVars
<1> USE Clients
<1>1. ASSUME NEW c \in Caller, NEW t \in Client, Close(c, t),
             t \in registry \/ call[t] = "created"
      PROVE  CloseOnce(c)
  <2>1. ctx[t] \notin {"closing", "none", "lost"}
    BY <1>1 DEF Close, AlreadyClosed, LInv, LTypes, IInv, NoTabLost
  <2>2. ctx[t] # "opening"
    BY <1>1 DEF LInv, RegistryInv, CtxInv
  <2>3. ctx[t] \in HeldState \cup {"none", "lost"}
    BY DEF LInv, LTypes, PoolTypeOK
  <2>4. ctx[t] = "open"
    BY <2>1, <2>2, <2>3 DEF HeldState
  <2> QED
    BY <1>1, <2>4 DEF Close, CloseOnce
<1> USE DEF PoolNext
<1>2. ASSUME NEW c \in Caller, Reply(c) PROVE PoolNext
  BY <1>2 DEF Reply
<1>3. ASSUME NEW c \in Client, CreateStep(c) PROVE [PoolNext]_poolVars
  <2>1. CASE Undo(c)
    BY <1>1, <2>1 DEF Undo, LInv, CallInv, OwnTab
  <2> QED
    BY <1>2, <1>3, <2>1 DEF CreateStep, CreateRaised, Opened, AttachRecorder,
       Navigated, CreateFails, CreateFailed, CreateReplies
<1>4. ASSUME NEW c \in Client, FetchStep(c) PROVE [PoolNext]_poolVars
  <2>1. CASE FetchCloses(c)
    BY <1>1, <2>1 DEF FetchCloses, LInv, CallInv, OwnTab
  <2> QED
    BY <1>2, <1>4, <2>1 DEF FetchStep, FetchReads, FetchLost, FetchReplies
<1>5. ASSUME NEW c \in Client, Delete(c) PROVE PoolNext
  BY <1>1, <1>5 DEF Delete, LInv, LTypes, LifeTypeOK
<1>6. ASSUME NEW c \in Client, Create(c) \/ Reset(c) \/ Deleted(c) \/ ResetReplies(c)
      PROVE  PoolNext
  BY <1>2, <1>6 DEF Create, Reset, Deleted, ResetReplies
<1>7. CASE SweeperStep
  BY <1>1, <1>2, <1>7 DEF SweeperStep, SweepBegins, SweepNext, SweepEnds, SweepTab,
     First, LInv, LTypes, LifeTypeOK
<1>8. ASSUME NEW t \in Client, Touch(t) \/ Expire(t) PROVE UNCHANGED poolVars
  BY <1>8 DEF Touch, Expire
<1>9. CASE UNCHANGED vars
  BY <1>9 DEF vars
<1> QED
  BY <1>3, <1>4, <1>5, <1>6, <1>7, <1>8, <1>9 DEF LifeNext, HandlerStep

LEMMA TwiceForGood == LInv /\ [LifeNext]_vars => (twice => twice')
<1> USE Clients
<1> SUFFICES ASSUME LInv, [LifeNext]_vars, twice PROVE twice'
  OBVIOUS
<1>1. twice' = twice \/ \E c \in Caller, t \in Client : Close(c, t)
  BY DEF LifeNext, HandlerStep, CreateStep, FetchStep, SweeperStep, vars, tabVars,
     Create, Delete, Reset, CreateRaised, Opened, AttachRecorder, Navigated,
     CreateFails, Undo, CreateFailed, CreateReplies, FetchReads, FetchLost,
     FetchCloses, FetchReplies, Deleted, ResetReplies, SweepBegins, SweepNext,
     SweepEnds, SweepTab, Touch, Expire, LInv, LTypes, LifeTypeOK
<1> QED
  BY <1>1 DEF Close

\* The invariant of the pool holds until then.
LEMMA PoolUntilTwice == LifeSafe => []PoolUnlessTwice
<1>1. LifeInit => PoolUnlessTwice
  BY InductiveInit DEF LifeInit, PoolUnlessTwice
<1>2. LInv /\ LInv' /\ PoolUnlessTwice /\ [LifeNext]_vars => PoolUnlessTwice'
  <2> SUFFICES ASSUME LInv, LInv', PoolUnlessTwice, [LifeNext]_vars, ~twice'
               PROVE  IInv'
    BY DEF PoolUnlessTwice
  <2>1. twice = FALSE /\ twice' = FALSE
    BY TwiceForGood DEF LInv, LTypes, LifeTypeOK
  <2>2. IInv
    BY <2>1 DEF PoolUnlessTwice
  <2> QED
    BY <2>1, <2>2, StepOfThePool, InductiveStep
<1> QED
  BY <1>1, <1>2, LInvHolds, PTL DEF LifeSafe

\* The count covers the contexts, and no stop takes Chromium from one, until
\* a context has been closed twice.
THEOREM CountedUntilTwice == LifeSafe => []CountedUnlessTwice
<1>1. PoolUnlessTwice => CountedUnlessTwice
  BY DEF PoolUnlessTwice, CountedUnlessTwice, IInv, Counted
<1> QED
  BY <1>1, PoolUntilTwice, PTL

\* As long as no context is closed twice, the handlers and the pool together
\* implement the lease: no stop takes Chromium from a tab that is open.
THEOREM LeaseUntilTwice == LifeSafe /\ [](~twice) => ImplementsLease
<1>1. LifeInit => PoolInit
  BY DEF LifeInit
<1>2. LInv /\ PoolUnlessTwice /\ ~twice /\ (~twice)' /\ [LifeNext]_vars
        => [PoolNext]_poolVars
  <2> SUFFICES ASSUME LInv, PoolUnlessTwice, ~twice, ~twice', [LifeNext]_vars
               PROVE  [PoolNext]_poolVars
    OBVIOUS
  <2>1. IInv
    BY DEF PoolUnlessTwice
  <2>2. twice \in BOOLEAN /\ twice' \in BOOLEAN
    BY LInvStep DEF LInv, LTypes, LifeTypeOK
  <2> QED
    BY <2>1, <2>2, StepOfThePool
<1>3. LifeSafe /\ [](~twice) => PoolSafe
  BY <1>1, <1>2, LInvHolds, PoolUntilTwice, PTL DEF LifeSafe, PoolSafe
<1> QED
  BY <1>3, PoolImplementsLease, PTL

\* Whatever a handler does, it does to the pool what the pool offers.
LEMMA PoolPart == LInv /\ [LifeNext]_vars => PoolStep \/ UNCHANGED poolVars
<1> USE Clients
<1> SUFFICES ASSUME LInv, [LifeNext]_vars PROVE PoolStep \/ UNCHANGED poolVars
  OBVIOUS
<1> USE DEF PoolStep
<1>1. ASSUME NEW c \in Caller, Reply(c) PROVE PoolStep
  BY <1>1 DEF Reply
<1>2. ASSUME NEW c \in Caller, NEW t \in Client, Close(c, t) PROVE PoolStep
  BY <1>2 DEF Close
<1>3. ASSUME NEW c \in Client, CreateStep(c) \/ FetchStep(c)
      PROVE  PoolStep \/ UNCHANGED poolVars
  BY <1>1, <1>2, <1>3 DEF CreateStep, FetchStep, CreateRaised, Opened,
     AttachRecorder, Navigated, CreateFails, Undo, CreateFailed, CreateReplies,
     FetchReads, FetchLost, FetchCloses, FetchReplies
<1>4. ASSUME NEW c \in Client,
             Create(c) \/ Delete(c) \/ Reset(c) \/ Deleted(c) \/ ResetReplies(c)
      PROVE  PoolStep
  BY <1>1, <1>2, <1>4 DEF Create, Delete, Reset, Deleted, ResetReplies, LInv,
     LTypes, LifeTypeOK
<1>5. CASE SweeperStep
  BY <1>1, <1>2, <1>5 DEF SweeperStep, SweepBegins, SweepNext, SweepEnds,
     SweepTab
<1>6. ASSUME NEW t \in Client, Touch(t) \/ Expire(t) PROVE UNCHANGED poolVars
  BY <1>6 DEF Touch, Expire
<1>7. CASE UNCHANGED vars
  BY <1>7 DEF vars
<1> QED
  BY <1>3, <1>4, <1>5, <1>6, <1>7 DEF LifeNext, HandlerStep

\* With the idle shutdown off, no handler but DELETE /browser, which asks the
\* pool for it, takes Chromium down, also when contexts are closed twice.
THEOREM LifeUpUntilAsked == LifeSafe => StaysUp
<1>1. LifeInit => NoTimer
  BY DEF LifeInit, PoolInit, NoTimer
<1>2. LInv /\ NoTimer /\ [LifeNext]_vars =>
        /\ NoTimer'
        /\ [~IdleShutdown /\ running /\ ~running'
              => halted' \/ \E c \in Caller : StopIdle(c)]_poolVars
  BY PoolPart, StopOnDemand
<1> QED
  BY <1>1, <1>2, LInvHolds, PTL DEF LifeSafe, StaysUp

----------------------------------------------------------------------------
(* What a request leaves.                                                  *)

\* When fetch, or a create that failed, replies, nothing of its tab is left.
THEOREM LeavesNothing == LifeSafe => NothingLeftBehind
<1>1. LInv /\ LInv' /\ [LifeNext]_vars =>
        [\A c \in Client :
           pc[c] \in {"dropping", "fetchClosing", "fetchLost"} /\ pc'[c] = "idle"
             => c \notin registry' \cup dirs' \cup modes' /\ ctx'[c] # "open"]_vars
  <2> SUFFICES ASSUME LInv, LInv', LifeNext, NEW c \in Client,
                      pc[c] \in {"dropping", "fetchClosing", "fetchLost"},
                      pc'[c] = "idle"
               PROVE  c \notin registry' \cup dirs' \cup modes' /\ ctx'[c] # "open"
    OBVIOUS
  <2> USE Clients DEF Goto, Reply
  <2>1. pc' # pc /\ pc \in [Caller -> {pc[d] : d \in Caller}]
    BY DEF LInv, LTypes, LifeTypeOK
  <2>2. CreateFailed(c) \/ FetchReplies(c) \/ FetchLost(c)
    <3>1. ASSUME NEW d \in Client, CreateStep(d) \/ FetchStep(d)
          PROVE  d = c /\ (CreateFailed(c) \/ FetchReplies(c) \/ FetchLost(c))
      BY <2>1, <3>1 DEF CreateStep, FetchStep, CreateRaised, Opened, AttachRecorder,
         Navigated, CreateFails, Undo, CreateFailed, CreateReplies, FetchReads,
         FetchLost, FetchCloses, FetchReplies
    <3>2. ASSUME NEW d \in Client,
                 Create(d) \/ Reset(d) \/ Delete(d) \/ Deleted(d) \/ ResetReplies(d)
          PROVE  FALSE
      BY <2>1, <3>2 DEF Create, Reset, Delete, Deleted, ResetReplies
    <3>3. ASSUME SweeperStep PROVE FALSE
      BY <2>1, <3>3 DEF SweeperStep, SweepBegins, SweepNext, SweepEnds
    <3> QED
      BY <2>1, <3>1, <3>2, <3>3 DEF LifeNext, HandlerStep, Touch, Expire, tabVars
  <2>3. c \notin registry' \cup dirs' \cup modes'
    <3>1. pc[c] \in {"dropping", "fetchClosing"} => arg[c] = c /\ c \notin registry
      BY DEF LInv, ArgInv, RegistryInv, Closing
    <3>2. CASE CreateFailed(c)
      BY <3>1, <3>2 DEF CreateFailed, records, LInv, UndoneInv
    <3>3. CASE FetchReplies(c)
      BY <3>1, <3>3 DEF FetchReplies, records, Detach
    <3>4. CASE FetchLost(c)
      BY <3>4 DEF FetchLost, records, Detach, LInv, RegistryInv
    <3> QED
      BY <2>2, <3>2, <3>3, <3>4
  <2>4. ctx'[c] # "open"
    BY <2>3 DEF LInv, OpenTabReachable
  <2> QED
    BY <2>3, <2>4
<1> QED
  BY <1>1, LInvHolds, PTL DEF LifeSafe, NothingLeftBehind

=============================================================================
