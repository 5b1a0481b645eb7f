---------------------------- MODULE TabLifecycle ----------------------------
(***************************************************************************)
(* The handlers of app.py that create, close and sweep tabs, over the pool *)
(* of BrowserPool and the TabRegistry: POST /tabs, POST /fetch, DELETE     *)
(* /tabs/{id}, DELETE /browser and the idle sweeper, interleaved at every  *)
(* await.  A client is one HTTP request after the other; a tab (its id and *)
(* its context) is named after the client whose request created it, and    *)
(* the name is used again once nothing refers to the tab.  Early replies   *)
(* that change nothing (401, 404, 429, 409 on a tracked tab) are stutters. *)
(***************************************************************************)
EXTENDS BrowserPool

CONSTANTS
  Sweeper,       \* the sweeper task
  MaxTabs,       \* cfg.max_tabs
  Methods        \* the requests the clients of this instance send

ASSUME LifeAssumption ==
  /\ Sweeper \in Caller
  /\ MaxTabs \in Nat
  /\ Methods \subseteq {"create", "fetch", "delete", "reset"}

Client == Caller \ {Sweeper}

VARIABLES
  pc,            \* where each handler stands
  oneShot,       \* the clients whose create_tab runs for POST /fetch
  registry,      \* the ids in TabRegistry._records
  older,         \* the order of the dict: pairs <<t, u>>, t registered first
  expired,       \* of these, the ones with now - last_used_at > ttl_seconds
  dirs,          \* ids with a download directory (DownloadCoordinator)
  modes,         \* ids with a capture mode (ResourceRecorder)
  sweepList,     \* what is left of the idle_ids() the sweep iterates over
  twice          \* history: close_context was called on a closed context

records == <<registry, older, expired>>
tabVars == <<pc, oneShot, records, dirs, modes, sweepList, twice>>
vars == <<poolVars, tabVars>>

LifeInit ==
  /\ PoolInit
  /\ pc = [c \in Caller |-> "idle"]
  /\ oneShot = {}
  /\ registry = {}
  /\ older = {}
  /\ expired = {}
  /\ dirs = {}
  /\ modes = {}
  /\ sweepList = {}
  /\ twice = FALSE

\* A command to a tab is answered while Chromium has the tab; after that it
\* raises.
Alive(t) == ctx[t] \in HeldState

Goto(c, where) == pc' = [pc EXCEPT ![c] = where]

\* The handler replies; it has taken the pool's result.
Reply(c) ==
  /\ Goto(c, "idle")
  /\ oneShot' = oneShot \ {c}
  /\ Return(c)

Register(t) ==
  /\ registry' = registry \cup {t}
  /\ older' = older \cup (registry \X {t})
  /\ UNCHANGED expired

\* Faults: only the dict entry goes; the record is looked up, not popped.
Unregister_EntryOnly(t) ==
  registry' = registry \ {t} /\ UNCHANGED <<older, expired>>

Unregister_Get(t) == UNCHANGED records

Unregister(t) ==
  /\ registry' = registry \ {t}
  /\ older' = {p \in older : t \notin {p[1], p[2]}}
  /\ expired' = expired \ {t}

\* t is the first of tabs in the order of the dict.
First(t, tabs) == t \in tabs /\ \A u \in tabs \ {t} : <<t, u>> \in older

\* Fault: the recorder is forgotten.
Detach_DirOnly(t) == dirs' = dirs \ {t} /\ UNCHANGED modes

\* coord.detach_tab and recorder.detach_tab
Detach(t) ==
  /\ dirs' = dirs \ {t}
  /\ modes' = modes \ {t}

AlreadyClosed(t) == ctx[t] \in {"closing", "none"}

Close(c, t) ==
  /\ CallClose(c, t)
  /\ twice' = (twice \/ AlreadyClosed(t))

----------------------------------------------------------------------------
(* create_tab                                                              *)

Unused(c) ==
  /\ c \notin registry \cup dirs \cup modes \cup sweepList
  /\ \A d \in Caller : arg[d] # c

Create(c) ==
  /\ pc[c] = "idle"
  /\ Unused(c)
  /\ Cardinality(registry) < MaxTabs
  /\ CallCreate(c)
  /\ Goto(c, "creating")
  /\ \E m \in Methods \cap {"create", "fetch"} :
       oneShot' = IF m = "fetch" THEN oneShot \cup {c} ELSE oneShot
  /\ UNCHANGED <<records, dirs, modes, sweepList, twice>>

\* create_context raised: there is no tab to undo.
CreateRaised(c) ==
  /\ pc[c] = "creating"
  /\ call[c] = "createRaised"
  /\ Reply(c)
  /\ UNCHANGED <<records, dirs, modes, sweepList, twice>>

\* register, then coord.attach_tab up to its first await.
Opened(c) ==
  /\ pc[c] = "creating"
  /\ call[c] = "created"
  /\ Register(c)
  /\ dirs' = dirs \cup {c}
  /\ Goto(c, "attaching")
  /\ UNCHANGED <<poolVars, oneShot, modes, sweepList, twice>>

\* The rest of coord.attach_tab, then recorder.attach_tab.
AttachRecorder(c) ==
  /\ pc[c] = "attaching"
  /\ Alive(c)
  /\ modes' = modes \cup {c}
  /\ Goto(c, "navigating")
  /\ UNCHANGED <<poolVars, oneShot, records, dirs, sweepList, twice>>

\* NavCapture, cookies, Page.navigate; what follows sends nothing more.
Navigated(c) ==
  /\ pc[c] = "navigating"
  /\ Alive(c)
  /\ Goto(c, "waiting")
  /\ UNCHANGED <<poolVars, oneShot, records, dirs, modes, sweepList, twice>>

\* A command raised, or no response was captured.
CreateFails(c) ==
  /\ pc[c] \in {"attaching", "navigating", "waiting"}
  /\ Unregister(c)
  /\ Goto(c, "undoing")
  /\ UNCHANGED <<poolVars, oneShot, dirs, modes, sweepList, twice>>

\* Fault: the error path does not close the tab.
Undo_NoClose(c) ==
  /\ pc[c] = "undoing"
  /\ Detach(c)
  /\ Reply(c)
  /\ UNCHANGED <<records, sweepList, twice>>

Undo(c) ==
  /\ pc[c] = "undoing"
  /\ Detach(c)
  /\ Close(c, c)
  /\ Goto(c, "dropping")
  /\ UNCHANGED <<oneShot, records, sweepList>>

CreateFailed(c) ==
  /\ pc[c] = "dropping"
  /\ call[c] \in {"closed", "closeRaised"}
  /\ Reply(c)
  /\ UNCHANGED <<records, dirs, modes, sweepList, twice>>

CreateReplies(c) ==
  /\ pc[c] = "waiting"
  /\ c \notin oneShot
  /\ Reply(c)
  /\ UNCHANGED <<records, dirs, modes, sweepList, twice>>

----------------------------------------------------------------------------
(* fetch, after its create_tab                                             *)

FetchReads(c) ==
  /\ pc[c] = "waiting"
  /\ c \in oneShot
  /\ Goto(c, IF c \in registry THEN "reading" ELSE "fetchLost")
  /\ UNCHANGED <<poolVars, oneShot, records, dirs, modes, sweepList, twice>>

\* registry.get gave None: rec.lock raises, and so does rec.tab in the
\* finally block, before close_context is called.
FetchLost(c) ==
  /\ pc[c] = "fetchLost"
  /\ Detach(c)
  /\ Reply(c)
  /\ UNCHANGED <<records, sweepList, twice>>

\* Fault: fetch closes its tab and leaves the record.
FetchCloses_KeepsRecord(c) ==
  /\ pc[c] = "reading"
  /\ Close(c, c)
  /\ Goto(c, "fetchClosing")
  /\ UNCHANGED <<oneShot, records, dirs, modes, sweepList>>

\* get_content returns or raises; what remove returns is not looked at.
FetchCloses(c) ==
  /\ pc[c] = "reading"
  /\ Unregister(c)
  /\ Close(c, c)
  /\ Goto(c, "fetchClosing")
  /\ UNCHANGED <<oneShot, dirs, modes, sweepList>>

FetchReplies(c) ==
  /\ pc[c] = "fetchClosing"
  /\ call[c] \in {"closed", "closeRaised"}
  /\ Detach(c)
  /\ Reply(c)
  /\ UNCHANGED <<records, sweepList, twice>>

----------------------------------------------------------------------------
(* delete_tab, delete_browser                                              *)

Delete(c) ==
  /\ "delete" \in Methods
  /\ pc[c] = "idle"
  /\ \E t \in registry : Unregister(t) /\ Close(c, t)
  /\ Goto(c, "deleting")
  /\ UNCHANGED <<oneShot, dirs, modes, sweepList>>

Deleted(c) ==
  /\ pc[c] = "deleting"
  /\ call[c] \in {"closed", "closeRaised"}
  /\ Detach(arg[c])
  /\ Reply(c)
  /\ UNCHANGED <<records, sweepList, twice>>

Reset(c) ==
  /\ "reset" \in Methods
  /\ pc[c] = "idle"
  /\ registry = {}
  /\ CallStopIfIdle(c)
  /\ Goto(c, "resetting")
  /\ UNCHANGED <<oneShot, records, dirs, modes, sweepList, twice>>

ResetReplies(c) ==
  /\ pc[c] = "resetting"
  /\ call[c] \in {"stopped", "wasDown", "refused"}
  /\ Reply(c)
  /\ UNCHANGED <<records, dirs, modes, sweepList, twice>>

----------------------------------------------------------------------------
(* The sweeper, and the clock against last_used_at                         *)

SweepTab(t) ==
  /\ Unregister(t)
  /\ Close(Sweeper, t)

\* idle_ids() and the first removal, with no await between them.
SweepBegins ==
  /\ pc[Sweeper] = "idle"
  /\ \E t \in Client :
       /\ First(t, expired)
       /\ SweepTab(t)
       /\ sweepList' = expired \ {t}
  /\ Goto(Sweeper, "sweeping")
  /\ UNCHANGED <<oneShot, dirs, modes>>

\* The next id of the snapshot that is still registered.
SweepNext ==
  /\ pc[Sweeper] = "sweeping"
  /\ call[Sweeper] = "closed"
  /\ Detach(arg[Sweeper])
  /\ \E t \in Client :
       /\ First(t, sweepList \cap registry)
       /\ SweepTab(t)
       /\ sweepList' = sweepList \ {t}
  /\ UNCHANGED <<pc, oneShot>>

\* Fault: an exception of close_context ends the sweeper task.
SweepEnds_NoExcept ==
  /\ pc[Sweeper] = "sweeping"
  /\ call[Sweeper] = "closed"
  /\ sweepList \cap registry = {}
  /\ Detach(arg[Sweeper])
  /\ sweepList' = {}
  /\ Reply(Sweeper)
  /\ UNCHANGED <<records, twice>>

\* The snapshot is used up, or close_context raised and the rest of it is
\* left to the next pass.
SweepEnds ==
  /\ pc[Sweeper] = "sweeping"
  /\ \/ call[Sweeper] = "closed" /\ sweepList \cap registry = {}
     \/ call[Sweeper] = "closeRaised"
  /\ Detach(arg[Sweeper])
  /\ sweepList' = {}
  /\ Reply(Sweeper)
  /\ UNCHANGED <<records, twice>>

\* Any request that names the tab.
Touch(t) ==
  /\ t \in expired
  /\ expired' = expired \ {t}
  /\ UNCHANGED <<poolVars, pc, oneShot, registry, older, dirs, modes, sweepList, twice>>

Expire(t) ==
  /\ t \in registry \ expired
  /\ expired' = expired \cup {t}
  /\ UNCHANGED <<poolVars, pc, oneShot, registry, older, dirs, modes, sweepList, twice>>

----------------------------------------------------------------------------
CreateStep(c) ==
  \/ CreateRaised(c) \/ Opened(c)
  \/ AttachRecorder(c) \/ Navigated(c) \/ CreateFails(c)
  \/ Undo(c) \/ CreateFailed(c) \/ CreateReplies(c)

FetchStep(c) ==
  FetchReads(c) \/ FetchLost(c) \/ FetchCloses(c) \/ FetchReplies(c)

HandlerStep(c) ==
  CreateStep(c) \/ FetchStep(c) \/ Deleted(c) \/ ResetReplies(c)

SweeperStep == SweepBegins \/ SweepNext \/ SweepEnds

LifeNext ==
  \/ \E c \in Client : Create(c) \/ Delete(c) \/ Reset(c) \/ HandlerStep(c)
  \/ SweeperStep
  \/ \E t \in Client : Touch(t) \/ Expire(t)
  \/ \E c \in Caller : CallStep(c) /\ UNCHANGED tabVars
  \/ \E t \in Task : TimerStep(t) /\ UNCHANGED tabVars

LifeSafe == LifeInit /\ [][LifeNext]_vars

\* The event loop runs every handler that can go on, and wakes the sweeper.
LifeSpec ==
  /\ LifeSafe
  /\ \A c \in Caller : CallFairness(c)
  /\ \A t \in Task : TimerFairness(t)
  /\ \A c \in Client : WF_vars(HandlerStep(c))
  /\ WF_vars(SweeperStep)

----------------------------------------------------------------------------
(* Properties                                                              *)

\* Every variable of the handlers stays in its range; only registered tabs
\* expire.
LifeTypeOK ==
  /\ pc \in [Caller -> {"idle", "creating", "attaching", "navigating",
                        "waiting", "undoing", "dropping", "reading",
                        "fetchLost", "fetchClosing", "deleting",
                        "resetting", "sweeping"}]
  /\ oneShot \subseteq Client
  /\ registry \subseteq Client
  /\ older \subseteq registry \X registry
  /\ expired \subseteq registry
  /\ dirs \subseteq Client
  /\ modes \subseteq Client
  /\ sweepList \subseteq Client
  /\ twice \in BOOLEAN

\* No tab is left open in Chromium out of everybody's reach: it is in the
\* registry, where DELETE and the sweeper find it, or its own handler is
\* about to register it or to close it.
OpenTabReachable ==
  \A t \in Client :
    ctx[t] = "open" => t \in registry \/ pc[t] \in {"creating", "undoing"}

\* Directory and capture mode of a tab never outlive it for good: the tab is
\* registered, or a handler that still has to detach it is at work.
ResidueOwned ==
  \A t \in dirs \cup modes :
    \/ t \in registry
    \/ pc[t] \in {"undoing", "fetchLost", "fetchClosing"}
    \/ \E c \in Caller : pc[c] \in {"deleting", "sweeping"} /\ arg[c] = t

\* The count that decides when Chromium is stopped covers the contexts, and
\* no context loses Chromium, as long as no handler has closed a context a
\* second time: that is the only way to lose count.
CountedUnlessTwice == twice \/ (ActiveCoversHeld /\ NoTabLost)

\* DELETE and the sweeper take a tab out of the registry before they close
\* it, so only the tab's own request (the finally block of fetch, the except
\* block of create_tab) ever closes a context that is closed already.
OnlyOwnerClosesTwice ==
  [][\A c \in Caller : \A t \in Client :
       CallClose(c, t) /\ AlreadyClosed(t) => c = t]_vars

\* "One-shot: open tab, fetch HTML, close tab": when fetch replies, or a
\* create that failed after opening its tab, nothing of the tab is left.
NothingLeftBehind ==
  [][\A c \in Client :
       pc[c] \in {"dropping", "fetchClosing", "fetchLost"} /\ pc'[c] = "idle"
         => c \notin registry' \cup dirs' \cup modes' /\ ctx'[c] # "open"]_vars

\* Every request is answered, also when Chromium or a close fails.
RequestsAnswered ==
  \A c \in Client : (pc[c] # "idle") ~> (pc[c] = "idle")

\* An idle tab is closed, or used again, also when closing another raises.
IdleTabGoes == \A t \in Client : (t \in expired) ~> (t \notin expired)

\* A tab that is in the registry has its Chromium: the process is shut down
\* after "seconds with no open tabs" (README, IDLE_CHROME_SHUTDOWN_SECONDS).
RegisteredTabKept == \A t \in registry : ctx[t] # "lost"

=============================================================================
