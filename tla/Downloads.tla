----------------------------- MODULE Downloads ------------------------------
(***************************************************************************)
(* DownloadCoordinator of downloads.py and the routes of app.py on it: the *)
(* handlers of Fetch.requestPaused, Browser.downloadWillBegin and          *)
(* downloadProgress, POST .../cancel, DELETE .../downloads/{did}, and the  *)
(* end of a tab.  Chromium sends each tab its events in order; those sent  *)
(* to different tabs have no order among them.  In isolated mode a tab     *)
(* hears of the downloads of its own browser context; in shared mode,      *)
(* where the download behaviour is set browser-wide, of everybody's.       *)
(***************************************************************************)
EXTENDS FiniteSets

CONSTANTS
  Tab,           \* tab ids
  Guid,          \* download guids
  Client,        \* HTTP requests
  Nobody         \* no tab, guid or client

ASSUME DownloadAssumption ==
  /\ Tab # {} /\ Guid # {}
  /\ Nobody \notin Tab \cup Guid \cup Client

VARIABLES
  shared,        \* cfg.shared_profile: set at the start, for good
  chrome,        \* Chromium: how far a download has come
  by,            \* Chromium: the tab that began it
  file,          \* the guids with a file on disk
  begun,         \* <<t, g>>: downloadWillBegin of g was delivered to t
  ended,         \* <<t, g>>: so was the last downloadProgress
  phase,         \* the life of a tab
  records,       \* <<t, g>>: g is in rec.downloads of t
  state,         \* DownloadRecord.state
  content_type,  \* DownloadRecord.content_type, named by the guid it is of
  lookup,        \* _tab_lookup
  pendingType,   \* _pending_content_type, named likewise
  lock,          \* the holder of a tab's rec.lock
  running,       \* the handler that found rec.lock free and goes on at once
  at,            \* where a handler stands
  target,        \* the download it is about
  deleted        \* history: <<t, g>> was deleted, and its cancel did not fail

chromium == <<shared, chrome, by>>
delivery == <<begun, ended>>
kept == <<records, state, content_type, lookup, pendingType>>
handlers == <<lock, running, at, target, deleted>>
vars == <<chromium, file, delivery, phase, kept, handlers>>

Pair == Tab \X Guid
Terminal == {"completed", "canceled"}
Registered(t) == phase[t] = "open"

DownInit ==
  /\ shared \in BOOLEAN
  /\ chrome = [g \in Guid |-> "none"]
  /\ by = [g \in Guid |-> Nobody]
  /\ file = {}
  /\ begun = {}
  /\ ended = {}
  /\ phase = [t \in Tab |-> "open"]
  /\ records = {}
  /\ state = [p \in Pair |-> "in_progress"]
  /\ content_type = [p \in Pair |-> Nobody]
  /\ lookup = [g \in Guid |-> Nobody]
  /\ pendingType = [t \in Tab |-> Nobody]
  /\ lock = [t \in Tab |-> Nobody]
  /\ running = Nobody
  /\ at = [x \in Client |-> "idle"]
  /\ target = [x \in Client |-> CHOOSE p \in Pair : TRUE]
  /\ deleted = {}

----------------------------------------------------------------------------
(* Chromium and the handlers of its events                                 *)

\* A navigation's non-HTML answer is paused: _on_request_paused notes its
\* type and lets it go on as an attachment.
Paused(t, g) ==
  /\ chrome[g] = "none"
  /\ phase[t] \in {"open", "removed"}
  /\ chrome' = [chrome EXCEPT ![g] = "offered"]
  /\ by' = [by EXCEPT ![g] = t]
  /\ pendingType' = [pendingType EXCEPT ![t] = g]
  /\ UNCHANGED <<shared, file, delivery, phase, records, state, content_type,
                 lookup, handlers>>

\* A download of no Document response, such as a blob's, is never paused.
Unpaused(t, g) ==
  /\ chrome[g] = "none"
  /\ phase[t] \in {"open", "removed"}
  /\ chrome' = [chrome EXCEPT ![g] = "offered"]
  /\ by' = [by EXCEPT ![g] = t]
  /\ UNCHANGED <<shared, file, delivery, phase, kept, handlers>>

\* Chromium begins, completes or ends a download; nothing need come of an
\* answer.
ChromeStep(g, from, to) ==
  /\ chrome[g] = from
  /\ chrome' = [chrome EXCEPT ![g] = to]
  /\ file' = IF to \in {"running", "completed"} THEN file \cup {g}
             ELSE file \ {g}
  /\ UNCHANGED <<shared, by, delivery, phase, kept, handlers>>

Begins(g) == ChromeStep(g, "offered", "running")
Withdrawn(g) == ChromeStep(g, "offered", "dropped")
Completes(g) == ChromeStep(g, "running", "completed")
Fails(g) == ChromeStep(g, "running", "canceled")

Hears(t, g) == shared \/ by[g] = t

\* Fault: the tab of a guid is noted in shared mode only.
Route_Shared(t, g) ==
  lookup' = IF shared THEN [lookup EXCEPT ![g] = t] ELSE lookup

Route(t, g) == lookup' = [lookup EXCEPT ![g] = t]

\* Fault: the type stays for the next download.
PendingTaken_Kept(t) == pendingType

\* _pending_content_type.pop
PendingTaken(t) == [pendingType EXCEPT ![t] = Nobody]

\* Fault: a tab that is no longer registered is told as well.
Heeds_Always(t) == TRUE

\* registry.get(tab_id)
Heeds(t) == Registered(t)

\* _on_will_begin
WillBegin(t, g) ==
  /\ chrome[g] \in {"running"} \cup Terminal
  /\ Hears(t, g)
  /\ <<t, g>> \notin begun
  /\ begun' = begun \cup {<<t, g>>}
  /\ IF Heeds(t)
     THEN /\ records' = records \cup {<<t, g>>}
          /\ state' = [state EXCEPT ![<<t, g>>] = "in_progress"]
          /\ content_type' = [content_type EXCEPT ![<<t, g>>] = pendingType[t]]
          /\ pendingType' = PendingTaken(t)
          /\ Route(t, g)
     ELSE UNCHANGED kept
  /\ UNCHANGED <<chromium, file, ended, phase, handlers>>

\* Fault: whatever is not in progress is taken for completed.
OnProgress_Done(g, s) ==
  state' = IF \E t \in Tab : lookup[g] = t /\ Registered(t)
                               /\ <<t, g>> \in records
           THEN [state EXCEPT ![<<lookup[g], g>>] =
                   IF s = "in_progress" THEN s ELSE "completed"]
           ELSE state

\* _on_progress: whichever tab heard, the record is found by the guid.
OnProgress(g, s) ==
  state' = IF \E t \in Tab : lookup[g] = t /\ Registered(t)
                               /\ <<t, g>> \in records
           THEN [state EXCEPT ![<<lookup[g], g>>] = s]
           ELSE state

Progress(t, g) ==
  /\ <<t, g>> \in begun \ ended
  /\ \/ OnProgress(g, "in_progress") /\ UNCHANGED ended
     \/ /\ chrome[g] \in Terminal
        /\ OnProgress(g, chrome[g])
        /\ ended' = ended \cup {<<t, g>>}
  /\ UNCHANGED <<chromium, file, begun, phase, records, content_type, lookup,
                 pendingType, handlers>>

----------------------------------------------------------------------------
(* The end of a tab: registry.remove, close_context, coord.detach_tab      *)

Remove(t) ==
  /\ phase[t] = "open"
  /\ phase' = [phase EXCEPT ![t] = "removed"]
  /\ UNCHANGED <<chromium, file, delivery, kept, handlers>>

\* The end of its browser context ends the downloads of an isolated tab; in
\* shared mode the context goes on.
EndOf(c) ==
  CASE c = "offered" -> "dropped" [] c = "running" -> "canceled" [] OTHER -> c

CloseContext(t) ==
  /\ phase[t] = "removed"
  /\ phase' = [phase EXCEPT ![t] = "closed"]
  /\ chrome' = [g \in Guid |-> IF by[g] = t /\ ~shared THEN EndOf(chrome[g])
                               ELSE chrome[g]]
  /\ UNCHANGED <<shared, by, file, delivery, kept, handlers>>

\* Fault: only the files the coordinator was told of are removed.
Leftover_Looked(t) == {g \in file : lookup[g] = t}

\* cleanup_tab_dir: the guids of the tab, or its whole directory.
Leftover(t) ==
  {g \in file : IF shared THEN lookup[g] = t ELSE by[g] = t}

CleanupTabDir(t) ==
  /\ phase[t] = "closed"
  /\ phase' = [phase EXCEPT ![t] = "cleaned"]
  /\ file' = file \ Leftover(t)
  /\ UNCHANGED <<chromium, delivery, kept, handlers>>

DetachTab(t) ==
  /\ phase[t] = "cleaned"
  /\ phase' = [phase EXCEPT ![t] = "gone"]
  /\ lookup' = [g \in Guid |-> IF lookup[g] = t THEN Nobody ELSE lookup[g]]
  /\ pendingType' = [pendingType EXCEPT ![t] = Nobody]
  /\ UNCHANGED <<chromium, file, delivery, records, state, content_type,
                 handlers>>

----------------------------------------------------------------------------
(* POST .../cancel and DELETE .../downloads/{did}                          *)

TabOf(x) == target[x][1]
GuidOf(x) == target[x][2]

\* rec.lock of the tab is free and nobody queues for it.
Uncontended(t) ==
  /\ lock[t] = Nobody
  /\ \A y \in Client :
       at[y] \in {"toCancel", "toDelete"} => TabOf(y) # t

\* The tab and, for a cancel, the download in progress are found (404 and
\* 409 otherwise) before rec.lock is asked for.
Ask(x, p, where) ==
  /\ at[x] = "idle"
  /\ running = Nobody
  /\ Registered(p[1])
  /\ where = "toCancel" => p \in records /\ state[p] = "in_progress"
  /\ target' = [target EXCEPT ![x] = p]
  /\ at' = [at EXCEPT ![x] = where]
  /\ running' = IF Uncontended(p[1]) THEN x ELSE Nobody
  /\ UNCHANGED <<chromium, file, delivery, phase, kept, lock, deleted>>

Locks(x, where) ==
  /\ at[x] = where
  /\ lock[TabOf(x)] = Nobody
  /\ running \in {x, Nobody}
  /\ running' = Nobody

CancelLocked(x) ==
  /\ Locks(x, "toCancel")
  /\ lock' = [lock EXCEPT ![TabOf(x)] = x]
  /\ at' = [at EXCEPT ![x] = "cancelling"]
  /\ UNCHANGED <<chromium, file, delivery, phase, kept, target, deleted>>

\* Fault: what is in progress is not cancelled.
MustCancel_Never(x) == FALSE

MustCancel(x) == state[target[x]] = "in_progress"

\* The record is popped (404 if it is gone); what is in progress is cancelled
\* first.
DeleteLocked(x) ==
  /\ Locks(x, "toDelete")
  /\ records' = records \ {target[x]}
  /\ IF target[x] \in records /\ MustCancel(x)
     THEN /\ lock' = [lock EXCEPT ![TabOf(x)] = x]
          /\ at' = [at EXCEPT ![x] = "stopping"]
     ELSE /\ UNCHANGED lock
          /\ at' = [at EXCEPT
               ![x] = IF target[x] \in records THEN "unlinking" ELSE "idle"]
  /\ deleted' = deleted \cup (records \cap {target[x]})
  /\ UNCHANGED <<chromium, file, delivery, phase, state, content_type, lookup,
                 pendingType, target>>

\* Browser.cancelDownload is answered; a download that has ended stays as it
\* is.
Cancelled(x) ==
  /\ chrome[GuidOf(x)] = "running"
  /\ chrome' = [chrome EXCEPT ![GuidOf(x)] = "canceled"]
  /\ file' = file \ {GuidOf(x)}
  /\ UNCHANGED deleted

Unlock(x) == lock' = [lock EXCEPT ![TabOf(x)] = Nobody]

CancelAnswered(x) ==
  /\ at[x] \in {"cancelling", "stopping"}
  /\ running = Nobody
  /\ \/ Cancelled(x)
     \/ /\ chrome[GuidOf(x)] # "running"
        /\ UNCHANGED <<chrome, file, deleted>>
     \/ /\ deleted' = deleted \ {target[x]}   \* it raises
        /\ UNCHANGED <<chrome, file>>
  /\ Unlock(x)
  /\ at' = [at EXCEPT ![x] = IF @ = "stopping" THEN "unlinking" ELSE "idle"]
  /\ UNCHANGED <<shared, by, delivery, phase, kept, running, target>>

\* _unlink_if_exists, in a thread.
Unlink(x) ==
  /\ at[x] = "unlinking"
  /\ running = Nobody
  /\ file' = file \ {GuidOf(x)}
  /\ at' = [at EXCEPT ![x] = "idle"]
  /\ UNCHANGED <<chromium, delivery, phase, kept, lock, running, target,
                 deleted>>

----------------------------------------------------------------------------

TabEnds(t) == Remove(t) \/ CloseContext(t) \/ CleanupTabDir(t) \/ DetachTab(t)

Event ==
  \/ \E t \in Tab, g \in Guid :
       Paused(t, g) \/ Unpaused(t, g) \/ WillBegin(t, g) \/ Progress(t, g)
  \/ \E g \in Guid : Begins(g) \/ Withdrawn(g) \/ Completes(g) \/ Fails(g)
  \/ \E t \in Tab : TabEnds(t)

Request(x) ==
  \/ \E p \in Pair, w \in {"toCancel", "toDelete"} : Ask(x, p, w)
  \/ CancelLocked(x)
  \/ DeleteLocked(x)
  \/ CancelAnswered(x)
  \/ Unlink(x)

DownNext == (running = Nobody /\ Event) \/ \E x \in Client : Request(x)

DownSpec == DownInit /\ [][DownNext]_vars

----------------------------------------------------------------------------
(* Properties                                                              *)

\* The values of the variables, and who holds a lock is at work under it.
DownTypeOK ==
  /\ shared \in BOOLEAN
  /\ chrome \in [Guid -> {"none", "offered", "dropped", "running",
                          "completed", "canceled"}]
  /\ by \in [Guid -> Tab \cup {Nobody}]
  /\ file \subseteq Guid
  /\ begun \cup ended \cup records \subseteq Pair
  /\ phase \in [Tab -> {"open", "removed", "closed", "cleaned", "gone"}]
  /\ state \in [Pair -> {"in_progress"} \cup Terminal]
  /\ content_type \in [Pair -> Guid \cup {Nobody}]
  /\ lookup \in [Guid -> Tab \cup {Nobody}]
  /\ pendingType \in [Tab -> Guid \cup {Nobody}]
  /\ running \in Client \cup {Nobody}
  /\ target \in [Client -> Pair]
  /\ \A x \in Client :
       at[x] \in {"cancelling", "stopping"} <=> lock[TabOf(x)] = x

\* A record that says its download has ended, which is what a cancel, a delete
\* and a read of the file go by, says how Chromium says it has.  Isolated, it
\* says so once the tab was told, and does not say anything else again.
EndIsFinal ==
  /\ \A p \in records : state[p] \in Terminal => state[p] = chrome[p[2]]
  /\ ~shared => \A p \in ended \cap records :
                  Registered(p[1]) => state[p] \in Terminal

\* A tab that is gone has left no route or content type behind and, if its
\* context was its own, no file.
NothingKept ==
  \A t \in Tab : phase[t] = "gone" =>
    /\ pendingType[t] = Nobody
    /\ \A g \in Guid : lookup[g] # t /\ (by[g] = t /\ ~shared => g \notin file)

\* A deleted download stays deleted: its record never comes back and, when the
\* request is done and unless Chromium failed to cancel the download, neither
\* does its file, though other tabs may have records of it.
StaysDeleted ==
  \A p \in deleted :
    /\ p \notin records
    /\ (\A x \in Client : at[x] \in {"stopping", "unlinking"}
          => target[x] # p) => p[2] \notin file

\* One answer's content type is given to one download.
TypeGivenOnce ==
  \A p, q \in records :
    content_type[p] = content_type[q] /\ content_type[p] # Nobody => p = q

=============================================================================
